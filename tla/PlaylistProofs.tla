--------------------------- MODULE PlaylistProofs ---------------------------
(***************************************************************************)
(* The indices of the playlist are sound in every reachable state, for any *)
(* sets of tracks and any bounds.  The inductive invariant is the          *)
(* conjunction of the properties that MCPlaylist checks: each of them      *)
(* needs the others, since an edit rewrites order, pos, queue and          *)
(* queuedIdx from one another.  What HasNext and PeekNext say of the next  *)
(* call of Next follows from it: they search the order and the queue that  *)
(* Next searches, and sound indices make those searches find what there is.*)
(* An edit then leaves the listener in place, because every reference      *)
(* follows its row and no two rows are the same track (RowsDistinct).      *)
(* Undo restores a snapshot, so it keeps the indexes sound as long as the  *)
(* snapshot was sound, and drops nothing as long as every change since     *)
(* made a new revision.                                                    *)
(***************************************************************************)
EXTENDS PlaylistUndo, FiniteSetTheorems, SequenceTheorems, WellFoundedInduction, TLAPS

-----------------------------------------------------------------------------
(* Finite sets of numbers: least and greatest elements, and the            *)
(* enumeration of a set in increasing order.  Induction is by least        *)
(* counterexample.                                                         *)

(* Every non-empty set of natural numbers has a least element. *)
LEMMA LeastExists ==
  \A T : T \subseteq Nat /\ T # {} => \E m \in T : \A k \in T : m <= k
<1> DEFINE R == OpToRel(<, Nat)
<1>1. IsWellFoundedOn(R, Nat)
  BY NatLessThanWellFounded
<1>2. \A y \in Nat, x \in Nat : y < x => <<y, x>> \in R
  BY DEF OpToRel
<1> HIDE DEF R
<1> SUFFICES ASSUME NEW T, T \subseteq Nat, T # {}
             PROVE  \E m \in T : \A k \in T : m <= k
  OBVIOUS
<1>3. PICK x \in T : \A y \in T : ~ (<<y, x>> \in R)
  BY <1>1, WFMin
<1>4. \A y \in T : y \in Nat /\ x \in Nat
  OBVIOUS
<1>5. \A y \in T : ~ (y < x)
  BY <1>2, <1>3, <1>4, Zenon
<1>6. \A y \in T : x <= y
  BY <1>4, <1>5
<1> QED BY <1>6

(* A non-empty set of numbers up to N has a greatest element. *)
LEMMA GreatestExists ==
  ASSUME NEW N \in Nat, NEW T, T \subseteq 0..N, T # {}
  PROVE  \E m \in T : \A k \in T : k <= m
<1> DEFINE D == {N - k : k \in T}
<1>0. \A k \in T : k \in Int /\ N - k \in Nat
  OBVIOUS
<1>1. D \subseteq Nat /\ D # {}
  BY <1>0
<1>2. PICK d \in D : \A k \in D : d <= k
  BY <1>1, LeastExists
<1>3. PICK m \in T : d = N - m
  BY <1>2
<1>4. \A k \in T : N - m <= N - k
  BY <1>2, <1>3
<1> QED BY <1>4

(* Min and Max of such a set are its least and greatest elements. *)
LEMMA MinFact ==
  ASSUME NEW T, T \subseteq Nat, T # {}
  PROVE  Min(T) \in T /\ \A k \in T : Min(T) <= k
<1>1. \E m \in T : \A k \in T : m <= k
  BY LeastExists
<1> QED BY <1>1 DEF Min

(* The larger of two numbers is one of them.                               *)
LEMMA MaxFact ==
  ASSUME NEW N \in Nat, NEW T, T \subseteq 0..N, T # {}
  PROVE  Max(T) \in T /\ \A k \in T : Max(T) >= k
<1>1. \E m \in T : \A k \in T : k <= m
  BY GreatestExists
<1>2. \E m \in T : \A k \in T : m >= k
  <2>1. T \subseteq Int
    OBVIOUS
  <2> QED BY <1>1, <2>1
<1> QED BY <1>2 DEF Max

(* f lists the elements of K in increasing order. *)
Enumerates(f, K) ==
  /\ \A i, j \in 1..Cardinality(K) : i < j => f[i] < f[j]
  /\ \A k \in K : \E i \in 1..Cardinality(K) : f[i] = k

(* Every set of numbers up to N can be listed in increasing order. *)
LEMMA EnumerationExists ==
  ASSUME NEW N \in Nat
  PROVE  \A K \in SUBSET (1..N) :
           \E f \in [1..Cardinality(K) -> K] : Enumerates(f, K)
<1> DEFINE Listable(K) == \E f \in [1..Cardinality(K) -> K] : Enumerates(f, K)
           Bad == {n \in Nat : \E K \in SUBSET (1..N) : Cardinality(K) = n /\ ~Listable(K)}
<1>1. \A K \in SUBSET (1..N) : IsFiniteSet(K) /\ Cardinality(K) \in Nat
  <2> TAKE K \in SUBSET (1..N)
  <2>1. IsFiniteSet(1..N)
    BY FS_Interval
  <2>2. IsFiniteSet(K)
    BY <2>1, FS_Subset
  <2> QED BY <2>2, FS_CardinalityType
<1>2. ASSUME Bad # {} PROVE FALSE
  <2>1. PICK n \in Bad : \A k \in Bad : n <= k
    BY <1>2, LeastExists
  <2>2. PICK K \in SUBSET (1..N) : Cardinality(K) = n /\ ~Listable(K)
    BY <2>1
  <2>3. CASE n = 0
    <3>1. K = {}
      BY <1>1, <2>2, <2>3, FS_EmptySet
    <3> DEFINE e == [i \in 1..0 |-> i]
    <3>2. e \in [1..Cardinality(K) -> K] /\ Enumerates(e, K)
      BY <2>2, <2>3, <3>1 DEF Enumerates
    <3> QED BY <2>2, <3>2
  <2>4. CASE n # 0
    <3>1. K # {}
      BY <1>1, <2>2, <2>4, FS_EmptySet
    <3>2. PICK m \in K : \A k \in K : k <= m
      <4>1. K \subseteq 0..N
        OBVIOUS
      <4> QED BY <3>1, <4>1, GreatestExists
    <3>2a. m \in Int /\ \A x \in K : x \in Int /\ x <= m
      BY <3>2
    <3> DEFINE L == K \ {m}
    <3>3. Cardinality(L) = n - 1
      BY <1>1, <2>2, FS_RemoveElement
    <3>4. n - 1 \in Nat /\ n - 1 \notin Bad
      BY <2>1, <2>4
    <3>5. L \in SUBSET (1..N)
      OBVIOUS
    <3>6. Listable(L)
      BY <3>3, <3>4, <3>5
    <3>7. PICK g \in [1..Cardinality(L) -> L] : Enumerates(g, L)
      BY <3>6
    <3> DEFINE f == [i \in 1..n |-> IF i = n THEN m ELSE g[i]]
    <3>8. n \in Nat /\ \A i \in 1..n : i # n => i \in 1..(n - 1)
      BY <2>1
    <3>9. f \in [1..n -> K]
      BY <3>3, <3>7, <3>8
    <3>10. \A i, j \in 1..n : i < j => f[i] < f[j]
      <4> TAKE i, j \in 1..n
      <4> HAVE i < j
      <4>1. i \in 1..(n - 1) /\ i # n
        BY <3>8
      <4>2. g[i] \in L /\ f[i] = g[i]
        BY <3>3, <3>7, <4>1
      <4>3. CASE j = n
        <5>1. g[i] \in K /\ g[i] # m
          BY <4>2
        <5>2. g[i] \in Int /\ m \in Int /\ g[i] <= m
          BY <3>2a, <5>1, Zenon
        <5>3. g[i] < m
          BY <5>1, <5>2
        <5> QED BY <4>2, <4>3, <5>3
      <4>4. CASE j # n
        BY <3>3, <3>7, <3>8, <4>1, <4>4 DEF Enumerates
      <4> QED BY <4>3, <4>4
    <3>11. \A k \in K : \E i \in 1..n : f[i] = k
      <4> TAKE k \in K
      <4>1. CASE k = m
        <5>1. n \in 1..n /\ f[n] = m
          BY <2>4, <3>8
        <5> QED BY <4>1, <5>1
      <4>2. CASE k # m
        <5>1. PICK i \in 1..(n - 1) : g[i] = k
          BY <3>3, <3>7, <4>2 DEF Enumerates
        <5>2. i \in 1..n /\ i # n /\ f[i] = k
          BY <3>8, <5>1
        <5> QED BY <5>2
      <4> QED BY <4>1, <4>2
    <3> HIDE DEF f
    <3>12. Enumerates(f, K)
      BY <2>2, <3>10, <3>11 DEF Enumerates
    <3>13. Listable(K)
      BY <2>2, <3>9, <3>12
    <3> QED BY <2>2, <3>13
  <2> QED BY <2>3, <2>4
<1>3. \A K \in SUBSET (1..N) : Listable(K)
  BY <1>1, <1>2
<1> QED BY <1>3

-----------------------------------------------------------------------------
(* Play orders *)

(* A play order of n rows is a sequence of length n. *)
LEMMA OrderIsSeq ==
  ASSUME NEW n \in Nat, NEW o \in Orders(n)
  PROVE  /\ o \in Seq(1..n) /\ o \in Seq(Nat)
         /\ Len(o) = n /\ DOMAIN o = 1..n
         /\ o = <<>> <=> n = 0
<1>1. o \in [1..n -> 1..n]
  BY DEF Orders
<1>2. o \in Seq(1..n)
  BY <1>1
<1>3. Len(o) = n /\ DOMAIN o = 1..n
  BY <1>1
<1>4. o \in Seq(Nat)
  BY <1>1
<1>5. o = <<>> <=> n = 0
  BY <1>2, <1>3
<1> QED BY <1>2, <1>3, <1>4, <1>5

(* The track order is a play order. *)
LEMMA TrackOrderIsOrder ==
  ASSUME NEW n \in Nat
  PROVE  TrackOrder(n) \in Orders(n)
BY DEF Orders, TrackOrder

(* What a reshuffle or a tail shuffle draws is a play order. *)
LEMMA ShufflesAreOrders ==
  ASSUME NEW n \in Nat, NEW o \in Orders(n), NEW p
  PROVE  Shuffles(o, p) \subseteq Orders(n) /\ TailShuffles(o, p) \subseteq Orders(n)
BY OrderIsSeq DEF Shuffles, TailShuffles

(* Rows appended to a play order extend it. *)
LEMMA AppendedOrder ==
  ASSUME NEW n \in Nat, NEW r \in Nat, NEW o \in Orders(n)
  PROVE  /\ o \o [k \in 1..r |-> n + k] \in Orders(n + r)
         /\ o = TrackOrder(n) => o \o [k \in 1..r |-> n + k] = TrackOrder(n + r)
<1> DEFINE t == [k \in 1..r |-> n + k]
           a == o \o t
<1>1. o \in Seq(Nat) /\ Len(o) = n /\ o \in [1..n -> 1..n]
  BY OrderIsSeq DEF Orders
<1>2. t \in Seq(Nat) /\ Len(t) = r /\ \A k \in 1..r : t[k] = n + k
  OBVIOUS
<1> HIDE DEF t
<1>3. /\ a \in Seq(Nat) /\ Len(a) = n + r
      /\ \A i \in 1..(n + r) : a[i] = IF i <= n THEN o[i] ELSE t[i - n]
  BY <1>1, <1>2, ConcatProperties
<1> HIDE DEF a
<1>4. \A i \in 1..(n + r) : a[i] = IF i <= n THEN o[i] ELSE i
  <2> TAKE i \in 1..(n + r)
  <2>1. i > n => i - n \in 1..r
    OBVIOUS
  <2> QED BY <1>2, <1>3, <2>1
<1>5. a \in [1..(n + r) -> 1..(n + r)]
  <2>1. \A i \in 1..(n + r) : a[i] \in 1..(n + r)
    BY <1>1, <1>4
  <2>2. DOMAIN a = 1..(n + r) /\ a = [i \in 1..(n + r) |-> a[i]]
    BY <1>3
  <2> QED BY <2>1, <2>2
<1>6. \A i, j \in 1..(n + r) : a[i] = a[j] => i = j
  <2> TAKE i, j \in 1..(n + r)
  <2> HAVE a[i] = a[j]
  <2>1. i <= n => o[i] \in 1..n
    BY <1>1
  <2>2. j <= n => o[j] \in 1..n
    BY <1>1
  <2>3. i <= n /\ j <= n /\ o[i] = o[j] => i = j
    BY DEF Orders
  <2> QED BY <1>4, <2>1, <2>2, <2>3
<1>7. \A k \in 1..(n + r) : \E i \in 1..(n + r) : a[i] = k
  <2> TAKE k \in 1..(n + r)
  <2>1. CASE k <= n
    <3>1. PICK i \in 1..n : o[i] = k
      BY <2>1 DEF Orders
    <3> QED BY <1>4, <3>1
  <2>2. CASE k > n
    BY <1>4, <2>2
  <2> QED BY <2>1, <2>2
<1>8. a \in Orders(n + r)
  BY <1>5, <1>6, <1>7 DEF Orders
<1>9. o = TrackOrder(n) => a = TrackOrder(n + r)
  BY <1>4, <1>5 DEF TrackOrder
<1> QED BY <1>8, <1>9 DEF a, t

(* Swapping two rows in a play order gives a play order. *)
LEMMA SwappedOrder ==
  ASSUME NEW n \in Nat, NEW o \in Orders(n), NEW f \in 1..n, NEW t \in 1..n
  PROVE  SwappedIn(o, f, t) \in Orders(n)
<1> DEFINE w == SwappedIn(o, f, t)
<1>1. o \in [1..n -> 1..n] /\ DOMAIN o = 1..n
  BY OrderIsSeq DEF Orders
<1>2. w \in [1..n -> 1..n] /\ \A k \in 1..n : w[k] = Swapped(o[k], f, t)
  BY <1>1 DEF SwappedIn, Swapped
<1>3. \A x, y \in 1..n : Swapped(x, f, t) = Swapped(y, f, t) => x = y
  BY DEF Swapped
<1>4. \A x \in 1..n : Swapped(x, f, t) \in 1..n /\ Swapped(Swapped(x, f, t), f, t) = x
  BY DEF Swapped
<1> HIDE DEF w
<1>5. \A i, j \in 1..n : w[i] = w[j] => i = j
  <2> TAKE i, j \in 1..n
  <2> HAVE w[i] = w[j]
  <2>1. o[i] \in 1..n /\ o[j] \in 1..n
    BY <1>1
  <2>2. Swapped(o[i], f, t) = Swapped(o[j], f, t)
    BY <1>2
  <2>3. o[i] = o[j]
    BY <1>3, <2>1, <2>2
  <2> QED BY <2>3 DEF Orders
<1>6. \A k \in 1..n : \E i \in 1..n : w[i] = k
  <2> TAKE k \in 1..n
  <2>1. PICK i \in 1..n : o[i] = Swapped(k, f, t)
    BY <1>4 DEF Orders
  <2> QED BY <1>2, <1>4, <2>1
<1>7. w \in Orders(n)
  BY <1>2, <1>5, <1>6 DEF Orders
<1> QED BY <1>7 DEF w


-----------------------------------------------------------------------------
(* Removal *)

(* InOrder lists a set of slots once each, lowest first. *)
LEMMA InOrderFact ==
  ASSUME NEW N \in Nat, NEW K \in SUBSET (1..N)
  PROVE  LET c == Cardinality(K)
             f == InOrder(K)
         IN  /\ c \in Nat /\ f \in Seq(K) /\ Len(f) = c /\ f \in [1..c -> K]
             /\ \A i, j \in 1..c : i < j => f[i] < f[j]
             /\ \A i, j \in 1..c : f[i] = f[j] => i = j
             /\ \A k \in K : \E i \in 1..c : f[i] = k
             /\ \A k \in K : PlaceIn(f, k) \in 1..c /\ f[PlaceIn(f, k)] = k
<1> DEFINE c == Cardinality(K)
           f == InOrder(K)
<1>1. c \in Nat
  <2>1. IsFiniteSet(1..N)
    BY FS_Interval
  <2>2. IsFiniteSet(K)
    BY <2>1, FS_Subset
  <2> QED BY <2>2, FS_CardinalityType
<1>2. \E g \in [1..c -> K] : Enumerates(g, K)
  BY EnumerationExists
<1>3. /\ f \in [1..c -> K]
      /\ \A i, j \in 1..c : i < j => f[i] < f[j]
      /\ \A k \in K : \E i \in 1..c : f[i] = k
  BY <1>2 DEF Enumerates, InOrder
<1> HIDE DEF c, f
<1>4. f \in Seq(K) /\ Len(f) = c /\ DOMAIN f = 1..c
  BY <1>1, <1>3
<1>5. \A i, j \in 1..c : f[i] = f[j] => i = j
  <2> TAKE i, j \in 1..c
  <2>1. f[i] \in K /\ f[j] \in K
    BY <1>3
  <2>2. \A k \in K : k \in Int
    OBVIOUS
  <2>3. f[i] \in Int /\ f[j] \in Int
    BY <2>1, <2>2, Zenon
  <2> QED BY <1>1, <1>3, <2>3
<1>6. \A k \in K : PlaceIn(f, k) \in 1..c /\ f[PlaceIn(f, k)] = k
  BY <1>3, <1>4 DEF PlaceIn
<1> QED BY <1>1, <1>3, <1>4, <1>5, <1>6 DEF c, f

(* As many slots stay as rows stay. *)
LEMMA SlotsMatchRows ==
  ASSUME NEW n \in Nat, NEW o \in Orders(n), NEW G
  PROVE  Cardinality({s \in 1..n : o[s] \notin G}) = Cardinality((1..n) \ G)
<1> DEFINE S == {s \in 1..n : o[s] \notin G}
           K == (1..n) \ G
           h == [s \in S |-> o[s]]
<1>1. o \in [1..n -> 1..n]
  BY DEF Orders
<1>2. h \in [S -> K]
  BY <1>1
<1>3. \A s, t \in S : h[s] = h[t] => s = t
  BY DEF Orders
<1>4. \A k \in K : \E s \in S : h[s] = k
  BY DEF Orders
<1>5. h \in Bijection(S, K)
  BY <1>2, <1>3, <1>4 DEF Bijection, Injection, Surjection, IsInjective
<1>6. IsFiniteSet(S)
  <2>1. IsFiniteSet(1..n) /\ S \in SUBSET (1..n)
    BY FS_Interval
  <2> QED BY <2>1, FS_Subset
<1> HIDE DEF S, K, h
<1>7. Cardinality(K) = Cardinality(S)
  BY <1>5, <1>6, FS_Bijection DEF ExistsBijection
<1> QED BY <1>7 DEF S, K

(* The order that is left after a removal is a play order of the rows that *)
(* are left, and the track order stays the track order.                    *)
LEMMA ClosedUpOrder ==
  ASSUME NEW n \in Nat, NEW o \in Orders(n), NEW G
  PROVE  LET kept  == InOrder((1..n) \ G)
             slots == InOrder({s \in 1..n : o[s] \notin G})
             left  == [k \in 1..Len(slots) |-> PlaceIn(kept, o[slots[k]])]
         IN  /\ left \in Orders(Cardinality((1..n) \ G))
             /\ o = TrackOrder(n) => left = TrackOrder(Cardinality((1..n) \ G))
<1> DEFINE K == (1..n) \ G
           S == {s \in 1..n : o[s] \notin G}
           c == Cardinality(K)
           kept  == InOrder(K)
           slots == InOrder(S)
           left  == [k \in 1..Len(slots) |-> PlaceIn(kept, o[slots[k]])]
<1>1. o \in [1..n -> 1..n] /\ (\A i, j \in 1..n : o[i] = o[j] => i = j)
      /\ (\A k \in 1..n : \E i \in 1..n : o[i] = k)
  BY DEF Orders
<1>2. Cardinality(S) = c
  BY SlotsMatchRows
<1>a. K \in SUBSET (1..n) /\ S \in SUBSET (1..n)
  OBVIOUS
<1>3. /\ c \in Nat /\ kept \in [1..c -> K] /\ DOMAIN kept = 1..c
      /\ \A i, j \in 1..c : kept[i] = kept[j] => i = j
      /\ \A k \in K : PlaceIn(kept, k) \in 1..c /\ kept[PlaceIn(kept, k)] = k
  BY <1>a, InOrderFact
<1>4. /\ Len(slots) = c /\ slots \in [1..c -> S]
      /\ \A i, j \in 1..c : slots[i] = slots[j] => i = j
      /\ \A s \in S : \E i \in 1..c : slots[i] = s
  BY <1>2, <1>a, InOrderFact
<1>5. \A s \in S : s \in 1..n /\ o[s] \in K
  BY <1>1
<1>6. o = TrackOrder(n) => S = K
  BY DEF TrackOrder
<1>7. \A k \in K : \E s \in S : o[s] = k
  BY <1>1
<1> HIDE DEF K, S, c
<1>8. o = TrackOrder(n) => kept = slots
  BY <1>6
<1> HIDE DEF kept, slots
<1>9. left \in [1..c -> 1..c]
  BY <1>3, <1>4, <1>5
<1>10. \A i \in 1..c : left[i] \in 1..c /\ kept[left[i]] = o[slots[i]]
  BY <1>3, <1>4, <1>5
<1>11. o = TrackOrder(n) => left = TrackOrder(c)
  <2> HAVE o = TrackOrder(n)
  <2>1. \A i \in 1..c : o[slots[i]] = slots[i]
    BY <1>4, <1>5 DEF TrackOrder
  <2>2. \A i \in 1..c : kept[left[i]] = kept[i]
    BY <1>8, <1>10, <2>1
  <2>3. \A i \in 1..c : left[i] = i
    BY <1>3, <1>10, <2>2
  <2> QED BY <1>9, <2>3 DEF TrackOrder
<1> HIDE DEF left
<1>12. \A i, j \in 1..c : left[i] = left[j] => i = j
  <2> TAKE i, j \in 1..c
  <2> HAVE left[i] = left[j]
  <2>1. o[slots[i]] = o[slots[j]]
    BY <1>10
  <2>2. slots[i] \in 1..n /\ slots[j] \in 1..n
    BY <1>4, <1>5
  <2>3. slots[i] = slots[j]
    BY <1>1, <2>1, <2>2
  <2> QED BY <1>4, <2>3
<1>13. \A k \in 1..c : \E i \in 1..c : left[i] = k
  <2> TAKE k \in 1..c
  <2>1. kept[k] \in K
    BY <1>3
  <2>2. PICK s \in S : o[s] = kept[k]
    BY <1>7, <2>1
  <2>3. PICK i \in 1..c : slots[i] = s
    BY <1>4
  <2>4. kept[left[i]] = kept[k] /\ left[i] \in 1..c
    BY <1>10, <2>2, <2>3
  <2> QED BY <1>3, <2>4
<1>14. left \in Orders(c)
  BY <1>9, <1>12, <1>13 DEF Orders
<1> QED BY <1>11, <1>14 DEF left, kept, slots, K, S, c


-----------------------------------------------------------------------------
(* The invariant *)

(* IndexInv in terms of the number of rows. *)
LEMMA IndexInvFacts ==
  ASSUME IndexInv
  PROVE  LET n == Len(tracks)
         IN  /\ n \in Nat /\ DOMAIN tracks = 1..n
             /\ order \in Orders(n) /\ Len(order) = n /\ DOMAIN order = 1..n
             /\ order = <<>> <=> n = 0
             /\ tracks = <<>> <=> n = 0
             /\ pos \in Nat /\ pos >= 1 /\ (n > 0 => pos \in 1..n)
             /\ queue \in Seq(1..n)
             /\ queuedIdx \in 0..n
<1>1. Len(tracks) \in Nat /\ DOMAIN tracks = 1..Len(tracks) /\ (tracks = <<>> <=> Len(tracks) = 0)
  BY DEF IndexInv, TypeOK
<1>2. order \in Orders(Len(tracks))
  BY DEF IndexInv, PlayOrderIntegrity
<1>3. /\ Len(order) = Len(tracks) /\ DOMAIN order = 1..Len(tracks)
      /\ order = <<>> <=> Len(tracks) = 0
  BY <1>1, <1>2, OrderIsSeq
<1>4. pos \in Nat /\ pos >= 1 /\ (Len(tracks) > 0 => pos \in 1..Len(tracks))
  BY <1>1, <1>3 DEF IndexInv, PlayOrderIntegrity, TypeOK
<1>5. queue \in Seq(1..Len(tracks))
  <2>1. queue \in Seq(Nat) /\ \A k \in DOMAIN queue : queue[k] \in 1..Len(tracks)
    BY <1>1 DEF IndexInv, PlayOrderIntegrity, TypeOK
  <2> QED BY <2>1
<1>6. queuedIdx \in 0..Len(tracks)
  BY <1>1 DEF IndexInv, PlayOrderIntegrity, TypeOK, None
<1> QED BY <1>1, <1>2, <1>3, <1>4, <1>5, <1>6

(* The invariant holds after a step that leaves such facts of n rows. *)
LEMMA IndexInvFrom ==
  ASSUME NEW n \in Nat,
         tracks' \in Seq(Row), Len(tracks') = n,
         order' \in Orders(n), pos' \in 1..n \/ (n = 0 /\ pos' = 1),
         queue' \in Seq(1..n), queuedIdx' \in 0..n,
         queuePositions' = FirstPositions(queue'),
         shuffle' \in BOOLEAN, smart' \in BOOLEAN, repeat' \in RepeatModes,
         revision' \in 0..RevisionModulus - 1,
         ~shuffle' => order' = TrackOrder(n)
  PROVE  IndexInv'
<1>1. order' \in Seq(Nat) /\ Len(order') = n /\ DOMAIN order' = 1..n /\ (order' = <<>> <=> n = 0)
  BY OrderIsSeq
<1>2. DOMAIN tracks' = 1..n
  OBVIOUS
<1>3. TypeOK'
  <2>1. queue' \in Seq(Nat) /\ queuedIdx' \in Nat /\ pos' \in Nat
    OBVIOUS
  <2> QED BY <1>1, <2>1 DEF TypeOK
<1>4. PlayOrderIntegrity'
  <2>1. \A k \in DOMAIN queue' : queue'[k] \in 1..n
    OBVIOUS
  <2> QED BY <1>1, <1>2, <2>1 DEF PlayOrderIntegrity, None
<1> QED BY <1>3, <1>4 DEF IndexInv, QueuePositionsExact, TrackOrderUnlessShuffled

(* A revision stays a revision. *)
LEMMA BumpFact ==
  ASSUME revision \in 0..RevisionModulus - 1, NEW k \in Nat
  PROVE  Bump(k) \in 0..RevisionModulus - 1
BY RevisionAssumption DEF Bump

(* What a transport call may leave behind. *)
Sound(r) ==
  /\ r.order \in Orders(Len(tracks))
  /\ r.pos \in Nat /\ r.pos >= 1 /\ (Len(tracks) > 0 => r.pos \in 1..Len(tracks))
  /\ Len(tracks) = 0 => r.pos = 1
  /\ r.queue \in Seq(1..Len(tracks))
  /\ r.queuedIdx \in 0..Len(tracks)
  /\ ~shuffle => r.order = order

(* Taking a queued row keeps it (takeQueued of Next).                      *)
LEMMA TakeSound ==
  ASSUME IndexInv, NEW r, Sound(r), Take(r)
  PROVE  IndexInv'
<1> DEFINE n == Len(tracks)
<1>1. n \in Nat /\ tracks' = tracks /\ shuffle' = shuffle /\ smart' = smart /\ repeat' = repeat
  BY IndexInvFacts DEF Take, modeVars
<1>2. revision' \in 0..RevisionModulus - 1
  BY BumpFact DEF Take, IndexInv, TypeOK
<1>3. order' \in Orders(n) /\ (~shuffle' => order' = TrackOrder(n))
  BY <1>1 DEF Take, Sound, IndexInv, TrackOrderUnlessShuffled
<1>4. pos' \in 1..n \/ (n = 0 /\ pos' = 1)
  BY <1>1 DEF Take, Sound
<1>5. queue' \in Seq(1..n) /\ queuedIdx' \in 0..n /\ queuePositions' = FirstPositions(queue')
  BY <1>1 DEF Take, Sound
<1>6. tracks' \in Seq(Row) /\ shuffle' \in BOOLEAN /\ smart' \in BOOLEAN /\ repeat' \in RepeatModes
  BY <1>1 DEF IndexInv, TypeOK
<1> QED BY <1>1, <1>2, <1>3, <1>4, <1>5, <1>6, IndexInvFrom


(* A search of the order answers with a slot of it. *)
LEMMA SlotSearch ==
  ASSUME IndexInv, NEW o \in Orders(Len(tracks)), NEW a \in Int, NEW b \in Int,
         a >= 1, PlayableSlots(o, a, b) # {}
  PROVE  /\ Min(PlayableSlots(o, a, b)) \in 1..Len(tracks)
         /\ Max(PlayableSlots(o, a, b)) \in 1..Len(tracks)
         /\ Len(tracks) > 0
<1>1. Len(tracks) \in Nat /\ DOMAIN o = 1..Len(tracks)
  BY IndexInvFacts, OrderIsSeq
<1>2. PlayableSlots(o, a, b) \subseteq 1..Len(tracks)
  BY <1>1 DEF PlayableSlots
<1> DEFINE S == PlayableSlots(o, a, b)
<1> HIDE DEF S
<1>3. S \subseteq Nat /\ S \subseteq 0..Len(tracks) /\ S # {}
  BY <1>1, <1>2 DEF S
<1>4. Min(S) \in S /\ Max(S) \in S
  BY <1>1, <1>3, MinFact, MaxFact
<1> QED BY <1>1, <1>2, <1>4 DEF S

(* A playable queue entry is found at a place of the queue. *)
LEMMA QueueSearch ==
  ASSUME IndexInv, NEW S, S \subseteq DOMAIN queue, S # {}
  PROVE  Min(S) \in 1..Len(queue) /\ queue[Min(S)] \in 1..Len(tracks)
<1>1. queue \in Seq(1..Len(tracks)) /\ Len(tracks) \in Nat
  BY IndexInvFacts
<1>2. S \subseteq Nat
  BY <1>1
<1>3. Min(S) \in S
  BY <1>2, MinFact
<1> QED BY <1>1, <1>3

(* What advanceFromOrder answers lies in a play order of the rows. *)
LEMMA TargetsSound ==
  ASSUME IndexInv, Len(tracks) > 0, NEW q, NEW t \in AdvanceTargets(q)
  PROVE  /\ t[1] \in Orders(Len(tracks))
         /\ t[2] \in 1..Len(tracks)
         /\ ~shuffle => t[1] = order
<1> DEFINE n == Len(tracks)
           later == PlayableSlots(order, pos + 1, Len(order))
           any   == PlayableSlots(order, 1, Len(order))
<1>1. n \in Nat /\ order \in Orders(n) /\ Len(order) = n /\ pos \in 1..n
  BY IndexInvFacts
<1>2. later # {} => Min(later) \in 1..n
  BY <1>1, SlotSearch
<1>3. any # {} => Min(any) \in 1..n
  BY <1>1, SlotSearch
<1>4. \A w \in ShuffleWrapTargets : w[1] \in Orders(n) /\ w[2] \in 1..n
  <2> TAKE w \in ShuffleWrapTargets
  <2>1. PICK o \in Shuffles(order, pos) : w = <<o, WrapSlot(o)>>
    BY DEF ShuffleWrapTargets
  <2>2. o \in Orders(n) /\ Len(o) = n
    BY <1>1, <2>1, ShufflesAreOrders, OrderIsSeq
  <2>3. PlayableSlots(o, 2, Len(o)) # {} => Min(PlayableSlots(o, 2, Len(o))) \in 1..n
    BY <1>1, <2>2, SlotSearch
  <2>4. WrapSlot(o) \in 1..n
    BY <1>1, <2>3 DEF WrapSlot
  <2> QED BY <2>1, <2>2, <2>4
<1>5. CASE later # {}
  <2>1. t = <<order, Min(later)>>
    BY <1>5 DEF AdvanceTargets
  <2> QED BY <1>1, <1>2, <1>5, <2>1
<1>6. CASE later = {} /\ repeat = "All" /\ AtShuffleWrap(q)
  <2>1. t \in ShuffleWrapTargets /\ shuffle
    BY <1>6 DEF AdvanceTargets, AtShuffleWrap
  <2> QED BY <1>4, <2>1
<1>7. CASE later = {} /\ repeat = "All" /\ ~AtShuffleWrap(q)
  <2>1. any # {} /\ t = <<order, Min(any)>>
    BY <1>7 DEF AdvanceTargets
  <2> QED BY <1>1, <1>3, <2>1
<1>8. later # {} \/ repeat = "All"
  BY DEF AdvanceTargets
<1> QED BY <1>5, <1>6, <1>7, <1>8

(* Every outcome of Next leaves sound indexes.                             *)
LEMMA NextOutcomesSound ==
  ASSUME IndexInv, NEW r \in NextOutcomes
  PROVE  Sound(r)
<1> DEFINE n == Len(tracks)
<1>1. /\ n \in Nat /\ order \in Orders(n) /\ queue \in Seq(1..n) /\ queuedIdx \in 0..n
      /\ (tracks = <<>> <=> n = 0) /\ pos \in Nat /\ pos >= 1 /\ (n > 0 => pos \in 1..n)
      /\ DOMAIN order = 1..n /\ order \in [1..n -> 1..n]
  BY IndexInvFacts DEF Orders
<1>0. n = 0 => pos = 1
  BY <1>1, IndexInvFacts DEF IndexInv, PlayOrderIntegrity
<1>2. <<>> \in Seq(1..n) /\ queue \in Seq(1..n)
  BY <1>1
<1>3. \A ok, i : \A q \in {queue, <<>>} : Sound(Outcome(ok, i, order, pos, q, queuedIdx))
  <2> TAKE ok, i
  <2> TAKE q \in {queue, <<>>}
  <2> DEFINE o == Outcome(ok, i, order, pos, q, queuedIdx)
  <2>1. /\ o.order = order /\ o.pos = pos /\ o.queue = q /\ o.queuedIdx = queuedIdx
    BY DEF Outcome
  <2>2. q \in Seq(1..n)
    BY <1>2
  <2> HIDE DEF o
  <2>3. Sound(o)
    BY <1>0, <1>1, <2>1, <2>2 DEF Sound
  <2> QED BY <2>3 DEF o
<1>4. CASE tracks = <<>>
  BY <1>3, <1>4 DEF NextOutcomes
<1>5. CASE tracks # <<>> /\ PlayableQueued # {}
  <2> DEFINE k == Min(PlayableQueued)
             q == SubSeq(queue, k + 1, Len(queue))
  <2>1. k \in 1..Len(queue) /\ queue[k] \in 1..n
    BY <1>5, QueueSearch DEF PlayableQueued
  <2>2. q \in Seq(1..n)
    BY <1>1, <2>1
  <2>3. r = Outcome(TRUE, queue[k], order, pos, q, queue[k])
    BY <1>5 DEF NextOutcomes
  <2> QED BY <1>0, <1>1, <2>1, <2>2, <2>3 DEF Sound, Outcome
<1>6. CASE tracks # <<>> /\ PlayableQueued = {} /\ repeat = "One"
  <2>1. \A i : Sound(Outcome(TRUE, i, order, pos, <<>>, None))
    BY <1>0, <1>1, <1>2 DEF Sound, Outcome, None
  <2> QED BY <1>3, <1>6, <2>1 DEF NextOutcomes
<1>7. CASE tracks # <<>> /\ PlayableQueued = {} /\ repeat # "One"
  <2>1. CASE AdvanceTargets(<<>>) = {}
    BY <1>3, <1>7, <2>1 DEF NextOutcomes
  <2>2. CASE AdvanceTargets(<<>>) # {}
    <3>1. PICK t \in AdvanceTargets(<<>>) : r = Outcome(TRUE, t[1][t[2]], t[1], t[2], <<>>, None)
      BY <1>7, <2>2 DEF NextOutcomes
    <3>2. t[1] \in Orders(n) /\ t[2] \in 1..n /\ (~shuffle => t[1] = order)
      BY <1>1, <1>7, TargetsSound
    <3> QED BY <1>1, <1>2, <3>1, <3>2 DEF Sound, Outcome, None
  <2> QED BY <2>1, <2>2
<1> QED BY <1>4, <1>5, <1>6, <1>7

(* Every outcome of Prev leaves sound indexes.                             *)
LEMMA PrevOutcomesSound ==
  ASSUME IndexInv, NEW r \in PrevOutcomes
  PROVE  Sound(r)
<1> DEFINE n == Len(tracks)
           before == PlayableSlots(order, 1, pos - 1)
           any    == PlayableSlots(order, 1, Len(order))
<1>1. /\ n \in Nat /\ order \in Orders(n) /\ queue \in Seq(1..n) /\ queuedIdx \in 0..n
      /\ (tracks = <<>> <=> n = 0) /\ pos \in Nat /\ pos >= 1 /\ (n > 0 => pos \in 1..n)
      /\ Len(order) = n
  BY IndexInvFacts
<1>2. tracks # <<>> /\ n > 0
  <2>1. tracks = <<>> => PrevOutcomes = {}
    BY DEF PrevOutcomes
  <2> QED BY <1>1, <2>1
<1>3. before # {} => Max(before) \in 1..n
  BY <1>1, SlotSearch
<1>4. any # {} => Max(any) \in 1..n
  BY <1>1, SlotSearch
<1>5. \A i, s : s \in 1..n => Sound(Outcome(TRUE, i, order, s, queue, None))
  BY <1>1, <1>2 DEF Sound, Outcome, None
<1>6. Sound(Outcome(FALSE, CurrentIndex, order, pos, queue, queuedIdx))
  BY <1>1, <1>2 DEF Sound, Outcome
<1>7. CASE before # {}
  BY <1>2, <1>3, <1>5, <1>7 DEF PrevOutcomes
<1>8. CASE before = {} /\ repeat = "All" /\ any # {}
  BY <1>2, <1>4, <1>5, <1>8 DEF PrevOutcomes
<1>9. CASE before = {} /\ ~(repeat = "All" /\ any # {})
  BY <1>2, <1>6, <1>9 DEF PrevOutcomes
<1> QED BY <1>7, <1>8, <1>9

(* ActivateSelected and SetIndex land on a slot of the order. *)
LEMMA LandingSound ==
  ASSUME IndexInv, NEW i, NEW s, s = pos \/ (s \in 1..Len(tracks) /\ Len(tracks) > 0)
  PROVE  Sound(Outcome(TRUE, i, order, s, queue, None))
<1>1. Len(tracks) = 0 => pos = 1
  BY IndexInvFacts DEF IndexInv, PlayOrderIntegrity
<1> QED BY <1>1, IndexInvFacts DEF Sound, Outcome, None


(* The slot ActivateSelected resolves to. *)
LEMMA SelectedSlotFact ==
  ASSUME IndexInv, SelectedSlot # None
  PROVE  SelectedSlot = pos \/ (SelectedSlot \in 1..Len(tracks) /\ Len(tracks) > 0)
<1> DEFINE later   == PlayableSlots(order, pos + 1, Len(order))
           earlier == PlayableSlots(order, 1, pos - 1)
<1>1. order \in Orders(Len(tracks)) /\ pos \in Nat /\ pos >= 1 /\ Len(order) = Len(tracks)
      /\ Len(tracks) \in Nat
  BY IndexInvFacts
<1>2. later # {} => Min(later) \in 1..Len(tracks) /\ Len(tracks) > 0
  BY <1>1, SlotSearch
<1>3. earlier # {} => Min(earlier) \in 1..Len(tracks) /\ Len(tracks) > 0
  BY <1>1, SlotSearch
<1>4. \/ SelectedSlot = pos
      \/ later # {} /\ SelectedSlot = Min(later)
      \/ earlier # {} /\ SelectedSlot = Min(earlier)
  BY DEF SelectedSlot
<1> QED BY <1>2, <1>3, <1>4

(* SetIndex keeps the indexes sound.                                       *)
LEMMA SetIndexSound ==
  ASSUME IndexInv, NEW i \in DOMAIN tracks, SetIndex(i)
  PROVE  IndexInv'
<1> DEFINE at == {s \in DOMAIN order : order[s] = i}
           s  == IF at = {} THEN pos ELSE Min(at)
<1>1. DOMAIN order = 1..Len(tracks) /\ DOMAIN tracks = 1..Len(tracks) /\ Len(tracks) \in Nat
  BY IndexInvFacts
<1>2. at # {} => Min(at) \in 1..Len(tracks) /\ Len(tracks) > 0
  <2> HAVE at # {}
  <2>1. at \subseteq Nat /\ at \subseteq 1..Len(tracks)
    BY <1>1
  <2> HIDE DEF at
  <2>2. Min(at) \in at
    BY <2>1, MinFact
  <2>3. Min(at) \in 1..Len(tracks)
    BY <2>1, <2>2, Zenon
  <2> QED BY <1>1, <2>3
<1>3. Take(Outcome(TRUE, i, order, s, queue, None))
  BY DEF SetIndex
<1>4. s = pos \/ (s \in 1..Len(tracks) /\ Len(tracks) > 0)
  BY <1>2
<1> HIDE DEF s
<1> QED BY <1>3, <1>4, LandingSound, TakeSound

(* The transport calls: Next, Prev, ActivateSelected and SetIndex. *)
LEMMA TransportSound ==
  ASSUME IndexInv, NextTrack \/ PrevTrack \/ ActivateSelected
  PROVE  IndexInv'
<1>1. CASE NextTrack
  <2>1. PICK r \in NextOutcomes : Take(r)
    BY <1>1 DEF NextTrack
  <2> QED BY <2>1, NextOutcomesSound, TakeSound
<1>2. CASE PrevTrack
  <2>1. PICK r \in PrevOutcomes : Take(r)
    BY <1>2 DEF PrevTrack
  <2> QED BY <2>1, PrevOutcomesSound, TakeSound
<1>3. CASE ActivateSelected
  <2>1. SelectedSlot # None /\ Take(Outcome(TRUE, order[SelectedSlot], order, SelectedSlot, queue, None))
    BY <1>3 DEF ActivateSelected
  <2> QED BY <2>1, SelectedSlotFact, LandingSound, TakeSound
<1> QED BY <1>1, <1>2, <1>3

-----------------------------------------------------------------------------
(* Queue edits *)

(* Any queue of rows of the list is sound.                                 *)
LEMMA SetQueueSound ==
  ASSUME IndexInv, NEW q \in Seq(1..Len(tracks)), SetQueue(q)
  PROVE  IndexInv'
<1>1. revision' \in 0..RevisionModulus - 1
  BY BumpFact DEF SetQueue, IndexInv, TypeOK
<1> QED BY <1>1 DEF SetQueue, modeVars, IndexInv, TypeOK, PlayOrderIntegrity,
                    QueuePositionsExact, TrackOrderUnlessShuffled

(* Queue extends the position map in place and gets the map a rebuild      *)
(* would give: only a row that was not queued gets a new entry.            *)
LEMMA ExtendedPositions ==
  ASSUME IndexInv, NEW i \in DOMAIN tracks
  PROVE  ExtendPositions(i) = FirstPositions(Append(queue, i))
<1> DEFINE a == Append(queue, i)
           m == Len(queue)
           rows == {queue[k] : k \in DOMAIN queue}
           of(j) == {k \in DOMAIN queue : queue[k] = j}
           in(j) == {k \in DOMAIN a : a[k] = j}
<1>1. queue \in Seq(1..Len(tracks)) /\ m \in Nat /\ DOMAIN queue = 1..m
  BY IndexInvFacts
<1>2. DOMAIN a = 1..(m + 1) /\ a[m + 1] = i /\ \A k \in 1..m : a[k] = queue[k]
  BY <1>1, IndexInvFacts
<1>3. queuePositions = [j \in rows |-> Min(of(j))]
  BY DEF IndexInv, QueuePositionsExact, FirstPositions
<1>4. {a[k] : k \in DOMAIN a} = rows \cup {i}
  <2>1. \A k \in DOMAIN a : a[k] \in rows \cup {i}
    <3> TAKE k \in DOMAIN a
    <3>1. k = m + 1 \/ k \in DOMAIN queue
      BY <1>1, <1>2
    <3> HIDE DEF a
    <3> QED BY <1>1, <1>2, <3>1
  <2>2. \A k \in DOMAIN queue : k \in DOMAIN a /\ a[k] = queue[k]
    BY <1>1, <1>2
  <2>3. m + 1 \in DOMAIN a /\ a[m + 1] = i
    BY <1>1, <1>2
  <2> HIDE DEF a, m
  <2> QED BY <2>1, <2>2, <2>3
<1>5. \A j \in rows : Min(in(j)) = Min(of(j))
  <2> TAKE j \in rows
  <2>1. of(j) \subseteq Nat /\ of(j) # {} /\ in(j) \subseteq Nat /\ of(j) \subseteq in(j)
    BY <1>1, <1>2
  <2>2. \A k \in in(j) : k \in of(j) \/ k = m + 1
    BY <1>1, <1>2
  <2>3. \A k \in of(j) : k <= m
    BY <1>1
  <2> DEFINE x == Min(of(j))
             y == Min(in(j))
  <2> HIDE DEF a, of, in
  <2>4. x \in of(j) /\ \A k \in of(j) : x <= k
    BY <2>1, MinFact
  <2>5. y \in in(j) /\ \A k \in in(j) : y <= k
    BY <2>1, MinFact
  <2> HIDE DEF x, y
  <2>6. y <= x /\ x <= m /\ x \in Nat /\ y \in Nat
    BY <2>1, <2>3, <2>4, <2>5
  <2>7. y \in of(j)
    BY <1>1, <2>2, <2>5, <2>6
  <2>8. x <= y
    BY <2>4, <2>7
  <2> QED BY <2>6, <2>8 DEF x, y
<1>6. i \notin rows => Min(in(i)) = m + 1
  <2> HAVE i \notin rows
  <2>1. in(i) = {m + 1}
    BY <1>1, <1>2
  <2> DEFINE S == {m + 1}
  <2>2. S \subseteq Nat /\ S # {}
    BY <1>1
  <2> HIDE DEF S
  <2>3. Min(S) \in S
    BY <2>2, MinFact
  <2> QED BY <2>1, <2>3 DEF S
<1>7. FirstPositions(a) = [j \in rows \cup {i} |-> Min(in(j))]
  BY <1>4 DEF FirstPositions
<1>8. ExtendPositions(i) = [j \in rows \cup {i} |-> IF j \in rows THEN Min(of(j)) ELSE m + 1]
  BY <1>3 DEF ExtendPositions
<1> HIDE DEF a, rows, of, in
<1>9. \A j \in rows \cup {i} : Min(in(j)) = IF j \in rows THEN Min(of(j)) ELSE m + 1
  BY <1>5, <1>6
<1>10. FirstPositions(a) = ExtendPositions(i)
  BY <1>7, <1>8, <1>9
<1> QED BY <1>10 DEF a

(* The edits of the play-next queue keep the indexes sound.                *)
LEMMA QueueSound ==
  ASSUME IndexInv, NEW i \in DOMAIN tracks, Queue(i)
  PROVE  IndexInv'
<1>1. revision' \in 0..RevisionModulus - 1
  BY BumpFact DEF Queue, IndexInv, TypeOK
<1>2. queue' = Append(queue, i) /\ queuePositions' = FirstPositions(Append(queue, i))
  BY ExtendedPositions DEF Queue
<1>3. queue' \in Seq(1..Len(tracks)) /\ queue' \in Seq(Nat)
      /\ \A k \in DOMAIN queue' : queue'[k] \in DOMAIN tracks
  BY <1>2, IndexInvFacts
<1> QED BY <1>1, <1>2, <1>3 DEF Queue, modeVars, IndexInv, TypeOK, PlayOrderIntegrity,
                                QueuePositionsExact, TrackOrderUnlessShuffled

(* The edits of the queue that do not add to it. *)
LEMMA QueueEditsSound ==
  ASSUME IndexInv,
         \/ \E i \in DOMAIN tracks : Dequeue(i)
         \/ \E k \in DOMAIN queue : RemoveQueueAt(k)
         \/ \E k, l \in DOMAIN queue : MoveQueue(k, l)
         \/ ClearQueue
  PROVE  IndexInv'
<1> DEFINE n == Len(tracks)
           m == Len(queue)
<1>1. queue \in Seq(1..n) /\ m \in Nat /\ DOMAIN queue = 1..m /\ n \in Nat
  BY IndexInvFacts
<1>2. \A k \in 1..m : DeleteAt(queue, k) \in Seq(1..n)
  BY <1>1 DEF DeleteAt
<1>3. ASSUME NEW k \in DOMAIN queue, SetQueue(DeleteAt(queue, k))
      PROVE  IndexInv'
  BY <1>1, <1>2, <1>3, SetQueueSound
<1>4. ASSUME NEW i \in DOMAIN tracks, Dequeue(i)
      PROVE  IndexInv'
  <2> DEFINE at == {k \in DOMAIN queue : queue[k] = i}
  <2>1. at # {} /\ SetQueue(DeleteAt(queue, Min(at)))
    BY <1>4 DEF Dequeue
  <2>2. at \subseteq Nat
    BY <1>1
  <2> HIDE DEF at
  <2>3. Min(at) \in at
    BY <2>1, <2>2, MinFact
  <2> QED BY <1>3, <2>1, <2>3 DEF at
<1>5. ASSUME NEW k \in DOMAIN queue, NEW l \in DOMAIN queue, MoveQueue(k, l)
      PROVE  IndexInv'
  <2> DEFINE q == [queue EXCEPT ![k] = queue[l], ![l] = queue[k]]
  <2>1. q \in Seq(1..n)
    BY <1>1
  <2> QED BY <1>5, <2>1, SetQueueSound DEF MoveQueue
<1>6. CASE ClearQueue
  <2>1. <<>> \in Seq(1..n)
    OBVIOUS
  <2> QED BY <1>6, <2>1, SetQueueSound DEF ClearQueue
<1> QED BY <1>3, <1>4, <1>5, <1>6 DEF RemoveQueueAt

-----------------------------------------------------------------------------
(* Row edits *)

(* A function on 1..m is a sequence of length m. *)
LEMMA SeqOfFunction ==
  ASSUME NEW m \in Nat, NEW T, NEW f \in [1..m -> T]
  PROVE  f \in Seq(T) /\ Len(f) = m
OBVIOUS

(* A set of indices has a number of elements. *)
LEMMA IndexSetSize ==
  ASSUME NEW m \in Nat, NEW G \in SUBSET (1..m)
  PROVE  Cardinality(G) \in Nat
<1>1. IsFiniteSet(1..m)
  BY FS_Interval
<1>2. IsFiniteSet(G)
  BY <1>1, FS_Subset
<1> QED BY <1>2, FS_CardinalityType

(* What callers hand over are rows. *)
LEMMA RowListsFact ==
  ASSUME NEW ids, NEW rows \in RowLists(ids)
  PROVE  rows \in Seq(Row)
<1>1. PICK m \in 1..MaxAdd : rows \in [1..m -> Row]
  BY DEF RowLists, NewRows
<1>2. m \in Nat
  BY BoundsAssumption
<1> QED BY <1>1, <1>2

(* Replace keeps the indexes sound.                                        *)
LEMMA ReplaceSound ==
  ASSUME IndexInv, NEW rows \in Seq(Row), Replace(rows)
  PROVE  IndexInv'
<1> DEFINE n == Len(rows)
<1>1. n \in Nat /\ TrackOrder(n) \in Orders(n)
  BY TrackOrderIsOrder
<1>2. order' \in Orders(n) /\ (~shuffle' => order' = TrackOrder(n))
  BY <1>1, ShufflesAreOrders DEF Replace, modeVars
<1>3. revision' \in 0..RevisionModulus - 1
  BY BumpFact DEF Replace, IndexInv, TypeOK
<1>4. tracks' \in Seq(Row) /\ Len(tracks') = n /\ pos' = 1
      /\ queue' = <<>> /\ queuePositions' = FirstPositions(queue') /\ queuedIdx' = 0
  BY DEF Replace, None
<1>5. shuffle' \in BOOLEAN /\ smart' \in BOOLEAN /\ repeat' \in RepeatModes
  BY DEF Replace, modeVars, IndexInv, TypeOK
<1>6. queue' \in Seq(1..n) /\ queuedIdx' \in 0..n /\ (pos' \in 1..n \/ (n = 0 /\ pos' = 1))
  BY <1>1, <1>4
<1> QED BY <1>1, <1>2, <1>3, <1>4, <1>5, <1>6, IndexInvFrom

(* Add and AddSkipping keep the indexes sound.                             *)
LEMMA AppendRowsSound ==
  ASSUME IndexInv, NEW rows \in Seq(Row), rows # <<>>, AppendRows(rows),
         revision' \in 0..RevisionModulus - 1
  PROVE  IndexInv'
<1> DEFINE n == Len(tracks)
           r == Len(rows)
           appended == order \o [k \in 1..r |-> n + k]
<1>1. n \in Nat /\ order \in Orders(n) /\ r \in Nat /\ r > 0
  BY IndexInvFacts
<1>2. /\ appended \in Orders(n + r)
      /\ order = TrackOrder(n) => appended = TrackOrder(n + r)
  BY <1>1, AppendedOrder
<1>3. Shuffles(appended, 1) \subseteq Orders(n + r) /\ TailShuffles(appended, pos) \subseteq Orders(n + r)
  BY <1>1, <1>2, ShufflesAreOrders
<1>4. order' \in Orders(n + r)
  BY <1>2, <1>3 DEF AppendRows
<1>5. ~shuffle' => order' = TrackOrder(n + r)
  BY <1>2 DEF AppendRows, modeVars, IndexInv, TrackOrderUnlessShuffled
<1>6. tracks' \in Seq(Row) /\ Len(tracks') = n + r
  <2>1. tracks \in Seq(Row) /\ tracks' = tracks \o rows
    BY DEF AppendRows, IndexInv, TypeOK
  <2> QED BY <2>1, ConcatProperties
<1>7. pos' \in 1..(n + r)
  BY <1>1, IndexInvFacts DEF AppendRows, IndexInv, PlayOrderIntegrity
<1>8. queue' \in Seq(1..(n + r)) /\ queuedIdx' \in 0..(n + r)
  BY <1>1, IndexInvFacts DEF AppendRows
<1>9. /\ queuePositions' = FirstPositions(queue')
      /\ shuffle' \in BOOLEAN /\ smart' \in BOOLEAN /\ repeat' \in RepeatModes
  BY DEF AppendRows, modeVars, IndexInv, TypeOK, QueuePositionsExact
<1>10. n + r \in Nat
  BY <1>1
<1> QED BY <1>4, <1>5, <1>6, <1>7, <1>8, <1>9, <1>10, IndexInvFrom

(* Add, and AddSmart, which leaves the revision as it is. *)
LEMMA AddSound ==
  ASSUME IndexInv, NEW rows \in Seq(Row), Add(rows) \/ AddSmart(rows)
  PROVE  IndexInv'
<1>1. CASE Add(rows)
  <2>1. revision' \in 0..RevisionModulus - 1
    BY <1>1, BumpFact DEF Add, IndexInv, TypeOK
  <2> QED BY <1>1, <2>1, AppendRowsSound DEF Add
<1>2. CASE AddSmart(rows)
  <2> DEFINE marked == [k \in DOMAIN rows |-> [rows[k] EXCEPT !.smart = TRUE]]
  <2>1. revision' \in 0..RevisionModulus - 1
    BY <1>2 DEF AddSmart, IndexInv, TypeOK
  <2>2. \A row \in Row : [row EXCEPT !.smart = TRUE] \in Row
    BY DEF Row
  <2>3. marked \in [1..Len(rows) -> Row] /\ Len(rows) \in Nat
    BY <2>2
  <2>4. marked \in Seq(Row) /\ Len(marked) = Len(rows)
    BY <2>3, SeqOfFunction
  <2>5. marked # <<>>
    BY <1>2, <2>4 DEF AddSmart
  <2>6. AppendRows(marked)
    BY <1>2 DEF AddSmart
  <2> HIDE DEF marked
  <2> QED BY <2>1, <2>4, <2>5, <2>6, AppendRowsSound
<1> QED BY <1>1, <1>2

(* References to the rows that stay follow them, the others vanish. *)
LEMMA RemoveRowsSound ==
  ASSUME IndexInv, NEW gone \in SUBSET (DOMAIN tracks), RemoveRows(gone),
         shuffle' = shuffle, smart' \in BOOLEAN, repeat' = repeat
  PROVE  IndexInv'
<1> DEFINE n == Len(tracks)
           K == (1..n) \ gone
           c == Cardinality(K)
           kept == InOrder(K)
           S == {s \in 1..n : order[s] \notin gone}
           slots == InOrder(S)
           Q == {k \in DOMAIN queue : queue[k] \notin gone}
           left == InOrder(Q)
<1>1. /\ n \in Nat /\ DOMAIN tracks = 1..n /\ order \in Orders(n) /\ DOMAIN order = 1..n
      /\ queue \in Seq(1..n) /\ queuedIdx \in 0..n /\ pos \in Nat
      /\ DOMAIN queue = 1..Len(queue) /\ Len(queue) \in Nat
  BY IndexInvFacts
<1>2. /\ c \in Nat /\ kept \in [1..c -> K] /\ Len(kept) = c
      /\ \A k \in K : PlaceIn(kept, k) \in 1..c
  BY <1>1, InOrderFact
<1>3. order' \in Orders(c) /\ (order = TrackOrder(n) => order' = TrackOrder(c))
  <2>1. order' = [k \in 1..Len(slots) |-> PlaceIn(kept, order[slots[k]])]
    BY <1>1 DEF RemoveRows
  <2> QED BY <1>1, <2>1, ClosedUpOrder
<1>4. tracks' \in Seq(Row) /\ Len(tracks') = c
  <2>1. tracks' = [k \in 1..c |-> tracks[kept[k]]]
    BY <1>1, <1>2 DEF RemoveRows, Pick
  <2>2. tracks \in [1..n -> Row]
    BY DEF IndexInv, TypeOK
  <2>3. \A k \in 1..c : kept[k] \in 1..n
    BY <1>2
  <2> HIDE DEF kept, c, n
  <2>4. tracks' \in [1..c -> Row]
    BY <2>1, <2>2, <2>3
  <2> QED BY <1>2, <2>4, SeqOfFunction
<1>5. queue' \in Seq(1..c)
  <2>1. queue' = [k \in 1..Len(left) |-> PlaceIn(kept, queue[left[k]])]
    BY <1>1 DEF RemoveRows
  <2>2. Q \in SUBSET (1..Len(queue))
    BY <1>1
  <2>3. Cardinality(Q) \in Nat /\ Len(left) = Cardinality(Q) /\ left \in [1..Len(left) -> Q]
    BY <1>1, <2>2, InOrderFact
  <2>4. \A k \in Q : queue[k] \in K
    BY <1>1
  <2> HIDE DEF Q, left, kept, K
  <2>5. \A k \in 1..Len(left) : PlaceIn(kept, queue[left[k]]) \in 1..c
    BY <1>2, <2>3, <2>4
  <2>6. queue' \in [1..Len(left) -> 1..c] /\ Len(left) \in Nat
    BY <2>1, <2>3, <2>5
  <2> QED BY <2>6, SeqOfFunction
<1>6. queuedIdx' \in 0..c
  <2>1. queuedIdx' = IF queuedIdx \in gone \cup {None} THEN None ELSE PlaceIn(kept, queuedIdx)
    BY <1>1 DEF RemoveRows
  <2>2. queuedIdx \in gone \cup {None} \/ queuedIdx \in K
    BY <1>1 DEF None
  <2> HIDE DEF K, c, kept
  <2>3. queuedIdx' = None \/ queuedIdx' \in 1..c
    BY <1>2, <2>1, <2>2
  <2> QED BY <1>2, <2>3 DEF None
<1>7. pos' \in 1..c \/ (c = 0 /\ pos' = 1)
  <2>1. SlotsBefore(gone) \in SUBSET (1..n)
    BY <1>1 DEF SlotsBefore
  <2>2. Cardinality(SlotsBefore(gone)) \in Nat
    BY <1>1, <2>1, IndexSetSize
  <2>3. pos' = Clamped(pos - Cardinality(SlotsBefore(gone)), c)
    BY <1>1 DEF RemoveRows, PosAfterRemoval
  <2> QED BY <1>1, <1>2, <2>2, <2>3 DEF Clamped
<1>8. revision' \in 0..RevisionModulus - 1
  <2>1. Cardinality(gone) \in Nat
    BY <1>1, IndexSetSize
  <2> QED BY <2>1, BumpFact DEF RemoveRows, IndexInv, TypeOK
<1>9. /\ queuePositions' = FirstPositions(queue')
      /\ shuffle' \in BOOLEAN /\ repeat' \in RepeatModes
      /\ ~shuffle' => order = TrackOrder(n)
  BY DEF RemoveRows, IndexInv, TypeOK, TrackOrderUnlessShuffled
<1> HIDE DEF c
<1> QED BY <1>2, <1>3, <1>4, <1>5, <1>6, <1>7, <1>8, <1>9, IndexInvFrom

(* Remove and DisableSmart. *)
LEMMA RemovalSound ==
  ASSUME IndexInv, DisableSmart \/ \E i \in DOMAIN tracks : Remove(i)
  PROVE  IndexInv'
<1>1. ASSUME NEW i \in DOMAIN tracks, Remove(i)
      PROVE  IndexInv'
  <2>1. {i} \in SUBSET (DOMAIN tracks) /\ RemoveRows({i})
        /\ shuffle' = shuffle /\ smart' \in BOOLEAN /\ repeat' = repeat
    BY <1>1 DEF Remove, modeVars, IndexInv, TypeOK
  <2> QED BY <2>1, RemoveRowsSound
<1>2. CASE DisableSmart
  <2>1. order \in [1..Len(tracks) -> 1..Len(tracks)] /\ DOMAIN tracks = 1..Len(tracks)
        /\ DOMAIN order = 1..Len(tracks)
    BY IndexInvFacts DEF Orders
  <2>2. PendingSmart \in SUBSET (DOMAIN tracks)
    BY <2>1 DEF PendingSmart
  <2>3. RemoveRows(PendingSmart) /\ shuffle' = shuffle /\ smart' \in BOOLEAN /\ repeat' = repeat
    BY <1>2 DEF DisableSmart
  <2> QED BY <2>2, <2>3, RemoveRowsSound
<1> QED BY <1>1, <1>2

(* Move keeps the indexes sound.                                           *)
LEMMA MoveSound ==
  ASSUME IndexInv, NEW f \in DOMAIN tracks, NEW t \in DOMAIN tracks, Move(f, t)
  PROVE  IndexInv'
<1> DEFINE n == Len(tracks)
<1>1. /\ n \in Nat /\ n > 0 /\ order \in Orders(n) /\ f \in 1..n /\ t \in 1..n
      /\ queue \in Seq(1..n) /\ queuedIdx \in 0..n /\ pos \in 1..n
      /\ order \in [1..n -> 1..n]
  <2>1. /\ n \in Nat /\ n > 0 /\ order \in Orders(n) /\ f \in 1..n /\ t \in 1..n
        /\ queue \in Seq(1..n) /\ queuedIdx \in 0..n /\ pos \in 1..n
    BY IndexInvFacts
  <2> QED BY <2>1 DEF Orders
<1>2. tracks' \in Seq(Row) /\ Len(tracks') = n
  <2>1. tracks \in Seq(Row) /\ tracks' = [tracks EXCEPT ![f] = tracks[t], ![t] = tracks[f]]
    BY DEF Move, IndexInv, TypeOK
  <2> QED BY <1>1, <2>1
<1>3. order' \in Orders(n) /\ (~shuffle' => order' = TrackOrder(n))
  BY <1>1, SwappedOrder, TrackOrderIsOrder DEF Move, OrderAfterMove, modeVars
<1>4. \A i \in 1..n : Swapped(i, f, t) \in 1..n
  BY <1>1 DEF Swapped
<1>5. queue' \in Seq(1..n)
  <2>1. queue' = [k \in 1..Len(queue) |-> Swapped(queue[k], f, t)]
    BY <1>1 DEF Move, SwappedIn
  <2>2. Len(queue) \in Nat /\ \A k \in 1..Len(queue) : queue[k] \in 1..n
    BY <1>1
  <2>3. queue' \in [1..Len(queue) -> 1..n]
    BY <1>4, <2>1, <2>2
  <2> QED BY <2>2, <2>3, SeqOfFunction
<1>6. queuedIdx' \in 0..n /\ pos' \in 1..n
  BY <1>1, <1>4 DEF Move, Swapped
<1>7. revision' \in 0..RevisionModulus - 1
  BY BumpFact DEF Move, IndexInv, TypeOK
<1>8. /\ queuePositions' = FirstPositions(queue')
      /\ shuffle' \in BOOLEAN /\ smart' \in BOOLEAN /\ repeat' \in RepeatModes
  BY DEF Move, modeVars, IndexInv, TypeOK
<1> QED BY <1>1, <1>2, <1>3, <1>5, <1>6, <1>7, <1>8, IndexInvFrom

(* An edit of one row leaves every index as it is. *)
LEMMA RowChangeSound ==
  ASSUME IndexInv, tracks' \in Seq(Row), Len(tracks') = Len(tracks),
         revision' \in 0..RevisionModulus - 1, UNCHANGED <<playVars, modeVars>>
  PROVE  IndexInv'
<1>1. DOMAIN tracks' = DOMAIN tracks
  BY DEF IndexInv, TypeOK
<1> QED BY <1>1 DEF playVars, modeVars, IndexInv, TypeOK, PlayOrderIntegrity,
                    QueuePositionsExact, TrackOrderUnlessShuffled

(* Changing the fields of a row keeps the indexes sound.                   *)
LEMMA RowFieldsSound ==
  ASSUME IndexInv, NEW i \in DOMAIN tracks,
         ToggleBookmark(i) \/ \E u \in BOOLEAN : SetTrack(i, [tracks[i] EXCEPT !.unplayable = u])
  PROVE  IndexInv'
<1>1. tracks \in Seq(Row) /\ tracks[i] \in Row
  BY DEF IndexInv, TypeOK
<1>2. revision' \in 0..RevisionModulus - 1
  BY BumpFact DEF ToggleBookmark, SetTrack, IndexInv, TypeOK
<1>3. CASE ToggleBookmark(i)
  <2>1. [tracks[i] EXCEPT !.bookmark = ~@] \in Row
    BY <1>1 DEF Row
  <2>2. tracks' \in Seq(Row) /\ Len(tracks') = Len(tracks)
    BY <1>1, <1>3, <2>1 DEF ToggleBookmark
  <2> QED BY <1>2, <1>3, <2>2, RowChangeSound DEF ToggleBookmark
<1>4. ASSUME NEW u \in BOOLEAN, SetTrack(i, [tracks[i] EXCEPT !.unplayable = u])
      PROVE  IndexInv'
  <2>1. [tracks[i] EXCEPT !.unplayable = u] \in Row
    BY <1>1 DEF Row
  <2>2. tracks' \in Seq(Row) /\ Len(tracks') = Len(tracks)
    BY <1>1, <1>4, <2>1 DEF SetTrack
  <2> QED BY <1>2, <1>4, <2>2, RowChangeSound DEF SetTrack
<1> QED BY <1>3, <1>4

-----------------------------------------------------------------------------
(* Modes *)

(* Shuffle on or off keeps the indexes sound.                              *)
LEMMA FlipShuffleSound ==
  ASSUME IndexInv, FlipShuffle, smart' \in BOOLEAN
  PROVE  IndexInv'
<1> DEFINE n == Len(tracks)
<1>1. /\ n \in Nat /\ order \in Orders(n) /\ tracks' = tracks
      /\ queue \in Seq(1..n) /\ queuedIdx \in 0..n /\ (tracks = <<>> <=> n = 0)
      /\ (n > 0 => pos \in 1..n) /\ (n = 0 => pos = 1) /\ order \in [1..n -> 1..n]
      /\ (order = <<>> <=> n = 0)
  <2>1. /\ n \in Nat /\ order \in Orders(n) /\ queue \in Seq(1..n) /\ queuedIdx \in 0..n
        /\ (tracks = <<>> <=> n = 0) /\ (n > 0 => pos \in 1..n) /\ (order = <<>> <=> n = 0)
    BY IndexInvFacts
  <2>2. n = 0 => pos = 1
    BY <2>1 DEF IndexInv, PlayOrderIntegrity
  <2>3. order \in [1..n -> 1..n]
    BY <2>1 DEF Orders
  <2>4. tracks' = tracks
    BY DEF FlipShuffle
  <2> QED BY <2>1, <2>2, <2>3, <2>4
<1>2. order' \in Orders(n) /\ (~shuffle' => order' = TrackOrder(n))
  <2>1. CASE tracks = <<>>
    <3>1. n = 0 /\ order' = order /\ order = <<>>
      BY <1>1, <2>1 DEF FlipShuffle
    <3>2. TrackOrder(n) = <<>>
      BY <3>1, TrackOrderIsOrder, OrderIsSeq
    <3> QED BY <1>1, <3>1, <3>2
  <2>2. CASE tracks # <<>> /\ shuffle
    BY <1>1, <2>2, TrackOrderIsOrder DEF FlipShuffle
  <2>3. CASE tracks # <<>> /\ ~shuffle
    BY <1>1, <2>3, ShufflesAreOrders DEF FlipShuffle
  <2> QED BY <2>1, <2>2, <2>3
<1>3. pos' \in 1..n \/ (n = 0 /\ pos' = 1)
  BY <1>1 DEF FlipShuffle
<1>4. revision' \in 0..RevisionModulus - 1
  BY BumpFact DEF FlipShuffle, IndexInv, TypeOK
<1>5. /\ tracks' \in Seq(Row) /\ Len(tracks') = n
      /\ queue' \in Seq(1..n) /\ queuedIdx' \in 0..n
      /\ queuePositions' = FirstPositions(queue')
  BY <1>1 DEF FlipShuffle, IndexInv, TypeOK, QueuePositionsExact
<1>6. shuffle' \in BOOLEAN /\ smart' \in BOOLEAN /\ repeat' \in RepeatModes
  BY DEF FlipShuffle, IndexInv, TypeOK
<1> QED BY <1>1, <1>2, <1>3, <1>4, <1>5, <1>6, IndexInvFrom

(* The other modes do not touch the indexes.                               *)
LEMMA ModesSound ==
  ASSUME IndexInv, EnableSmart \/ CycleRepeat \/ \E mode \in RepeatModes : SetRepeat(mode)
  PROVE  IndexInv'
<1>1. ASSUME NEW mode \in RepeatModes, SetRepeat(mode)
      PROVE  IndexInv'
  <2>1. revision' \in 0..RevisionModulus - 1
    BY <1>1, BumpFact DEF SetRepeat, IndexInv, TypeOK
  <2> QED BY <1>1, <2>1 DEF SetRepeat, playVars, IndexInv, TypeOK, PlayOrderIntegrity,
                            QueuePositionsExact, TrackOrderUnlessShuffled
<1>2. CASE CycleRepeat
  <2>1. PICK mode \in RepeatModes : SetRepeat(mode)
    BY <1>2 DEF CycleRepeat, IndexInv, TypeOK, RepeatModes
  <2> QED BY <1>1, <2>1
<1>3. CASE EnableSmart
  BY <1>3 DEF EnableSmart, playVars, IndexInv, TypeOK, PlayOrderIntegrity,
              QueuePositionsExact, TrackOrderUnlessShuffled
<1> QED BY <1>1, <1>2, <1>3

-----------------------------------------------------------------------------
(* The theorems *)

(* The invariant holds at first.                                           *)
LEMMA InitInv == Init => IndexInv
<1> SUFFICES ASSUME Init PROVE IndexInv
  OBVIOUS
<1>1. tracks = <<>> /\ Len(tracks) = 0 /\ DOMAIN tracks = {} /\ DOMAIN queue = {}
  BY DEF Init
<1>2. TypeOK
  <2>1. tracks \in Seq(Row) /\ order \in Seq(Nat) /\ queue \in Seq(Nat)
    BY DEF Init
  <2>2. revision \in 0..RevisionModulus - 1
    BY RevisionAssumption DEF Init
  <2> QED BY <2>1, <2>2 DEF Init, TypeOK, None, RepeatModes
<1>3. TrackOrder(0) \in Orders(0)
  BY TrackOrderIsOrder
<1>4. TrackOrder(0) = <<>>
  BY <1>3, OrderIsSeq
<1>5. order = TrackOrder(Len(tracks)) /\ order \in Orders(Len(tracks))
  BY <1>1, <1>3, <1>4 DEF Init
<1> QED BY <1>1, <1>2, <1>5 DEF Init, IndexInv, PlayOrderIntegrity, QueuePositionsExact,
                                TrackOrderUnlessShuffled, None

(* Every step keeps the invariant.                                         *)
LEMMA NextInv == IndexInv /\ [Next]_vars => IndexInv'
<1> SUFFICES ASSUME IndexInv, [Next]_vars PROVE IndexInv'
  OBVIOUS
<1>1. ASSUME NEW rows \in RowLists(Ids \ Listed), Add(rows) PROVE IndexInv'
  BY <1>1, RowListsFact, AddSound
<1>2. ASSUME NEW i \in DOMAIN tracks, Queue(i) PROVE IndexInv'
  BY <1>2, QueueSound
<1>3. ASSUME \/ \E i \in DOMAIN tracks : Dequeue(i)
             \/ \E k \in DOMAIN queue : RemoveQueueAt(k)
             \/ \E k, l \in DOMAIN queue : MoveQueue(k, l)
             \/ ClearQueue
      PROVE IndexInv'
  BY <1>3, QueueEditsSound
<1>4. ASSUME DisableSmart \/ \E i \in DOMAIN tracks : Remove(i) PROVE IndexInv'
  BY <1>4, RemovalSound
<1>5. ASSUME NEW i \in DOMAIN tracks,
             ToggleBookmark(i) \/ \E u \in BOOLEAN : SetTrack(i, [tracks[i] EXCEPT !.unplayable = u])
      PROVE IndexInv'
  BY <1>5, RowFieldsSound
<1>6. ASSUME NEW i \in DOMAIN tracks, NEW j \in DOMAIN tracks, Move(i, j) PROVE IndexInv'
  BY <1>6, MoveSound
<1>7. CASE ToggleShuffle
  BY <1>7, FlipShuffleSound DEF ToggleShuffle, IndexInv, TypeOK
<1>8. ASSUME EnableSmart \/ CycleRepeat \/ \E mode \in RepeatModes : SetRepeat(mode) PROVE IndexInv'
  BY <1>8, ModesSound
<1>9. ASSUME NEW rows \in RowLists(SmartIds \ Listed), AddSmart(rows) PROVE IndexInv'
  BY <1>9, RowListsFact, AddSound
<1>10. ASSUME NextTrack \/ PrevTrack \/ ActivateSelected PROVE IndexInv'
  BY <1>10, TransportSound
<1>11. ASSUME NEW i \in DOMAIN tracks, SetIndex(i) PROVE IndexInv'
  BY <1>11, SetIndexSound
<1>12. ASSUME NEW rows \in RowLists(Ids), Replace(rows) PROVE IndexInv'
  BY <1>12, RowListsFact, ReplaceSound
<1>13. CASE UNCHANGED vars
  BY <1>13 DEF vars, playVars, modeVars, IndexInv, TypeOK, PlayOrderIntegrity,
               QueuePositionsExact, TrackOrderUnlessShuffled
<1>14. CASE Edit
  BY <1>1, <1>2, <1>3, <1>4, <1>5, <1>6, <1>7, <1>8, <1>14 DEF Edit, FlipBookmark, MarkUnplayable
<1>15. CASE SmartEdit
  BY <1>4, <1>8, <1>9, <1>15 DEF SmartEdit
<1>16. CASE Transport
  BY <1>10, <1>11, <1>12, <1>16 DEF Transport
<1> QED BY <1>13, <1>14, <1>15, <1>16 DEF Next

(* No sequence of calls, however long and on lists of any length, makes an *)
(* index of the playlist point outside the rows, leaves the position map   *)
(* out of step with the queue, or lets the play order differ from the      *)
(* track order while shuffle is off.                                       *)
THEOREM IndexesSound == Spec => []IndexInv
BY InitInv, NextInv, PTL DEF Spec

(* The variables keep their types. *)
THEOREM TypeCorrect == Spec => []TypeOK
<1>1. IndexInv => TypeOK
  BY DEF IndexInv
<1> QED BY <1>1, IndexesSound, PTL

(* order is a permutation of the rows with pos in it, queue and queuedIdx  *)
(* name rows: the slice accesses of playlist.go cannot go out of range.    *)
THEOREM PlayOrderSound == Spec => []PlayOrderIntegrity
<1>1. IndexInv => PlayOrderIntegrity
  BY DEF IndexInv
<1> QED BY <1>1, IndexesSound, PTL

(* The position map that Queue extends in place and every other edit       *)
(* rebuilds is the one a rebuild would give.                               *)
THEOREM QueuePositionsSound == Spec => []QueuePositionsExact
<1>1. IndexInv => QueuePositionsExact
  BY DEF IndexInv
<1> QED BY <1>1, IndexesSound, PTL

(* Outside shuffle mode the rows play in track order. *)
THEOREM TrackOrderSound == Spec => []TrackOrderUnlessShuffled
<1>1. IndexInv => TrackOrderUnlessShuffled
  BY DEF IndexInv
<1> QED BY <1>1, IndexesSound, PTL

-----------------------------------------------------------------------------
(* What the UI asks before Next runs                                       *)

(* The first playable slot of a stretch of an order holds a playable row.  *)
LEMMA FirstPlayable ==
  ASSUME IndexInv, NEW o \in Orders(Len(tracks)), NEW a \in Int, NEW b \in Int,
         a >= 1, PlayableSlots(o, a, b) # {}
  PROVE  Playable(o[Min(PlayableSlots(o, a, b))])
<1> DEFINE S == PlayableSlots(o, a, b)
<1>1. \A s \in S : s \in Nat /\ Playable(o[s])
  BY DEF PlayableSlots
<1> HIDE DEF S
<1>2. S \subseteq Nat /\ S # {}
  BY <1>1 DEF S
<1>3. Min(S) \in S
  BY <1>2, MinFact
<1> QED BY <1>1, <1>3 DEF S

(* The first playable entry of the queue is one.                           *)
LEMMA FirstQueued ==
  ASSUME IndexInv, PlayableQueued # {}
  PROVE  /\ Min(PlayableQueued) \in DOMAIN queue
         /\ Playable(queue[Min(PlayableQueued)])
         /\ queue # <<>>
<1> DEFINE S == PlayableQueued
<1>1. \A k \in S : k \in Nat /\ k \in DOMAIN queue /\ Playable(queue[k])
  BY IndexInvFacts DEF PlayableQueued
<1> HIDE DEF S
<1>2. S \subseteq Nat /\ S # {}
  BY <1>1 DEF S
<1>3. Min(S) \in S
  BY <1>2, MinFact
<1>4. DOMAIN queue # {}
  BY <1>1, <1>3
<1>5. queue # <<>>
  BY <1>4
<1> QED BY <1>1, <1>3, <1>5 DEF S

(* A playable row has a slot in every play order.                          *)
LEMMA PlayableEverywhere ==
  ASSUME IndexInv, NEW o \in Orders(Len(tracks)), NEW i \in 1..Len(tracks), Playable(i)
  PROVE  PlayableSlots(o, 1, Len(o)) # {}
<1>1. Len(tracks) \in Nat /\ DOMAIN o = 1..Len(tracks) /\ Len(o) = Len(tracks)
  BY IndexInvFacts, OrderIsSeq
<1>2. PICK s \in 1..Len(tracks) : o[s] = i
  BY DEF Orders
<1>3. s \in PlayableSlots(o, 1, Len(o))
  BY <1>1, <1>2 DEF PlayableSlots
<1> QED BY <1>3

(* A reshuffle at the end of a pass finds a row to play if there is one,   *)
(* and whatever order it draws, the row it goes to can play.               *)
LEMMA WrapFindsPlayable ==
  ASSUME IndexInv, PlayableSlots(order, 1, Len(order)) # {}
  PROVE  /\ ShuffleWrapTargets # {}
         /\ \A t \in ShuffleWrapTargets : Playable(t[1][t[2]])
<1> DEFINE n == Len(tracks)
<1>1. /\ n \in Nat /\ order \in Orders(n) /\ Len(order) = n
      /\ n > 0 => pos \in 1..n
  BY IndexInvFacts
<1>2. n > 0
  BY <1>1, SlotSearch
<1>3. \A s \in Shuffles(order, pos) : s \in Orders(n)
  BY <1>1, ShufflesAreOrders
<1>4. ASSUME NEW s \in Orders(n), PlayableSlots(s, 1, Len(s)) # {}
      PROVE  Playable(s[WrapSlot(s)])
  <2>1. n \in Nat /\ Len(s) = n /\ DOMAIN s = 1..n
    BY <1>1, <1>4, OrderIsSeq
  <2>2. CASE PlayableSlots(s, 2, Len(s)) # {}
    <3>1. Playable(s[Min(PlayableSlots(s, 2, Len(s)))])
      BY <1>4, <2>1, <2>2, FirstPlayable
    <3> QED BY <2>2, <3>1 DEF WrapSlot
  <2>3. CASE PlayableSlots(s, 2, Len(s)) = {}
    <3>1. PICK k \in 1..n : Playable(s[k])
      BY <1>4, <2>1 DEF PlayableSlots
    <3>2. ~ (k \in 2..n)
      BY <2>1, <2>3, <3>1 DEF PlayableSlots
    <3>3. k = 1
      BY <2>1, <3>1, <3>2
    <3> QED BY <2>3, <3>1, <3>3 DEF WrapSlot
  <2> QED BY <2>2, <2>3
<1>5. ShuffleWrapTargets # {}
  <2>1. order \in [1..n -> 1..n] /\ DOMAIN order = 1..n
    BY <1>1 DEF Orders
  <2>2. order[1] \in 1..n /\ order[pos] \in 1..n
    BY <1>1, <1>2, <2>1
  <2> DEFINE w == SwappedIn(order, order[1], order[pos])
  <2>3. w \in Orders(n)
    BY <1>1, <2>2, SwappedOrder
  <2>4. w[1] = order[pos]
    BY <1>1, <1>2, <2>1 DEF SwappedIn, Swapped
  <2> HIDE DEF w
  <2>5. w \in Shuffles(order, pos)
    BY <1>1, <2>3, <2>4 DEF Shuffles
  <2>6. PICK k \in 1..n : Playable(order[k])
    BY <1>1 DEF PlayableSlots
  <2>7. order[k] \in 1..n
    BY <2>1, <2>6
  <2>8. PlayableSlots(w, 1, Len(w)) # {}
    BY <2>3, <2>6, <2>7, PlayableEverywhere
  <2> QED BY <2>5, <2>8 DEF ShuffleWrapTargets
<1>6. ASSUME NEW t \in ShuffleWrapTargets PROVE Playable(t[1][t[2]])
  <2>1. PICK s \in Shuffles(order, pos) :
          PlayableSlots(s, 1, Len(s)) # {} /\ t = <<s, WrapSlot(s)>>
    BY <1>6 DEF ShuffleWrapTargets
  <2>2. Playable(s[WrapSlot(s)])
    BY <1>3, <1>4, <2>1
  <2> QED BY <2>1, <2>2
<1> QED BY <1>5, <1>6

(* The order has a next row exactly when something behind the position, or *)
(* under repeat all anything at all, can play; what it answers with can    *)
(* play; and only a reshuffle leaves it a choice.                          *)
LEMMA AdvanceFacts ==
  ASSUME IndexInv, NEW q
  PROVE  /\ AdvanceTargets(q) # {} <=>
              \/ PlayableSlots(order, pos + 1, Len(order)) # {}
              \/ repeat = "All" /\ PlayableSlots(order, 1, Len(order)) # {}
         /\ \A t \in AdvanceTargets(q) : Playable(t[1][t[2]])
         /\ ~AtShuffleWrap(q) => \A t, u \in AdvanceTargets(q) : t = u
<1>1. /\ Len(tracks) \in Nat /\ order \in Orders(Len(tracks))
      /\ Len(order) \in Int /\ pos + 1 \in Int /\ pos + 1 >= 1
  BY IndexInvFacts
<1> DEFINE later == PlayableSlots(order, pos + 1, Len(order))
           any   == PlayableSlots(order, 1, Len(order))
<1>2. later # {} => any # {}
  <2> SUFFICES ASSUME NEW s \in later PROVE s \in any
    OBVIOUS
  <2>1. pos \in Nat
    BY IndexInvFacts
  <2> QED BY <1>1, <2>1 DEF PlayableSlots
<1>3. later # {} => Playable(order[Min(later)])
  BY <1>1, FirstPlayable
<1>4. any # {} => Playable(order[Min(any)])
  BY <1>1, FirstPlayable
<1>5. any # {} => /\ ShuffleWrapTargets # {}
                  /\ \A t \in ShuffleWrapTargets : Playable(t[1][t[2]])
  BY WrapFindsPlayable
<1>6. AdvanceTargets(q) =
        IF later # {} THEN {<<order, Min(later)>>}
        ELSE IF repeat # "All" \/ any = {} THEN {}
        ELSE IF AtShuffleWrap(q) THEN ShuffleWrapTargets
        ELSE {<<order, Min(any)>>}
  BY DEF AdvanceTargets
<1> HIDE DEF later, any
<1>7. CASE later # {}
  <2>1. AdvanceTargets(q) = {<<order, Min(later)>>}
    BY <1>6, <1>7
  <2> QED BY <1>3, <1>7, <2>1 DEF later
<1>8. CASE later = {} /\ (repeat # "All" \/ any = {})
  BY <1>6, <1>8 DEF later, any
<1>9. CASE later = {} /\ repeat = "All" /\ any # {} /\ AtShuffleWrap(q)
  <2>1. AdvanceTargets(q) = ShuffleWrapTargets
    BY <1>6, <1>9
  <2> QED BY <1>5, <1>9, <2>1 DEF later, any
<1>10. CASE later = {} /\ repeat = "All" /\ any # {} /\ ~AtShuffleWrap(q)
  <2>1. AdvanceTargets(q) = {<<order, Min(any)>>}
    BY <1>6, <1>10
  <2> QED BY <1>4, <1>10, <2>1 DEF later, any
<1> QED BY <1>7, <1>8, <1>9, <1>10

(* HasNext answers what Next then does, and Next starts a playable row.    *)
LEMMA HasNextTrue ==
  ASSUME IndexInv
  PROVE  HasNextMeansNext
<1> SUFFICES ASSUME NEW r \in NextOutcomes
             PROVE  r.ok = HasNext /\ (r.ok => Playable(r.row))
  BY DEF HasNextMeansNext
<1> DEFINE later == PlayableSlots(order, pos + 1, Len(order)) # {}
           any   == PlayableSlots(order, 1, Len(order)) # {}
<1>1. CASE tracks = <<>>
  <2>1. r.ok = FALSE
    BY <1>1 DEF NextOutcomes, Outcome
  <2>2. HasNext = FALSE
    BY <1>1 DEF HasNext
  <2> QED BY <2>1, <2>2
<1>2. CASE tracks # <<>> /\ PlayableQueued # {}
  <2>1. r.ok = TRUE /\ r.row = queue[Min(PlayableQueued)]
    BY <1>2 DEF NextOutcomes, Outcome
  <2>2. HasNext = TRUE
    BY <1>2 DEF HasNext
  <2>3. Playable(queue[Min(PlayableQueued)])
    BY <1>2, FirstQueued
  <2> QED BY <2>1, <2>2, <2>3
<1>3. CASE tracks # <<>> /\ PlayableQueued = {} /\ repeat = "One"
  <2>1. HasNext <=> Playable(order[pos])
    BY <1>3 DEF HasNext
  <2>2. CASE Playable(order[pos])
    <3>1. r.ok = TRUE /\ r.row = order[pos]
      BY <1>3, <2>2 DEF NextOutcomes, Outcome
    <3> QED BY <2>1, <2>2, <3>1 DEF HasNext
  <2>3. CASE ~Playable(order[pos])
    <3>1. r.ok = FALSE
      BY <1>3, <2>3 DEF NextOutcomes, Outcome
    <3> QED BY <2>1, <2>3, <3>1 DEF HasNext
  <2> QED BY <2>2, <2>3
<1>4. CASE tracks # <<>> /\ PlayableQueued = {} /\ repeat # "One"
  <2>1. HasNext <=> later \/ (repeat = "All" /\ any)
    BY <1>4 DEF HasNext
  <2>2. /\ AdvanceTargets(<<>>) # {} <=> later \/ (repeat = "All" /\ any)
        /\ \A t \in AdvanceTargets(<<>>) : Playable(t[1][t[2]])
    BY AdvanceFacts
  <2> HIDE DEF later, any
  <2>3. CASE AdvanceTargets(<<>>) = {}
    <3>1. r.ok = FALSE
      BY <1>4, <2>3 DEF NextOutcomes, Outcome
    <3> QED BY <2>1, <2>2, <2>3, <3>1 DEF HasNext
  <2>4. CASE AdvanceTargets(<<>>) # {}
    <3>1. PICK t \in AdvanceTargets(<<>>) :
            r = Outcome(TRUE, t[1][t[2]], t[1], t[2], <<>>, None)
      BY <1>4, <2>4 DEF NextOutcomes
    <3>2. r.ok = TRUE /\ r.row = t[1][t[2]]
      BY <3>1 DEF Outcome
    <3> QED BY <2>1, <2>2, <2>4, <3>1, <3>2 DEF HasNext
  <2> QED BY <2>3, <2>4
<1> QED BY <1>1, <1>2, <1>3, <1>4

(* PeekNext names the row Next then plays, and is silent only at a         *)
(* reshuffle and where nothing follows.                                    *)
LEMMA PeekNextTrue ==
  ASSUME IndexInv
  PROVE  PeekNextGuidesPreload
<1> SUFFICES ASSUME queue = <<>> \/ PlayableQueued # {}
             PROVE  IF PeekNext = None
                    THEN HasNext => AtShuffleWrap(queue)
                    ELSE \A r \in NextOutcomes : r.ok /\ r.row = PeekNext
  BY DEF PeekNextGuidesPreload
<1>1. \A i : Playable(i) => i # None
  BY IndexInvFacts DEF Playable, None
<1>2. CASE tracks = <<>>
  BY <1>2 DEF PeekNext, HasNext
<1>3. CASE tracks # <<>> /\ PlayableQueued # {}
  <2>1. PeekNext = queue[Min(PlayableQueued)]
    BY <1>3 DEF PeekNext
  <2>2. PeekNext # None
    BY <1>1, <1>3, <2>1, FirstQueued
  <2>3. \A r \in NextOutcomes : r.ok = TRUE /\ r.row = queue[Min(PlayableQueued)]
    BY <1>3 DEF NextOutcomes, Outcome
  <2> QED BY <2>1, <2>2, <2>3
<1>4. CASE tracks # <<>> /\ PlayableQueued = {} /\ repeat = "One"
  <2>1. CASE Playable(order[pos])
    <3>1. PeekNext = order[pos]
      BY <1>4, <2>1 DEF PeekNext
    <3>2. PeekNext # None
      BY <1>1, <2>1, <3>1
    <3>3. \A r \in NextOutcomes : r.ok = TRUE /\ r.row = order[pos]
      BY <1>4, <2>1 DEF NextOutcomes, Outcome
    <3> QED BY <3>1, <3>2, <3>3
  <2>2. CASE ~Playable(order[pos])
    <3>1. PeekNext = None /\ ~HasNext
      BY <1>4, <2>2 DEF PeekNext, HasNext
    <3> QED BY <3>1
  <2> QED BY <2>1, <2>2
<1>5. CASE tracks # <<>> /\ PlayableQueued = {} /\ repeat # "One"
  <2>1. queue = <<>> /\ PeekNext = PeekInOrder
    BY <1>5 DEF PeekNext
  <2>2. CASE AtShuffleWrap(queue)
    <3>1. PeekNext = None
      BY <2>1, <2>2 DEF PeekInOrder
    <3> QED BY <2>2, <3>1
  <2>3. CASE ~AtShuffleWrap(queue) /\ AdvanceTargets(queue) = {}
    <3>1. PeekNext = None
      BY <2>1, <2>3 DEF PeekInOrder
    <3>2. ~HasNext
      BY <1>5, <2>3, AdvanceFacts DEF HasNext
    <3> QED BY <3>1, <3>2
  <2>4. CASE ~AtShuffleWrap(queue) /\ AdvanceTargets(queue) # {}
    <3> DEFINE t == CHOOSE t \in AdvanceTargets(queue) : TRUE
    <3>1. t \in AdvanceTargets(queue)
      BY <2>4
    <3>2. PeekNext = t[1][t[2]]
      BY <2>1, <2>4 DEF PeekInOrder
    <3> HIDE DEF t
    <3>3. Playable(t[1][t[2]]) /\ \A u \in AdvanceTargets(queue) : u = t
      BY <2>4, <3>1, AdvanceFacts
    <3>4. PeekNext # None
      BY <1>1, <3>2, <3>3
    <3>5. ASSUME NEW r \in NextOutcomes PROVE r.ok = TRUE /\ r.row = t[1][t[2]]
      <4>1. PICK u \in AdvanceTargets(<<>>) :
              r = Outcome(TRUE, u[1][u[2]], u[1], u[2], <<>>, None)
        BY <1>5, <2>1, <2>4, <3>5 DEF NextOutcomes
      <4>2. u = t
        BY <2>1, <3>3, <4>1
      <4> QED BY <4>1, <4>2 DEF Outcome
    <3> QED BY <3>2, <3>4, <3>5
  <2> QED BY <2>2, <2>3, <2>4
<1> QED BY <1>2, <1>3, <1>4, <1>5

(* In every state a sequence of calls can reach, what the UI and the       *)
(* gapless preload are told before Next runs is what Next then does:       *)
(* HasNext, and the row of PeekNext.                                       *)
THEOREM PredictionsSound == Spec => []PredictionsHold
<1>1. IndexInv => PredictionsHold
  BY HasNextTrue, PeekNextTrue DEF PredictionsHold
<1> QED BY <1>1, IndexesSound, PTL

-----------------------------------------------------------------------------
(* The listener's place                                                    *)

(* An increasing list of all of K is the one InOrder gives.                *)
LEMMA InOrderIs ==
  ASSUME NEW N \in Nat, NEW K \in SUBSET (1..N), NEW c \in Nat, NEW g \in [1..c -> K],
         \A i, j \in 1..c : i < j => g[i] < g[j],
         \A k \in K : \E i \in 1..c : g[i] = k
  PROVE  InOrder(K) = g /\ Cardinality(K) = c
<1> DEFINE f == InOrder(K)
<1>1. \A i \in 1..c : g[i] \in K /\ g[i] \in Int
  <2>1. \A k \in K : k \in Int
    OBVIOUS
  <2> HIDE DEF f
  <2> QED BY <2>1
<1>2. \A i, j \in 1..c : g[i] = g[j] => i = j
  BY <1>1
<1>3. Cardinality(K) = c
  <2>1. g \in Bijection(1..c, K)
    BY <1>2 DEF Bijection, Injection, Surjection, IsInjective
  <2>2. IsFiniteSet(1..c) /\ Cardinality(1..c) = c
    BY FS_Interval
  <2> QED BY <2>1, <2>2, FS_Bijection DEF ExistsBijection
<1>4. /\ f \in [1..c -> K]
      /\ \A i, j \in 1..c : i < j => f[i] < f[j]
      /\ \A k \in K : \E i \in 1..c : f[i] = k
  BY <1>3, InOrderFact
<1>5. \A i \in 1..c : f[i] \in K /\ f[i] \in Int
  <2>1. \A k \in K : k \in Int
    OBVIOUS
  <2> HIDE DEF f
  <2> QED BY <1>4, <2>1
<1> HIDE DEF f
<1> DEFINE Differ == {i \in 1..c : f[i] # g[i]}
<1>6. ASSUME Differ # {} PROVE FALSE
  <2>1. PICK m \in Differ : \A k \in Differ : m <= k
    <3>1. Differ \subseteq Nat
      OBVIOUS
    <3> HIDE DEF Differ
    <3> QED BY <1>6, <3>1, LeastExists
  <2>2. m \in 1..c /\ f[m] # g[m] /\ \A i \in 1..c : i < m => f[i] = g[i]
    BY <2>1
  <2>3. PICK i \in 1..c : g[i] = f[m]
    BY <1>4, <2>2
  <2>4. PICK j \in 1..c : f[j] = g[m]
    BY <1>1, <1>4, <2>2
  <2>5. i > m
    <3>1. i # m
      BY <2>2, <2>3
    <3>2. ~ (i < m)
      <4> SUFFICES ASSUME i < m PROVE FALSE
        OBVIOUS
      <4>1. f[i] < f[m]
        BY <1>4, <2>2
      <4> QED BY <1>5, <2>2, <2>3, <4>1
    <3> QED BY <2>2, <3>1, <3>2
  <2>6. j > m
    <3>1. j # m
      BY <2>2, <2>4
    <3>2. ~ (j < m)
      <4> SUFFICES ASSUME j < m PROVE FALSE
        OBVIOUS
      <4>1. g[j] < g[m]
        BY <2>2
      <4> QED BY <1>1, <2>2, <2>4, <4>1
    <3> QED BY <2>2, <3>1, <3>2
  <2>7. g[m] < g[i] /\ f[m] < f[j]
    BY <1>4, <2>2, <2>5, <2>6
  <2> QED BY <1>1, <1>5, <2>2, <2>3, <2>4, <2>7
<1>7. \A i \in 1..c : f[i] = g[i]
  BY <1>6
<1>8. f = g
  BY <1>4, <1>7
<1> QED BY <1>3, <1>8 DEF f

(* All numbers up to m, in order, are each at their own place.             *)
LEMMA InOrderOfAll ==
  ASSUME NEW m \in Nat
  PROVE  InOrder(1..m) = [k \in 1..m |-> k] /\ Cardinality(1..m) = m
<1> DEFINE g == [k \in 1..m |-> k]
<1>1. /\ g \in [1..m -> 1..m] /\ 1..m \in SUBSET (1..m)
      /\ \A i, j \in 1..m : i < j => g[i] < g[j]
      /\ \A k \in 1..m : \E i \in 1..m : g[i] = k
  OBVIOUS
<1> HIDE DEF g
<1>2. InOrder(1..m) = g /\ Cardinality(1..m) = m
  BY <1>1, InOrderIs
<1> QED BY <1>2 DEF g

(* The elements of K up to p are the first ones of K.                      *)
LEMMA InOrderPrefix ==
  ASSUME NEW N \in Nat, NEW K \in SUBSET (1..N), NEW p \in Nat
  PROVE  LET f == InOrder(K)
             d == Cardinality(K \cap (1..p))
         IN  /\ d \in 0..Cardinality(K)
             /\ InOrder(K \cap (1..p)) = [i \in 1..d |-> f[i]]
             /\ \A i \in 1..Cardinality(K) : i <= d <=> f[i] <= p
             /\ p \in K => d >= 1 /\ f[d] = p
<1> DEFINE f == InOrder(K)
           c == Cardinality(K)
           P == K \cap (1..p)
           T == {i \in 1..c : f[i] <= p}
<1>1. /\ c \in Nat /\ f \in [1..c -> K]
      /\ \A i, j \in 1..c : i < j => f[i] < f[j]
      /\ \A k \in K : \E i \in 1..c : f[i] = k
  BY InOrderFact
<1>2. \A k \in K : k \in 1..N
  OBVIOUS
<1> HIDE DEF f, c
<1>3. \A i \in 1..c : f[i] \in K /\ f[i] \in Nat /\ f[i] >= 1
  <2>1. \A i \in 1..c : f[i] \in K
    BY <1>1
  <2>2. \A k \in K : k \in Nat /\ k >= 1
    BY <1>2
  <2> QED BY <2>1, <2>2
<1>4. \E d \in 0..c : T = 1..d
  <2>1. CASE T = {}
    <3>1. 0 \in 0..c /\ 1..0 = {}
      BY <1>1
    <3> QED BY <2>1, <3>1
  <2>2. CASE T # {}
    <3>1. T \subseteq 0..c
      OBVIOUS
    <3>2. PICK d \in T : \A k \in T : k <= d
      <4> HIDE DEF T
      <4> QED BY <1>1, <2>2, <3>1, GreatestExists
    <3>3. d \in 1..c /\ f[d] <= p
      BY <3>2
    <3>4. \A i \in 1..c : i < d => f[i] <= p
      <4> TAKE i \in 1..c
      <4> HAVE i < d
      <4>1. f[i] < f[d]
        BY <1>1, <3>3
      <4> QED BY <1>3, <3>3, <4>1
    <3>5. \A i \in 1..d : i \in T
      BY <1>1, <3>3, <3>4
    <3>6. \A i \in T : i \in 1..d
      BY <3>2, <3>3
    <3> QED BY <1>1, <3>3, <3>5, <3>6
  <2> QED BY <2>1, <2>2
<1>5. PICK d \in 0..c : T = 1..d
  BY <1>4
<1> DEFINE g == [i \in 1..d |-> f[i]]
<1>6. \A i \in 1..c : i <= d <=> f[i] <= p
  BY <1>5
<1>7. g \in [1..d -> P]
  <2>1. \A i \in 1..d : i \in 1..c /\ f[i] \in P
    BY <1>1, <1>3, <1>6
  <2> QED BY <2>1
<1>8. \A i, j \in 1..d : i < j => g[i] < g[j]
  BY <1>1
<1>9. \A k \in P : \E i \in 1..d : g[i] = k
  <2> TAKE k \in P
  <2>1. PICK i \in 1..c : f[i] = k
    BY <1>1
  <2>2. i \in 1..d
    BY <1>1, <1>6, <2>1
  <2> QED BY <2>1, <2>2
<1>10. d \in Nat /\ P \in SUBSET (1..N)
  BY <1>1
<1>11. p \in K => d >= 1 /\ f[d] = p
  <2> HAVE p \in K
  <2>1. p \in P
    BY <1>2
  <2>2. PICK i \in 1..d : f[i] = p
    BY <1>9, <2>1
  <2>3. d \in 1..c /\ f[d] <= p /\ i \in 1..c
    BY <1>1, <1>6, <2>2
  <2>4. i < d => f[i] < f[d]
    BY <1>1, <2>3
  <2> QED BY <1>3, <2>2, <2>3, <2>4
<1> HIDE DEF g, P
<1>12. InOrder(P) = g /\ Cardinality(P) = d
  BY <1>7, <1>8, <1>9, <1>10, InOrderIs
<1> QED BY <1>5, <1>6, <1>11, <1>12 DEF f, c, P, g

(* A list whose elements are all among ids stays as it is.                 *)
LEMMA AmongAll ==
  ASSUME NEW m \in Nat, NEW T, NEW seq \in [1..m -> T], NEW ids,
         \A k \in 1..m : seq[k] \in ids
  PROVE  Among(seq, ids) = seq
<1>1. {k \in DOMAIN seq : seq[k] \in ids} = 1..m
  OBVIOUS
<1> DEFINE g == [k \in 1..m |-> k]
<1>2. g \in [1..m -> 1..m] /\ InOrder(1..m) = g
  BY InOrderOfAll
<1>3. g \in Seq(1..m) /\ Len(g) = m
  BY <1>2, SeqOfFunction
<1>4. Among(seq, ids) = [k \in 1..Len(g) |-> seq[g[k]]]
  BY <1>1, <1>2 DEF Among, Pick
<1>5. \A k \in 1..m : g[k] = k
  OBVIOUS
<1> HIDE DEF g
<1>6. Among(seq, ids) = [k \in 1..m |-> seq[k]]
  BY <1>3, <1>4, <1>5
<1> QED BY <1>6

(* No two rows are the same track: a reference is kept when the track it   *)
(* names is.                                                               *)
RowsDistinct ==
  \A i, j \in DOMAIN tracks : tracks[i].id = tracks[j].id => i = j

(* The rows a list of rows hands over are new and distinct. *)
LEMMA RowListsDistinct ==
  ASSUME NEW ids, NEW rows \in RowLists(ids)
  PROVE  /\ rows \in Seq(Row)
         /\ \A k \in 1..Len(rows) : rows[k].id \in ids
         /\ \A k, l \in 1..Len(rows) : rows[k].id = rows[l].id => k = l
<1>1. PICK m \in 1..MaxAdd :
        /\ rows \in [1..m -> {r \in Row : r.id \in ids}]
        /\ \A i, j \in 1..m : rows[i].id = rows[j].id => i = j
  BY DEF RowLists, NewRows
<1>2. m \in Nat
  BY BoundsAssumption
<1>3. rows \in [1..m -> Row] /\ \A k \in 1..m : rows[k].id \in ids
  BY <1>1
<1>4. rows \in Seq(Row) /\ Len(rows) = m
  BY <1>2, <1>3, SeqOfFunction
<1> QED BY <1>1, <1>3, <1>4

(* Rows that are appended leave the others where they are. *)
LEMMA AppendedRows ==
  ASSUME IndexInv, NEW rows \in Seq(Row), AppendRows(rows)
  PROVE  LET n == Len(tracks)
             r == Len(rows)
         IN  /\ n \in Nat /\ r \in Nat
             /\ tracks' \in Seq(Row) /\ Len(tracks') = n + r /\ DOMAIN tracks' = 1..(n + r)
             /\ \A i \in 1..n : tracks'[i] = tracks[i]
             /\ \A i \in 1..r : tracks'[n + i] = rows[i]
<1>1. Len(tracks) \in Nat /\ tracks \in Seq(Row) /\ Len(rows) \in Nat
  BY IndexInvFacts DEF IndexInv, TypeOK
<1>2. tracks' = tracks \o rows
  BY DEF AppendRows
<1> QED BY <1>1, <1>2, ConcatProperties

(* Appending distinct rows that are not listed keeps the rows distinct. *)
LEMMA AppendKeepsDistinct ==
  ASSUME IndexInv, RowsDistinct, NEW rows \in Seq(Row), AppendRows(rows),
         \A k \in 1..Len(rows) : rows[k].id \notin Listed,
         \A k, l \in 1..Len(rows) : rows[k].id = rows[l].id => k = l
  PROVE  RowsDistinct'
<1> DEFINE n == Len(tracks)
           r == Len(rows)
<1>1. /\ n \in Nat /\ r \in Nat
      /\ DOMAIN tracks' = 1..(n + r)
      /\ \A i \in 1..n : tracks'[i] = tracks[i]
      /\ \A i \in 1..r : tracks'[n + i] = rows[i]
  BY AppendedRows
<1>2. DOMAIN tracks = 1..n
  BY IndexInvFacts
<1>3. \A i \in 1..n : tracks'[i].id \in Listed
  BY <1>1, <1>2 DEF Listed
<1>4. \A i \in (n + 1)..(n + r) : i - n \in 1..r /\ tracks'[i] = rows[i - n]
  <2> TAKE i \in (n + 1)..(n + r)
  <2>1. i - n \in 1..r /\ i = n + (i - n)
    BY <1>1
  <2> QED BY <1>1, <2>1
<1>5. \A i \in (n + 1)..(n + r) : tracks'[i].id \notin Listed
  BY <1>4
<1> SUFFICES ASSUME NEW i \in 1..(n + r), NEW j \in 1..(n + r), tracks'[i].id = tracks'[j].id
             PROVE  i = j
  BY <1>1 DEF RowsDistinct
<1>6. CASE i \in 1..n /\ j \in 1..n
  BY <1>1, <1>2, <1>6 DEF RowsDistinct
<1>7. CASE i \in (n + 1)..(n + r) /\ j \in (n + 1)..(n + r)
  <2>1. i - n = j - n
    BY <1>4, <1>7
  <2> QED BY <1>1, <2>1
<1>8. \A x \in 1..(n + r) : x \in 1..n \/ x \in (n + 1)..(n + r)
  BY <1>1
<1> QED BY <1>3, <1>5, <1>6, <1>7, <1>8

(* What a removal leaves: the rows, the order and the queue close up, each *)
(* element names the row it named.                                         *)
LEMMA RemovalLeaves ==
  ASSUME IndexInv, NEW gone \in SUBSET (DOMAIN tracks), RemoveRows(gone)
  PROVE  LET n == Len(tracks)
             K == (1..n) \ gone
             c == Cardinality(K)
             kept == InOrder(K)
             S == {s \in 1..n : order[s] \notin gone}
             slots == InOrder(S)
             Q == {k \in 1..Len(queue) : queue[k] \notin gone}
             left == InOrder(Q)
         IN  /\ n \in Nat /\ c \in Nat
             /\ kept \in [1..c -> K]
             /\ \A i, j \in 1..c : kept[i] = kept[j] => i = j
             /\ DOMAIN tracks' = 1..c /\ \A k \in 1..c : tracks'[k] = tracks[kept[k]]
             /\ \A i \in K : PlaceIn(kept, i) \in 1..c /\ tracks'[PlaceIn(kept, i)] = tracks[i]
             /\ Cardinality(S) = c /\ slots \in [1..c -> S] /\ DOMAIN order' = 1..c
             /\ \A s \in 1..c : order'[s] \in 1..c /\ tracks'[order'[s]] = tracks[order[slots[s]]]
             /\ Len(left) \in Nat /\ left \in [1..Len(left) -> Q] /\ DOMAIN queue' = 1..Len(left)
             /\ \A k \in 1..Len(left) : tracks'[queue'[k]] = tracks[queue[left[k]]]
<1> DEFINE n == Len(tracks)
           K == (1..n) \ gone
           c == Cardinality(K)
           kept == InOrder(K)
           S == {s \in 1..n : order[s] \notin gone}
           slots == InOrder(S)
           Q == {k \in 1..Len(queue) : queue[k] \notin gone}
           left == InOrder(Q)
<1>1. /\ n \in Nat /\ DOMAIN tracks = 1..n /\ order \in Orders(n) /\ DOMAIN order = 1..n
      /\ queue \in Seq(1..n) /\ DOMAIN queue = 1..Len(queue) /\ Len(queue) \in Nat
  BY IndexInvFacts
<1>2. /\ c \in Nat /\ kept \in [1..c -> K] /\ Len(kept) = c
      /\ \A i, j \in 1..c : kept[i] = kept[j] => i = j
      /\ \A k \in K : PlaceIn(kept, k) \in 1..c /\ kept[PlaceIn(kept, k)] = k
  BY <1>1, InOrderFact
<1>3. Cardinality(S) = c
  BY <1>1, SlotsMatchRows
<1>4. Len(slots) = c /\ slots \in [1..c -> S]
  <2>1. S \in SUBSET (1..n)
    OBVIOUS
  <2> QED BY <1>1, <1>3, <2>1, InOrderFact
<1>5. Len(left) \in Nat /\ left \in [1..Len(left) -> Q]
  <2>1. Q \in SUBSET (1..Len(queue))
    OBVIOUS
  <2> QED BY <1>1, <2>1, InOrderFact
<1>6. \A s \in S : order[s] \in K
  BY <1>1 DEF Orders
<1>7. \A k \in Q : queue[k] \in K
  BY <1>1
<1>8. tracks' = [k \in 1..c |-> tracks[kept[k]]]
  BY <1>1, <1>2 DEF RemoveRows, Pick
<1>9. order' = [k \in 1..c |-> PlaceIn(kept, order[slots[k]])]
  BY <1>1, <1>4 DEF RemoveRows
<1>10. queue' = [k \in 1..Len(left) |-> PlaceIn(kept, queue[left[k]])]
  BY <1>1 DEF RemoveRows
<1> HIDE DEF n, K, c, kept, S, slots, Q, left
<1>11. \A i \in K : PlaceIn(kept, i) \in 1..c /\ tracks'[PlaceIn(kept, i)] = tracks[i]
  BY <1>2, <1>8
<1>12. DOMAIN tracks' = 1..c /\ \A k \in 1..c : tracks'[k] = tracks[kept[k]]
  BY <1>8
<1>13. DOMAIN order' = 1..c
       /\ \A s \in 1..c : order'[s] \in 1..c /\ tracks'[order'[s]] = tracks[order[slots[s]]]
  BY <1>4, <1>6, <1>9, <1>11
<1>14. DOMAIN queue' = 1..Len(left)
       /\ \A k \in 1..Len(left) : tracks'[queue'[k]] = tracks[queue[left[k]]]
  BY <1>5, <1>7, <1>10, <1>11
<1> QED BY <1>1, <1>2, <1>3, <1>4, <1>5, <1>11, <1>12, <1>13, <1>14
        DEF n, K, c, kept, S, slots, Q, left

(* A removal keeps the rows distinct, and a track that was listed is gone  *)
(* from the list exactly when its row is gone.                             *)
LEMMA RemovalKeepsDistinct ==
  ASSUME IndexInv, RowsDistinct, NEW gone \in SUBSET (DOMAIN tracks), RemoveRows(gone)
  PROVE  /\ RowsDistinct'
         /\ \A i \in DOMAIN tracks : tracks[i].id \in Listed' <=> i \notin gone
<1> DEFINE n == Len(tracks)
           K == (1..n) \ gone
           c == Cardinality(K)
           kept == InOrder(K)
<1>1. /\ n \in Nat /\ c \in Nat
      /\ kept \in [1..c -> K]
      /\ \A i, j \in 1..c : kept[i] = kept[j] => i = j
      /\ DOMAIN tracks' = 1..c /\ \A k \in 1..c : tracks'[k] = tracks[kept[k]]
      /\ \A i \in K : PlaceIn(kept, i) \in 1..c /\ tracks'[PlaceIn(kept, i)] = tracks[i]
  BY RemovalLeaves
<1>2. DOMAIN tracks = 1..n
  BY IndexInvFacts
<1>3. \A i \in K : i \in DOMAIN tracks /\ i \notin gone
  BY <1>2
<1>4. \A i \in DOMAIN tracks : i \in K \/ i \in gone
  BY <1>2
<1>5. Listed' = {tracks'[k].id : k \in DOMAIN tracks'}
  BY DEF Listed
<1> HIDE DEF n, K, c, kept
<1>6. RowsDistinct'
  BY <1>1, <1>3 DEF RowsDistinct
<1>7. ASSUME NEW i \in DOMAIN tracks, i \notin gone PROVE tracks[i].id \in Listed'
  BY <1>1, <1>4, <1>5, <1>7
<1>8. ASSUME NEW i \in DOMAIN tracks, tracks[i].id \in Listed' PROVE i \notin gone
  <2>1. PICK k \in 1..c : tracks[kept[k]].id = tracks[i].id
    BY <1>1, <1>5, <1>8
  <2>2. kept[k] = i
    BY <1>1, <1>3, <2>1 DEF RowsDistinct
  <2> QED BY <1>1, <1>3, <2>2
<1> QED BY <1>6, <1>7, <1>8

(* The play-next queue keeps the rows that stay, in their order. *)
LEMMA RemovalKeepsQueue ==
  ASSUME IndexInv, RowsDistinct, NEW gone \in SUBSET (DOMAIN tracks), RemoveRows(gone)
  PROVE  IdsOf(queue)' = Among(IdsOf(queue), Listed')
<1> DEFINE Q == {k \in 1..Len(queue) : queue[k] \notin gone}
           left == InOrder(Q)
           ids == IdsOf(queue)
<1>1. /\ Len(left) \in Nat /\ left \in [1..Len(left) -> Q] /\ DOMAIN queue' = 1..Len(left)
      /\ \A k \in 1..Len(left) : tracks'[queue'[k]] = tracks[queue[left[k]]]
  BY RemovalLeaves
<1>2. DOMAIN queue = 1..Len(queue) /\ \A k \in 1..Len(queue) : queue[k] \in DOMAIN tracks
  BY IndexInvFacts
<1>3. DOMAIN ids = 1..Len(queue) /\ \A k \in 1..Len(queue) : ids[k] = tracks[queue[k]].id
  BY <1>2 DEF IdsOf
<1>4. \A i \in DOMAIN tracks : tracks[i].id \in Listed' <=> i \notin gone
  BY RemovalKeepsDistinct
<1> HIDE DEF ids
<1>5. {k \in DOMAIN ids : ids[k] \in Listed'} = Q
  BY <1>2, <1>3, <1>4
<1>6. \A k \in Q : k \in 1..Len(queue)
  OBVIOUS
<1> HIDE DEF Q, left
<1>7. Among(ids, Listed') = [k \in 1..Len(left) |-> ids[left[k]]]
  BY <1>5 DEF Among, Pick, left
<1>8. \A k \in 1..Len(left) : ids[left[k]] = tracks'[queue'[k]].id
  BY <1>1, <1>3, <1>6
<1>9. IdsOf(queue)' = [k \in 1..Len(left) |-> tracks'[queue'[k]].id]
  BY <1>1 DEF IdsOf
<1> QED BY <1>7, <1>8, <1>9 DEF ids

(* The slots that stay, up to the position, are the first of the new order. *)
LEMMA RemovalKeepsPlayed ==
  ASSUME IndexInv, RowsDistinct, tracks # <<>>,
         NEW gone \in SUBSET (DOMAIN tracks), RemoveRows(gone)
  PROVE  LET played == Among(IdsOf(SubSeq(order, 1, pos)), Listed')
         IN  played = SubSeq(IdsOf(order)', 1, Len(played))
<1> DEFINE n == Len(tracks)
           c == Cardinality((1..n) \ gone)
           S == {s \in 1..n : order[s] \notin gone}
           slots == InOrder(S)
           P == S \cap (1..pos)
           d == Cardinality(P)
           sub == IdsOf(SubSeq(order, 1, pos))
           new == IdsOf(order)'
           played == Among(sub, Listed')
<1>1. /\ n \in Nat /\ c \in Nat /\ Cardinality(S) = c /\ slots \in [1..c -> S] /\ DOMAIN order' = 1..c
      /\ \A s \in 1..c : order'[s] \in 1..c /\ tracks'[order'[s]] = tracks[order[slots[s]]]
      /\ DOMAIN tracks' = 1..c
  BY RemovalLeaves
<1>2. /\ DOMAIN tracks = 1..n /\ order \in Seq(Nat) /\ Len(order) = n /\ pos \in 1..n
      /\ \A s \in 1..n : order[s] \in 1..n
  <2>1. DOMAIN tracks = 1..n /\ order \in Orders(n) /\ pos \in 1..n /\ n \in Nat /\ Len(order) = n
    BY IndexInvFacts
  <2>2. order \in Seq(Nat)
    BY DEF IndexInv, TypeOK
  <2>3. \A s \in 1..n : order[s] \in 1..n
    BY <2>1 DEF Orders
  <2> QED BY <2>1, <2>2, <2>3
<1>3. SubSeq(order, 1, pos) = [k \in 1..pos |-> order[k]]
  BY <1>1, <1>2
<1>4. sub = [k \in 1..pos |-> tracks[order[k]].id]
  BY <1>3 DEF IdsOf
<1>5. \A i \in DOMAIN tracks : tracks[i].id \in Listed' <=> i \notin gone
  BY RemovalKeepsDistinct
<1>6. {k \in DOMAIN sub : sub[k] \in Listed'} = P
  <2>1. \A k \in 1..pos : k \in 1..n /\ (sub[k] \in Listed' <=> order[k] \notin gone)
    <3> HIDE DEF sub
    <3> QED BY <1>1, <1>2, <1>4, <1>5
  <2>2. DOMAIN sub = 1..pos
    BY <1>4
  <2> HIDE DEF sub
  <2> QED BY <2>1, <2>2
<1>7. d \in 0..c /\ InOrder(P) = [i \in 1..d |-> slots[i]] /\ \A i \in 1..c : i <= d <=> slots[i] <= pos
  <2>1. S \in SUBSET (1..n) /\ pos \in Nat /\ Cardinality(S) = c
    BY <1>1, <1>2
  <2> HIDE DEF S
  <2> QED BY <1>1, <2>1, InOrderPrefix
<1>8. \A i \in 1..d : slots[i] \in 1..pos
  <2>1. \A i \in 1..d : i \in 1..c /\ slots[i] <= pos
    <3> HIDE DEF S, slots, P, d, c
    <3> QED BY <1>1, <1>7
  <2>2. \A s \in S : s \in Nat /\ s >= 1
    OBVIOUS
  <2> HIDE DEF S, slots, P, d
  <2>3. \A i \in 1..d : slots[i] \in Nat /\ slots[i] >= 1
    BY <1>1, <2>1, <2>2
  <2> QED BY <1>2, <2>1, <2>3
<1>9. d \in Nat /\ new = [s \in 1..c |-> tracks'[order'[s]].id]
  BY <1>1, <1>7 DEF IdsOf
<1> HIDE DEF S, P, slots, d, sub, new, c, n
<1>10. InOrder(P) \in [1..d -> 1..pos]
  BY <1>7, <1>8
<1>11. Len(InOrder(P)) = d
  BY <1>9, <1>10, SeqOfFunction
<1>12. played = [k \in 1..d |-> sub[slots[k]]]
  BY <1>6, <1>7, <1>11 DEF Among, Pick
<1>13. \A k \in 1..d : sub[slots[k]] = new[k]
  <2> TAKE k \in 1..d
  <2>1. k \in 1..c
    BY <1>1, <1>7
  <2>2. new[k] = tracks[order[slots[k]]].id
    BY <1>1, <1>9, <2>1
  <2> QED BY <1>4, <1>8, <2>2
<1>14. played = [k \in 1..d |-> new[k]]
  BY <1>12, <1>13
<1>15. Len(played) = d
  <2> DEFINE T == {new[k] : k \in 1..d}
  <2>1. played \in [1..d -> T]
    BY <1>14
  <2> HIDE DEF T
  <2> QED BY <1>9, <2>1, SeqOfFunction
<1>16. SubSeq(new, 1, d) = [k \in 1..d |-> new[k]]
  <2> DEFINE T == {new[k] : k \in 1..c}
  <2>1. new \in [1..c -> T]
    BY <1>9
  <2> HIDE DEF T
  <2>2. new \in Seq(T) /\ Len(new) = c
    BY <1>1, <2>1, SeqOfFunction
  <2> QED BY <1>1, <1>7, <1>9, <2>2
<1> QED BY <1>14, <1>15, <1>16 DEF new, sub

(* The row at the position stays at the position. *)
LEMMA RemovalKeepsPosition ==
  ASSUME IndexInv, tracks # <<>>, NEW gone \in SUBSET (DOMAIN tracks), RemoveRows(gone),
         order[pos] \notin gone
  PROVE  LET S == {s \in 1..Len(tracks) : order[s] \notin gone}
         IN  /\ pos' = Cardinality(S \cap (1..pos))
             /\ pos' \in 1..Cardinality(S) /\ InOrder(S)[pos'] = pos
<1> DEFINE n == Len(tracks)
           K == (1..n) \ gone
           S == {s \in 1..n : order[s] \notin gone}
           d == Cardinality(S \cap (1..pos))
           before == SlotsBefore(gone)
<1>1. n \in Nat /\ pos \in 1..n /\ DOMAIN tracks = 1..n /\ DOMAIN order = 1..n
  BY IndexInvFacts
<1>2. Cardinality(S) = Cardinality(K) /\ Cardinality(K) \in Nat
  <2>1. K \in SUBSET (1..n) /\ order \in Orders(n)
    BY IndexInvFacts
  <2> QED BY <1>1, <2>1, SlotsMatchRows, IndexSetSize
<1>3. pos \in S
  BY <1>1
<1>4. d \in 0..Cardinality(S) /\ d >= 1 /\ InOrder(S)[d] = pos
  <2>1. S \in SUBSET (1..n) /\ pos \in Nat
    BY <1>1
  <2> HIDE DEF S
  <2> QED BY <1>1, <1>3, <2>1, InOrderPrefix
<1>5. Cardinality(before) = pos - d
  <2>1. before = (1..pos) \ S
    BY <1>1, <1>3 DEF SlotsBefore
  <2>2. (1..pos) \cap S = S \cap (1..pos)
    OBVIOUS
  <2>3. IsFiniteSet(1..pos) /\ Cardinality(1..pos) = pos
    BY <1>1, FS_Interval
  <2>4. Cardinality((1..pos) \ S) = Cardinality(1..pos) - Cardinality((1..pos) \cap S)
    BY <2>3, FS_Difference
  <2> QED BY <2>1, <2>2, <2>3, <2>4
<1>6. pos' = Clamped(pos - Cardinality(before), Cardinality(K))
  BY <1>1 DEF RemoveRows, PosAfterRemoval
<1> HIDE DEF S, K, d, before
<1>7. pos - Cardinality(before) = d
  BY <1>1, <1>4, <1>5
<1>8. pos' = d /\ d \in 1..Cardinality(S)
  BY <1>2, <1>4, <1>6, <1>7 DEF Clamped
<1> QED BY <1>4, <1>8 DEF d, S

(* The active row stays the active one unless it is removed. *)
LEMMA RemovalKeepsActive ==
  ASSUME IndexInv, RowsDistinct, tracks # <<>>,
         NEW gone \in SUBSET (DOMAIN tracks), RemoveRows(gone), CurrentId \in Listed'
  PROVE  CurrentId' = CurrentId
<1> DEFINE n == Len(tracks)
           K == (1..n) \ gone
           c == Cardinality(K)
           kept == InOrder(K)
           S == {s \in 1..n : order[s] \notin gone}
           slots == InOrder(S)
<1>1. /\ n \in Nat /\ c \in Nat
      /\ \A i \in K : PlaceIn(kept, i) \in 1..c /\ tracks'[PlaceIn(kept, i)] = tracks[i]
      /\ Cardinality(S) = c /\ DOMAIN order' = 1..c
      /\ \A s \in 1..c : order'[s] \in 1..c /\ tracks'[order'[s]] = tracks[order[slots[s]]]
  BY RemovalLeaves
<1>2. /\ DOMAIN tracks = 1..n /\ DOMAIN order = 1..n /\ pos \in 1..n
      /\ order # <<>> /\ queuedIdx \in 0..n
      /\ order[pos] \in 1..n
  BY IndexInvFacts DEF Orders
<1>3. \A i \in DOMAIN tracks : tracks[i].id \in Listed' <=> i \notin gone
  BY RemovalKeepsDistinct
<1>4. queuedIdx' = IF queuedIdx \in gone \cup {None} THEN None ELSE PlaceIn(kept, queuedIdx)
  BY <1>2 DEF RemoveRows
<1>5. CASE queuedIdx # None
  <2>1. CurrentIndex = queuedIdx /\ queuedIdx \in 1..n
    BY <1>2, <1>5 DEF CurrentIndex, None
  <2>2. CurrentId = tracks[queuedIdx].id
    BY <2>1, <1>5 DEF CurrentId
  <2>3. queuedIdx \in K
    BY <1>2, <1>3, <2>1, <2>2
  <2>4. queuedIdx' = PlaceIn(kept, queuedIdx)
    BY <1>4, <1>5, <2>3
  <2> HIDE DEF K, kept, c
  <2>5. queuedIdx' \in 1..c /\ tracks'[queuedIdx'] = tracks[queuedIdx]
    BY <1>1, <2>3, <2>4
  <2>6. queuedIdx' # None /\ order' # <<>>
    BY <1>1, <2>5 DEF None
  <2> QED BY <2>2, <2>5, <2>6 DEF CurrentId, CurrentIndex
<1>6. CASE queuedIdx = None
  <2>1. CurrentIndex = order[pos] /\ order[pos] # None
    BY <1>2, <1>6 DEF CurrentIndex, None
  <2>2. CurrentId = tracks[order[pos]].id
    BY <2>1 DEF CurrentId
  <2>3. order[pos] \notin gone
    BY <1>2, <1>3, <2>2
  <2>4. pos' \in 1..Cardinality(S) /\ slots[pos'] = pos
    BY <2>3, RemovalKeepsPosition
  <2> HIDE DEF K, kept, c, S, slots
  <2>5. pos' \in 1..c /\ tracks'[order'[pos']] = tracks[order[pos]] /\ order'[pos'] \in 1..c
    BY <1>1, <2>4
  <2>6. queuedIdx' = None /\ order' # <<>> /\ order'[pos'] # None
    BY <1>1, <1>4, <1>6, <2>5 DEF None
  <2> QED BY <2>2, <2>5, <2>6 DEF CurrentId, CurrentIndex
<1> QED BY <1>5, <1>6

(* A queue whose tracks stay listed stays as it is. *)
LEMMA QueueKept ==
  ASSUME IndexInv, NEW ids, \A i \in DOMAIN tracks : tracks[i].id \in ids
  PROVE  Among(IdsOf(queue), ids) = IdsOf(queue)
<1> DEFINE m == Len(queue)
           q == IdsOf(queue)
           T == {q[k] : k \in 1..m}
<1>1. m \in Nat /\ DOMAIN queue = 1..m /\ \A k \in 1..m : queue[k] \in DOMAIN tracks
  BY IndexInvFacts
<1>2. q = [k \in 1..m |-> tracks[queue[k]].id]
  BY <1>1 DEF IdsOf
<1> HIDE DEF q
<1>3. q \in [1..m -> T]
  BY <1>2
<1>4. \A k \in 1..m : q[k] \in ids
  BY <1>1, <1>2
<1> HIDE DEF m, T
<1>5. Among(q, ids) = q
  BY <1>1, <1>3, <1>4, AmongAll
<1> QED BY <1>5 DEF q

(* Nothing that has played is lost while all tracks stay listed. *)
LEMMA PlayedKept ==
  ASSUME IndexInv, tracks # <<>>, NEW ids, \A i \in DOMAIN tracks : tracks[i].id \in ids,
         NEW m \in Nat, m >= pos, DOMAIN order' = 1..m,
         \A k \in 1..pos : IdsOf(order)'[k] = IdsOf(order)[k]
  PROVE  LET played == Among(IdsOf(SubSeq(order, 1, pos)), ids)
         IN  played = SubSeq(IdsOf(order)', 1, Len(played))
<1> DEFINE n == Len(tracks)
           sub == IdsOf(SubSeq(order, 1, pos))
           new == IdsOf(order)'
           T == {sub[k] : k \in 1..pos}
           U == {new[k] : k \in 1..m}
<1>1. /\ n \in Nat /\ DOMAIN tracks = 1..n /\ order \in Seq(Nat) /\ Len(order) = n /\ pos \in 1..n
      /\ DOMAIN order = 1..n /\ \A s \in 1..n : order[s] \in 1..n
  <2>1. /\ DOMAIN tracks = 1..n /\ order \in Orders(n) /\ pos \in 1..n /\ n \in Nat /\ Len(order) = n
        /\ DOMAIN order = 1..n
    BY IndexInvFacts
  <2>2. order \in Seq(Nat)
    BY DEF IndexInv, TypeOK
  <2>3. \A s \in 1..n : order[s] \in 1..n
    BY <2>1 DEF Orders
  <2> QED BY <2>1, <2>2, <2>3
<1>2. SubSeq(order, 1, pos) = [k \in 1..pos |-> order[k]]
  BY <1>1
<1>3. sub = [k \in 1..pos |-> tracks[order[k]].id]
  BY <1>2 DEF IdsOf
<1>4. \A k \in 1..pos : IdsOf(order)[k] = tracks[order[k]].id
  BY <1>1 DEF IdsOf
<1>5. DOMAIN new = 1..m /\ new = [k \in 1..m |-> new[k]]
  BY DEF IdsOf
<1>6. \A k \in 1..pos : new[k] = sub[k] /\ sub[k] \in ids
  <2> HIDE DEF sub
  <2> QED BY <1>1, <1>3, <1>4
<1> HIDE DEF sub, new, n
<1>7. sub \in [1..pos -> T]
  BY <1>3
<1>8. new \in [1..m -> U]
  BY <1>5
<1> HIDE DEF T, U
<1>9. pos \in Nat /\ sub \in Seq(T) /\ Len(sub) = pos
  BY <1>1, <1>7, SeqOfFunction
<1>10. new \in Seq(U) /\ Len(new) = m
  BY <1>8, SeqOfFunction
<1>11. Among(sub, ids) = sub
  <2>1. pos \in Nat /\ \A k \in 1..pos : sub[k] \in ids
    BY <1>6, <1>9
  <2> QED BY <1>7, <2>1, AmongAll
<1>12. SubSeq(new, 1, pos) = [k \in 1..pos |-> new[k]]
  <2>1. pos \in 1..m /\ pos \in Nat
    BY <1>1
  <2>2. Len(new) = m /\ new \in Seq(U)
    BY <1>10
  <2> QED BY <2>1, <2>2
<1>13. sub = [k \in 1..pos |-> new[k]]
  BY <1>3, <1>6
<1> QED BY <1>9, <1>11, <1>12, <1>13 DEF sub, new

(* Appended rows disturb neither what played nor what plays nor the queue. *)
LEMMA AppendKeepsPlace ==
  ASSUME IndexInv, NEW rows \in Seq(Row), AppendRows(rows)
  PROVE  /\ \A i \in DOMAIN tracks : tracks[i].id \in Listed'
         /\ IdsOf(queue)' = Among(IdsOf(queue), Listed')
         /\ tracks # <<>> =>
              /\ \A k \in 1..pos : k \in DOMAIN order' /\ IdsOf(order)'[k] = IdsOf(order)[k]
              /\ CurrentId' = CurrentId
              /\ \E m \in Nat : m >= pos /\ DOMAIN order' = 1..m
<1> DEFINE n == Len(tracks)
           r == Len(rows)
           tail == [k \in 1..r |-> n + k]
           appended == order \o tail
<1>1. /\ n \in Nat /\ r \in Nat /\ DOMAIN tracks' = 1..(n + r)
      /\ \A i \in 1..n : tracks'[i] = tracks[i]
  BY AppendedRows
<1>2. /\ DOMAIN tracks = 1..n /\ order \in Orders(n) /\ Len(order) = n /\ DOMAIN order = 1..n
      /\ order = <<>> <=> n = 0
      /\ tracks = <<>> <=> n = 0
      /\ n > 0 => pos \in 1..n
      /\ queue \in Seq(1..n) /\ queuedIdx \in 0..n
      /\ DOMAIN queue = 1..Len(queue) /\ Len(queue) \in Nat
  BY IndexInvFacts
<1>3. \A s \in 1..n : order[s] \in 1..n
  BY <1>2 DEF Orders
<1>4. \A i \in DOMAIN tracks : tracks[i].id \in Listed'
  <2>1. Listed' = {tracks'[i].id : i \in 1..(n + r)}
    BY <1>1 DEF Listed
  <2>2. \A i \in 1..n : i \in 1..(n + r)
    BY <1>1
  <2> QED BY <1>1, <1>2, <2>1, <2>2
<1>5. queue' = queue /\ queuedIdx' = queuedIdx
  BY DEF AppendRows
<1>6. IdsOf(queue)' = IdsOf(queue)
  <2>1. \A k \in DOMAIN queue : queue[k] \in 1..n
    BY <1>2
  <2>2. IdsOf(queue)' = [k \in DOMAIN queue |-> tracks'[queue[k]].id]
    BY <1>5 DEF IdsOf
  <2> QED BY <1>1, <2>1, <2>2 DEF IdsOf
<1>7. Among(IdsOf(queue), Listed') = IdsOf(queue)
  BY <1>4, QueueKept
<1>8. ASSUME tracks # <<>>
      PROVE  /\ \A k \in 1..pos : k \in DOMAIN order' /\ IdsOf(order)'[k] = IdsOf(order)[k]
             /\ CurrentId' = CurrentId
             /\ \E m \in Nat : m >= pos /\ DOMAIN order' = 1..m
  <2>1. n > 0 /\ pos \in 1..n /\ pos' = pos
    BY <1>1, <1>2, <1>8 DEF AppendRows
  <2>a. order' = appended \/ order' \in TailShuffles(appended, pos)
    <3>1. n # 0
      BY <1>1, <2>1
    <3> HIDE DEF n
    <3>2. order' \in IF ~shuffle THEN {appended} ELSE TailShuffles(appended, pos)
      BY <3>1 DEF AppendRows, n
    <3> HIDE DEF appended
    <3> QED BY <3>2
  <2>2. order' \in Orders(n + r) /\ DOMAIN order' = 1..(n + r)
    <3>1. appended \in Orders(n + r) /\ n + r \in Nat
      BY <1>1, <1>2, AppendedOrder
    <3>2. order' \in Orders(n + r)
      BY <2>a, <3>1, ShufflesAreOrders
    <3> QED BY <3>1, <3>2, OrderIsSeq
  <2>3. \A k \in 1..pos : order'[k] = order[k]
    <3>1. \A k \in 1..n : appended[k] = order[k]
      <4>1. order \in Seq(Nat) /\ tail \in Seq(Nat)
        BY <1>1 DEF IndexInv, TypeOK
      <4> HIDE DEF tail
      <4> QED BY <1>1, <1>2, <4>1, ConcatProperties
    <3> HIDE DEF appended
    <3>2. \A k \in 1..pos : k \in 1..n /\ order'[k] = appended[k]
      BY <1>1, <2>1, <2>a DEF TailShuffles
    <3> QED BY <3>1, <3>2
  <2>4. \A k \in 1..pos : k \in 1..n /\ k \in 1..(n + r)
    BY <1>1, <2>1
  <2>5. \A k \in 1..pos : k \in DOMAIN order' /\ IdsOf(order)'[k] = IdsOf(order)[k]
    <3> TAKE k \in 1..pos
    <3>1. IdsOf(order)'[k] = tracks'[order'[k]].id
      BY <2>2, <2>4 DEF IdsOf
    <3>2. IdsOf(order)[k] = tracks[order[k]].id
      BY <1>2, <2>4 DEF IdsOf
    <3> QED BY <1>1, <1>3, <2>2, <2>3, <2>4, <3>1, <3>2
  <2>6. CurrentId' = CurrentId
    <3>1. CurrentIndex' = CurrentIndex /\ CurrentIndex \in 1..n
      <4>1. order' # <<>> /\ order # <<>>
        BY <1>1, <1>2, <2>1, <2>2
      <4>2. order'[pos'] = order[pos] /\ order[pos] \in 1..n
        BY <1>3, <2>1, <2>3
      <4> QED BY <1>2, <1>5, <4>1, <4>2 DEF CurrentIndex, None
    <3>2. CurrentIndex # None
      BY <3>1 DEF None
    <3> QED BY <1>1, <3>1, <3>2 DEF CurrentId
  <2>7. n + r \in Nat /\ n + r >= pos
    BY <1>1, <2>1
  <2> QED BY <2>2, <2>5, <2>6, <2>7
<1> QED BY <1>4, <1>6, <1>7, <1>8

(* A move takes every reference with its row. *)
LEMMA MoveKeepsPlace ==
  ASSUME IndexInv, NEW f \in DOMAIN tracks, NEW t \in DOMAIN tracks, Move(f, t)
  PROVE  /\ \A i \in DOMAIN tracks : tracks[i].id \in Listed'
         /\ IdsOf(queue)' = Among(IdsOf(queue), Listed')
         /\ CurrentId' = CurrentId
         /\ shuffle => IdsOf(order)' = IdsOf(order) /\ DOMAIN order' = DOMAIN order
<1> DEFINE n == Len(tracks)
<1>1. /\ n \in Nat /\ n > 0 /\ DOMAIN tracks = 1..n /\ order \in Orders(n) /\ DOMAIN order = 1..n
      /\ order # <<>> /\ pos \in 1..n /\ queuedIdx \in 0..n
      /\ queue \in Seq(1..n) /\ DOMAIN queue = 1..Len(queue) /\ Len(queue) \in Nat
  <2>1. DOMAIN tracks = 1..n /\ n \in Nat
    BY IndexInvFacts
  <2>2. n > 0
    BY <2>1
  <2> QED BY <2>1, <2>2, IndexInvFacts
<1>2. \A s \in 1..n : order[s] \in 1..n
  BY <1>1 DEF Orders
<1>3. tracks' = [tracks EXCEPT ![f] = tracks[t], ![t] = tracks[f]] /\ DOMAIN tracks' = 1..n
  BY <1>1 DEF Move
<1>4. \A i \in 1..n : Swapped(i, f, t) \in 1..n /\ tracks'[Swapped(i, f, t)] = tracks[i]
  BY <1>1, <1>3 DEF Swapped
<1>5. \A i \in DOMAIN tracks : tracks[i].id \in Listed'
  BY <1>1, <1>3, <1>4 DEF Listed
<1>6. IdsOf(queue)' = IdsOf(queue)
  <2>1. queue' = [k \in 1..Len(queue) |-> Swapped(queue[k], f, t)]
    BY <1>1 DEF Move, SwappedIn
  <2>2. \A k \in 1..Len(queue) : queue[k] \in 1..n
    BY <1>1
  <2>3. \A k \in 1..Len(queue) : tracks'[queue'[k]] = tracks[queue[k]]
    BY <1>4, <2>1, <2>2
  <2>4. IdsOf(queue)' = [k \in 1..Len(queue) |-> tracks'[queue'[k]].id]
    BY <2>1 DEF IdsOf
  <2> QED BY <1>1, <2>3, <2>4 DEF IdsOf
<1>7. Among(IdsOf(queue), Listed') = IdsOf(queue)
  BY <1>5, QueueKept
<1>8. ASSUME shuffle
      PROVE  /\ DOMAIN order' = 1..n
             /\ \A k \in 1..n : order'[k] = Swapped(order[k], f, t)
             /\ pos' = pos
  BY <1>1, <1>8 DEF Move, OrderAfterMove, SwappedIn
<1>9. shuffle => IdsOf(order)' = IdsOf(order) /\ DOMAIN order' = DOMAIN order
  <2> HAVE shuffle
  <2>1. IdsOf(order)' = [k \in 1..n |-> tracks'[order'[k]].id]
    BY <1>8 DEF IdsOf
  <2>2. \A k \in 1..n : tracks'[order'[k]] = tracks[order[k]]
    BY <1>2, <1>4, <1>8
  <2> QED BY <1>1, <1>8, <2>1, <2>2 DEF IdsOf
<1>10. CurrentId' = CurrentId
  <2>1. order' # <<>>
    <3>1. order' \in Orders(n)
      BY <1>1, SwappedOrder, TrackOrderIsOrder DEF Move, OrderAfterMove
    <3> QED BY <1>1, <3>1, OrderIsSeq
  <2>2. queuedIdx' = Swapped(queuedIdx, f, t)
    BY DEF Move
  <2>3. CurrentIndex \in 1..n
    BY <1>1, <1>2 DEF CurrentIndex, None
  <2>4. CurrentIndex' = Swapped(CurrentIndex, f, t)
    <3>1. CASE queuedIdx # None
      <4>1. queuedIdx \in 1..n /\ CurrentIndex = queuedIdx
        BY <1>1, <3>1 DEF CurrentIndex, None
      <4>2. queuedIdx' \in 1..n
        BY <1>4, <2>2, <4>1
      <4> QED BY <2>1, <2>2, <4>1, <4>2 DEF CurrentIndex, None
    <3>2. CASE queuedIdx = None
      <4>1. queuedIdx' = None /\ CurrentIndex = order[pos]
        BY <1>1, <2>2, <3>2 DEF Swapped, CurrentIndex, None
      <4>2. order'[pos'] = Swapped(order[pos], f, t)
        <5>1. CASE shuffle
          BY <1>1, <1>8, <5>1
        <5>2. CASE ~shuffle
          <6>1. order' = TrackOrder(n) /\ pos' = Swapped(order[pos], f, t)
            BY <5>2 DEF Move, OrderAfterMove
          <6>2. pos' \in 1..n
            BY <1>1, <1>2, <1>4, <6>1
          <6> QED BY <6>1, <6>2 DEF TrackOrder
        <5> QED BY <5>1, <5>2
      <4> QED BY <2>1, <4>1, <4>2 DEF CurrentIndex
    <3> QED BY <3>1, <3>2
  <2>5. CurrentIndex # None /\ CurrentIndex' # None
    BY <1>4, <2>3, <2>4 DEF None
  <2> QED BY <1>4, <2>3, <2>4, <2>5 DEF CurrentId
<1> QED BY <1>5, <1>6, <1>7, <1>9, <1>10

(* Add, Remove and Move leave the listener in place. *)
LEMMA RowEditInPlace ==
  ASSUME IndexInv, IndexInv', RowsDistinct
  PROVE  RowEditKeepsPlace
<1> SUFFICES ASSUME RowEdit
             PROVE  /\ tracks # <<>> /\ CurrentId \in Listed' => CurrentId' = CurrentId
                    /\ IdsOf(queue)' = Among(IdsOf(queue), Listed')
                    /\ shuffle /\ tracks # <<>> =>
                         LET played == Among(IdsOf(SubSeq(order, 1, pos)), Listed')
                         IN played = SubSeq(IdsOf(order)', 1, Len(played))
  BY DEF RowEditKeepsPlace
<1>1. CASE Add(SubSeq(tracks', Len(tracks) + 1, Len(tracks')))
  <2> DEFINE rows == SubSeq(tracks', Len(tracks) + 1, Len(tracks'))
  <2>1. rows \in Seq(Row)
    <3>1. tracks \in Seq(Row) /\ tracks' \in Seq(Row)
      BY DEF IndexInv, TypeOK
    <3>2. Len(tracks) \in Nat /\ Len(tracks') \in Nat
      BY <3>1
    <3> QED BY <3>1, <3>2, SubSeqProperties
  <2>2. AppendRows(rows)
    BY <1>1 DEF Add
  <2> HIDE DEF rows
  <2>3. /\ \A i \in DOMAIN tracks : tracks[i].id \in Listed'
        /\ IdsOf(queue)' = Among(IdsOf(queue), Listed')
        /\ tracks # <<>> =>
             /\ \A k \in 1..pos : k \in DOMAIN order' /\ IdsOf(order)'[k] = IdsOf(order)[k]
             /\ CurrentId' = CurrentId
             /\ \E m \in Nat : m >= pos /\ DOMAIN order' = 1..m
    BY <2>1, <2>2, AppendKeepsPlace
  <2> QED BY <2>3, PlayedKept
<1>2. ASSUME NEW i \in DOMAIN tracks, Remove(i)
      PROVE  /\ tracks # <<>> /\ CurrentId \in Listed' => CurrentId' = CurrentId
             /\ IdsOf(queue)' = Among(IdsOf(queue), Listed')
             /\ shuffle /\ tracks # <<>> =>
                  LET played == Among(IdsOf(SubSeq(order, 1, pos)), Listed')
                  IN played = SubSeq(IdsOf(order)', 1, Len(played))
  <2>1. {i} \in SUBSET (DOMAIN tracks) /\ RemoveRows({i})
    BY <1>2 DEF Remove
  <2> QED BY <2>1, RemovalKeepsQueue, RemovalKeepsPlayed, RemovalKeepsActive
<1>3. ASSUME NEW i \in DOMAIN tracks, NEW j \in DOMAIN tracks, Move(i, j)
      PROVE  /\ tracks # <<>> /\ CurrentId \in Listed' => CurrentId' = CurrentId
             /\ IdsOf(queue)' = Among(IdsOf(queue), Listed')
             /\ shuffle /\ tracks # <<>> =>
                  LET played == Among(IdsOf(SubSeq(order, 1, pos)), Listed')
                  IN played = SubSeq(IdsOf(order)', 1, Len(played))
  <2>1. /\ \A k \in DOMAIN tracks : tracks[k].id \in Listed'
        /\ IdsOf(queue)' = Among(IdsOf(queue), Listed')
        /\ CurrentId' = CurrentId
        /\ shuffle => IdsOf(order)' = IdsOf(order) /\ DOMAIN order' = DOMAIN order
    BY <1>3, MoveKeepsPlace
  <2>2. tracks # <<>> => Len(tracks) \in Nat /\ Len(tracks) >= pos /\ DOMAIN order = 1..Len(tracks)
    BY IndexInvFacts
  <2> QED BY <2>1, <2>2, PlayedKept
<1> QED BY <1>1, <1>2, <1>3 DEF RowEdit

(* DisableSmart takes rows behind the position only. *)
LEMMA DisableSmartInPlace ==
  ASSUME IndexInv, RowsDistinct, DisableSmart
  PROVE  /\ IdsOf(queue)' = Among(IdsOf(queue), Listed')
         /\ tracks # <<>> =>
              /\ \A k \in 1..pos : k \in DOMAIN order' /\ IdsOf(order)'[k] = IdsOf(order)[k]
              /\ CurrentId \in Listed' => CurrentId' = CurrentId
         /\ \A s \in DOMAIN order' : s > pos' => ~tracks'[order'[s]].smart
<1> DEFINE n == Len(tracks)
           gone == PendingSmart
           S == {s \in 1..n : order[s] \notin gone}
           c == Cardinality((1..n) \ gone)
           slots == InOrder(S)
<1>1. /\ n \in Nat /\ DOMAIN tracks = 1..n /\ DOMAIN order = 1..n /\ order \in [1..n -> 1..n]
      /\ (n > 0 => pos \in 1..n) /\ (tracks = <<>> <=> n = 0)
      /\ \A i, j \in 1..n : order[i] = order[j] => i = j
  BY IndexInvFacts DEF Orders
<1>2. gone \in SUBSET (DOMAIN tracks) /\ RemoveRows(gone)
  <2>1. \A k \in DOMAIN order : order[k] \in DOMAIN tracks
    BY <1>1
  <2>2. gone \in SUBSET (DOMAIN tracks)
    BY <2>1 DEF PendingSmart
  <2>3. RemoveRows(gone)
    BY DEF DisableSmart
  <2> QED BY <2>2, <2>3
<1>3. \A s \in 1..n : order[s] \in gone <=> s > pos /\ tracks[order[s]].smart
  BY <1>1 DEF PendingSmart
<1>4. /\ c \in Nat /\ Cardinality(S) = c /\ slots \in [1..c -> S] /\ DOMAIN order' = 1..c
      /\ \A s \in 1..c : order'[s] \in 1..c /\ tracks'[order'[s]] = tracks[order[slots[s]]]
  BY <1>2, RemovalLeaves
<1>5. ASSUME n > 0
      PROVE  /\ pos \in 1..c /\ pos' = pos
             /\ \A k \in 1..pos : slots[k] = k
             /\ \A k \in 1..c : k <= pos <=> slots[k] <= pos
  <2>1. pos \in 1..n /\ pos \in Nat
    BY <1>1, <1>5
  <2>2. \A s \in 1..pos : s \in 1..n /\ order[s] \notin gone
    <3> HIDE DEF gone
    <3> QED BY <1>1, <1>3, <2>1
  <2>3. S \cap (1..pos) = 1..pos
    BY <2>2
  <2>4. pos' = Cardinality(S \cap (1..pos)) /\ pos' \in 1..Cardinality(S)
    <3>1. order[pos] \notin gone /\ tracks # <<>>
      BY <1>1, <1>5, <2>1, <2>2
    <3> HIDE DEF gone
    <3> QED BY <1>2, <3>1, RemovalKeepsPosition
  <2>5. InOrder(1..pos) = [k \in 1..pos |-> k] /\ Cardinality(1..pos) = pos
    BY <2>1, InOrderOfAll
  <2>6. Cardinality(S \cap (1..pos)) = pos
    BY <2>3, <2>5
  <2>7. /\ InOrder(S \cap (1..pos)) = [k \in 1..pos |-> slots[k]]
        /\ \A k \in 1..c : k <= pos <=> slots[k] <= pos
    <3> DEFINE d == Cardinality(S \cap (1..pos))
    <3>1. S \in SUBSET (1..n) /\ n \in Nat /\ pos \in Nat
      BY <1>1, <2>1
    <3> HIDE DEF S, n, gone, c
    <3>2. /\ InOrder(S \cap (1..pos)) = [k \in 1..d |-> slots[k]]
          /\ \A k \in 1..Cardinality(S) : k <= d <=> slots[k] <= pos
      BY <3>1, InOrderPrefix
    <3> HIDE DEF slots
    <3> QED BY <1>4, <2>6, <3>2
  <2> HIDE DEF S, slots, c, gone
  <2>8. [k \in 1..pos |-> k] = [k \in 1..pos |-> slots[k]]
    BY <2>3, <2>5, <2>7
  <2>9. \A k \in 1..pos : [x \in 1..pos |-> x][k] = [x \in 1..pos |-> slots[x]][k]
    BY <2>8, Zenon
  <2>10. \A k \in 1..pos : slots[k] = k
    BY <2>9
  <2>11. pos \in 1..c /\ pos' = pos
    BY <1>4, <2>4, <2>6
  <2> QED BY <2>7, <2>10, <2>11
<1> HIDE DEF gone
<1>6. IdsOf(queue)' = Among(IdsOf(queue), Listed')
  BY <1>2, RemovalKeepsQueue
<1>7. tracks # <<>> =>
        /\ \A k \in 1..pos : k \in DOMAIN order' /\ IdsOf(order)'[k] = IdsOf(order)[k]
        /\ CurrentId \in Listed' => CurrentId' = CurrentId
  <2> SUFFICES ASSUME tracks # <<>>
               PROVE  /\ \A k \in 1..pos : k \in DOMAIN order' /\ IdsOf(order)'[k] = IdsOf(order)[k]
                      /\ CurrentId \in Listed' => CurrentId' = CurrentId
    OBVIOUS
  <2>1. n > 0
    BY <1>1
  <2> HIDE DEF c, S, slots
  <2>2. \A k \in 1..pos : k \in 1..c /\ k \in 1..n /\ slots[k] = k
    BY <1>1, <1>4, <1>5, <2>1
  <2>3. \A k \in 1..pos : k \in DOMAIN order' /\ IdsOf(order)'[k] = IdsOf(order)[k]
    <3> TAKE k \in 1..pos
    <3>1. IdsOf(order)'[k] = tracks'[order'[k]].id
      BY <1>4, <2>2 DEF IdsOf
    <3>2. IdsOf(order)[k] = tracks[order[k]].id
      BY <1>1, <2>2 DEF IdsOf
    <3> QED BY <1>4, <2>2, <3>1, <3>2
  <2>4. CurrentId \in Listed' => CurrentId' = CurrentId
    BY <1>2, RemovalKeepsActive
  <2> QED BY <2>3, <2>4
<1>8. \A s \in DOMAIN order' : s > pos' => ~tracks'[order'[s]].smart
  <2> SUFFICES ASSUME NEW s \in 1..c, s > pos' PROVE ~tracks'[order'[s]].smart
    BY <1>4
  <2>1. slots[s] \in 1..n /\ order[slots[s]] \notin gone
    BY <1>4
  <2> HIDE DEF c, S, slots
  <2>2. n > 0
    BY <1>1, <2>1
  <2>3. slots[s] > pos
    BY <1>1, <1>5, <2>1, <2>2
  <2> QED BY <1>3, <1>4, <2>1, <2>3
<1> QED BY <1>6, <1>7, <1>8

(* EnableSmart, AddSmart and DisableSmart leave the listener in place. *)
LEMMA SmartEditInPlace ==
  ASSUME IndexInv, RowsDistinct
  PROVE  SmartEditKeepsPlace
<1> DEFINE Kept == /\ tracks # <<>> =>
                        /\ \A k \in 1..pos : k \in DOMAIN order' /\ IdsOf(order)'[k] = IdsOf(order)[k]
                        /\ CurrentId \in Listed' => CurrentId' = CurrentId
                   /\ IdsOf(queue)' = Among(IdsOf(queue), Listed')
<1>1. DisableSmart => Kept /\ \A s \in DOMAIN order' : s > pos' => ~tracks'[order'[s]].smart
  BY DisableSmartInPlace
<1>2. ASSUME NEW rows \in RowLists(SmartIds \ Listed), AddSmart(rows) PROVE Kept
  <2> DEFINE marked == [k \in DOMAIN rows |-> [rows[k] EXCEPT !.smart = TRUE]]
  <2>1. rows \in Seq(Row)
    BY RowListsFact
  <2>2. \A row \in Row : [row EXCEPT !.smart = TRUE] \in Row
    BY DEF Row
  <2>3. marked \in [1..Len(rows) -> Row] /\ Len(rows) \in Nat
    BY <2>1, <2>2
  <2>4. marked \in Seq(Row)
    BY <2>3, SeqOfFunction
  <2>5. AppendRows(marked)
    BY <1>2 DEF AddSmart
  <2> HIDE DEF marked
  <2> QED BY <2>4, <2>5, AppendKeepsPlace
<1>3. ASSUME EnableSmart PROVE Kept
  <2>1. tracks' = tracks /\ order' = order /\ pos' = pos /\ queue' = queue /\ queuedIdx' = queuedIdx
    BY <1>3 DEF EnableSmart, playVars
  <2>2. /\ IdsOf(order)' = IdsOf(order) /\ IdsOf(queue)' = IdsOf(queue)
        /\ Listed' = Listed /\ CurrentId' = CurrentId
    BY <2>1 DEF IdsOf, Listed, CurrentId, CurrentIndex
  <2>3. Among(IdsOf(queue), Listed) = IdsOf(queue)
    <3>1. \A i \in DOMAIN tracks : tracks[i].id \in Listed
      BY DEF Listed
    <3> QED BY <3>1, QueueKept
  <2>4. tracks # <<>> => \A k \in 1..pos : k \in DOMAIN order'
    BY <2>1, IndexInvFacts
  <2> QED BY <2>2, <2>3, <2>4
<1> QED BY <1>1, <1>2, <1>3 DEF SmartRowEdit, SmartEditKeepsPlace

(* Every step keeps the rows distinct: what is added is not listed yet.    *)
LEMMA NextDistinct ==
  ASSUME IndexInv, RowsDistinct, [Next]_vars
  PROVE  RowsDistinct'
<1>0. tracks \in Seq(Row) /\ DOMAIN tracks = 1..Len(tracks)
  BY IndexInvFacts DEF IndexInv, TypeOK
<1>1. ASSUME tracks' = tracks PROVE RowsDistinct'
  BY <1>1 DEF RowsDistinct
<1>2. ASSUME NEW rows \in RowLists(Ids \ Listed), Add(rows) PROVE RowsDistinct'
  <2>1. AppendRows(rows)
    BY <1>2 DEF Add
  <2>2. /\ rows \in Seq(Row)
        /\ \A k \in 1..Len(rows) : rows[k].id \in Ids \ Listed
        /\ \A k, l \in 1..Len(rows) : rows[k].id = rows[l].id => k = l
    BY RowListsDistinct
  <2>3. \A k \in 1..Len(rows) : rows[k].id \notin Listed
    BY <2>2
  <2> QED BY <2>1, <2>2, <2>3, AppendKeepsDistinct
<1>3. ASSUME NEW rows \in RowLists(SmartIds \ Listed), AddSmart(rows) PROVE RowsDistinct'
  <2> DEFINE marked == [k \in DOMAIN rows |-> [rows[k] EXCEPT !.smart = TRUE]]
  <2>1. /\ rows \in Seq(Row)
        /\ \A k \in 1..Len(rows) : rows[k].id \in SmartIds \ Listed
        /\ \A k, l \in 1..Len(rows) : rows[k].id = rows[l].id => k = l
    BY RowListsDistinct
  <2>2. \A row \in Row : [row EXCEPT !.smart = TRUE] \in Row /\ [row EXCEPT !.smart = TRUE].id = row.id
    BY DEF Row
  <2>3. /\ marked \in [1..Len(rows) -> Row] /\ Len(rows) \in Nat
        /\ \A k \in 1..Len(rows) : marked[k].id = rows[k].id
    BY <2>1, <2>2
  <2>4. AppendRows(marked)
    BY <1>3 DEF AddSmart
  <2> HIDE DEF marked
  <2>5. marked \in Seq(Row) /\ Len(marked) = Len(rows)
    BY <2>3, SeqOfFunction
  <2>6. /\ \A k \in 1..Len(marked) : marked[k].id \notin Listed
        /\ \A k, l \in 1..Len(marked) : marked[k].id = marked[l].id => k = l
    BY <2>1, <2>3, <2>5
  <2> QED BY <2>4, <2>5, <2>6, AppendKeepsDistinct
<1>4. ASSUME NEW i \in DOMAIN tracks, Remove(i) PROVE RowsDistinct'
  <2>1. {i} \in SUBSET (DOMAIN tracks) /\ RemoveRows({i})
    BY <1>4 DEF Remove
  <2> QED BY <2>1, RemovalKeepsDistinct
<1>5. CASE DisableSmart
  <2>1. \A s \in DOMAIN order : order[s] \in DOMAIN tracks
    BY IndexInvFacts DEF Orders
  <2>2. PendingSmart \in SUBSET (DOMAIN tracks) /\ RemoveRows(PendingSmart)
    BY <1>5, <2>1 DEF DisableSmart, PendingSmart
  <2> QED BY <2>2, RemovalKeepsDistinct
<1>6. ASSUME NEW i \in DOMAIN tracks, NEW j \in DOMAIN tracks, Move(i, j) PROVE RowsDistinct'
  <2>1. tracks' = [tracks EXCEPT ![i] = tracks[j], ![j] = tracks[i]]
    BY <1>6 DEF Move
  <2>2. /\ DOMAIN tracks' = DOMAIN tracks
        /\ \A k \in DOMAIN tracks : Swapped(k, i, j) \in DOMAIN tracks /\ tracks'[k] = tracks[Swapped(k, i, j)]
    BY <2>1 DEF Swapped
  <2>3. \A k, l \in DOMAIN tracks : Swapped(k, i, j) = Swapped(l, i, j) => k = l
    BY DEF Swapped
  <2> QED BY <2>2, <2>3 DEF RowsDistinct
<1>7. ASSUME NEW i \in DOMAIN tracks,
             \/ ToggleBookmark(i)
             \/ \E u \in BOOLEAN : SetTrack(i, [tracks[i] EXCEPT !.unplayable = u])
      PROVE  RowsDistinct'
  <2>1. \E row : tracks' = [tracks EXCEPT ![i] = row] /\ row.id = tracks[i].id
    <3>1. tracks[i] \in Row
      BY <1>0
    <3>2. ASSUME ToggleBookmark(i) PROVE \E row : tracks' = [tracks EXCEPT ![i] = row] /\ row.id = tracks[i].id
      <4>1. [tracks[i] EXCEPT !.bookmark = ~@].id = tracks[i].id
        BY <3>1 DEF Row
      <4>2. tracks' = [tracks EXCEPT ![i] = [tracks[i] EXCEPT !.bookmark = ~@]]
        BY <3>2 DEF ToggleBookmark
      <4> QED BY <4>1, <4>2
    <3>3. ASSUME NEW u \in BOOLEAN, SetTrack(i, [tracks[i] EXCEPT !.unplayable = u])
          PROVE  \E row : tracks' = [tracks EXCEPT ![i] = row] /\ row.id = tracks[i].id
      <4>1. [tracks[i] EXCEPT !.unplayable = u].id = tracks[i].id
        BY <3>1 DEF Row
      <4>2. tracks' = [tracks EXCEPT ![i] = [tracks[i] EXCEPT !.unplayable = u]]
        BY <3>3 DEF SetTrack
      <4> QED BY <4>1, <4>2
    <3> QED BY <1>7, <3>2, <3>3
  <2>2. DOMAIN tracks' = DOMAIN tracks /\ \A k \in DOMAIN tracks : tracks'[k].id = tracks[k].id
    BY <2>1
  <2> QED BY <2>2 DEF RowsDistinct
<1>8. ASSUME NEW rows \in RowLists(Ids), Replace(rows) PROVE RowsDistinct'
  <2>1. /\ rows \in Seq(Row)
        /\ \A k, l \in 1..Len(rows) : rows[k].id = rows[l].id => k = l
    BY RowListsDistinct
  <2>2. tracks' = rows /\ DOMAIN rows = 1..Len(rows)
    BY <1>8, <2>1 DEF Replace
  <2> QED BY <2>1, <2>2 DEF RowsDistinct
<1>9. ASSUME \/ \E i \in DOMAIN tracks : Queue(i) \/ Dequeue(i)
             \/ \E k \in DOMAIN queue : RemoveQueueAt(k)
             \/ \E k, l \in DOMAIN queue : MoveQueue(k, l)
             \/ ClearQueue
      PROVE  tracks' = tracks
  BY <1>9 DEF Queue, Dequeue, RemoveQueueAt, MoveQueue, ClearQueue, SetQueue
<1>10. ASSUME ToggleShuffle \/ CycleRepeat \/ EnableSmart \/ \E mode \in RepeatModes : SetRepeat(mode)
       PROVE  tracks' = tracks
  BY <1>10 DEF ToggleShuffle, FlipShuffle, CycleRepeat, EnableSmart, SetRepeat
<1>11. ASSUME NextTrack \/ PrevTrack \/ ActivateSelected \/ \E i \in DOMAIN tracks : SetIndex(i)
       PROVE  tracks' = tracks
  BY <1>11 DEF NextTrack, PrevTrack, ActivateSelected, SetIndex, Take
<1>12. CASE UNCHANGED vars
  BY <1>1, <1>12 DEF vars
<1>13. CASE Edit
  BY <1>1, <1>2, <1>4, <1>6, <1>7, <1>9, <1>10, <1>13 DEF Edit, FlipBookmark, MarkUnplayable
<1>14. CASE SmartEdit
  BY <1>1, <1>3, <1>5, <1>10, <1>14 DEF SmartEdit
<1>15. CASE Transport
  BY <1>1, <1>8, <1>11, <1>15 DEF Transport
<1> QED BY <1>12, <1>13, <1>14, <1>15 DEF Next

(* No edit of the user and no batch of recommendations, on a list of any   *)
(* length, moves the listener off the active row, loses or reorders what   *)
(* is queued, or disturbs what has played.                                 *)
THEOREM PlaceKept == Spec => EditsKeepPlace
<1>1. Init => RowsDistinct
  BY DEF Init, RowsDistinct
<1>2. IndexInv /\ RowsDistinct /\ [Next]_vars => RowsDistinct'
  BY NextDistinct
<1>3. IndexInv /\ IndexInv' /\ RowsDistinct /\ [Next]_vars => [RowEditKeepsPlace /\ SmartEditKeepsPlace]_vars
  BY RowEditInPlace, SmartEditInPlace
<1> QED BY <1>1, <1>2, <1>3, IndexesSound, PTL DEF Spec, EditsKeepPlace

-----------------------------------------------------------------------------
(* Undo                                                                    *)

(* A snapshot of a playlist whose indexes are sound. *)
Consistent(s) ==
  /\ s \in [tracks : Seq(Row), order : Seq(Nat), pos : Nat, shuffle : BOOLEAN, smart : BOOLEAN,
            repeat : RepeatModes, queue : Seq(Nat), queuedIdx : Nat]
  /\ s.order \in Orders(Len(s.tracks)) /\ (~s.shuffle => s.order = TrackOrder(Len(s.tracks)))
  /\ s.pos \in 1..Len(s.tracks) \/ (Len(s.tracks) = 0 /\ s.pos = 1)
  /\ s.queue \in Seq(1..Len(s.tracks)) /\ s.queuedIdx \in 0..Len(s.tracks)

(* Sound indexes make a sound snapshot. *)
LEMMA SnapshotIsConsistent ==
  ASSUME IndexInv
  PROVE  Consistent(Snapshot)
<1>1. /\ Len(tracks) \in Nat /\ order \in Orders(Len(tracks))
      /\ Len(tracks) > 0 => pos \in 1..Len(tracks)
      /\ order = <<>> <=> Len(tracks) = 0
      /\ queue \in Seq(1..Len(tracks)) /\ queuedIdx \in 0..Len(tracks)
  BY IndexInvFacts
<1>2. pos \in 1..Len(tracks) \/ (Len(tracks) = 0 /\ pos = 1)
  <2>1. Len(tracks) = 0 => pos = 1
    BY <1>1 DEF IndexInv, PlayOrderIntegrity
  <2> QED BY <1>1, <2>1
<1>3. /\ tracks \in Seq(Row) /\ (~shuffle => order = TrackOrder(Len(tracks)))
      /\ shuffle \in BOOLEAN /\ smart \in BOOLEAN /\ repeat \in RepeatModes
      /\ order \in Seq(Nat) /\ pos \in Nat /\ queue \in Seq(Nat) /\ queuedIdx \in Nat
  BY DEF IndexInv, TypeOK, TrackOrderUnlessShuffled
<1> QED BY <1>1, <1>2, <1>3 DEF Consistent, Snapshot

(* Restoring one makes sound indexes again. *)
LEMMA RestoreSound ==
  ASSUME IndexInv, NEW s, Consistent(s), Restore(s)
  PROVE  IndexInv'
<1> DEFINE n == Len(s.tracks)
<1>1. n \in Nat
  BY DEF Consistent
<1>2. /\ tracks' \in Seq(Row) /\ Len(tracks') = n
      /\ order' \in Orders(n) /\ (pos' \in 1..n \/ (n = 0 /\ pos' = 1))
      /\ queue' \in Seq(1..n) /\ queuedIdx' \in 0..n
      /\ ~shuffle' => order' = TrackOrder(n)
      /\ shuffle' \in BOOLEAN /\ smart' \in BOOLEAN /\ repeat' \in RepeatModes
  BY DEF Restore, Consistent
<1>3. queuePositions' = FirstPositions(queue')
  BY DEF Restore
<1>4. revision' \in 0..RevisionModulus - 1
  <2>1. revision \in 0..RevisionModulus - 1
    BY DEF IndexInv, TypeOK
  <2>2. Bump(1) \in 0..RevisionModulus - 1
    BY <2>1, BumpFact
  <2>3. revision' \in {revision, Bump(1)}
    BY DEF Restore
  <2> QED BY <2>1, <2>2, <2>3
<1> HIDE DEF n
<1> QED BY <1>1, <1>2, <1>3, <1>4, IndexInvFrom

(* What undo would restore was sound when the edit took it. *)
SnapshotInv == undo.active => Consistent(undo.snapshot)

(* A step of a session with undo keeps the indexes and the snapshot sound. *)
LEMMA UndoStepSound ==
  ASSUME IndexInv, SnapshotInv, UndoNext
  PROVE  IndexInv' /\ SnapshotInv'
<1>0. Consistent(Snapshot)
  BY SnapshotIsConsistent
<1>1. ASSUME Record(FALSE) \/ Record(TRUE) PROVE SnapshotInv'
  BY <1>0, <1>1 DEF Record, SnapshotInv
<1>2. ASSUME undo' = undo \/ undo' = NoUndo PROVE SnapshotInv'
  BY <1>2 DEF SnapshotInv, NoUndo
<1>3. ASSUME NEW i \in DOMAIN tracks, RemoveRow(i) \/ RemoveRowRemotely(i)
      PROVE  IndexInv' /\ SnapshotInv'
  BY <1>1, <1>2, <1>3, RemovalSound DEF RemoveRow, RemoveRowRemotely
<1>4. ASSUME \/ ClearQueued
             \/ \E k \in DOMAIN queue : \E force \in BOOLEAN : RemoveQueued(k, force)
      PROVE  IndexInv' /\ SnapshotInv'
  BY <1>1, <1>4, QueueEditsSound DEF ClearQueued, RemoveQueued
<1>5. ASSUME NEW rows \in RowLists(Ids), ReplaceList(rows)
      PROVE  IndexInv' /\ SnapshotInv'
  BY <1>2, <1>5, RowListsFact, ReplaceSound DEF ReplaceList
<1>6. CASE UndoMutation
  <2>1. Consistent(undo.snapshot) /\ Restore(undo.snapshot) /\ undo' = NoUndo
    BY <1>6 DEF UndoMutation, SnapshotInv
  <2> QED BY <1>2, <2>1, RestoreSound
<1>7. CASE UndoRefused
  BY <1>2, <1>7, NextInv DEF UndoRefused
<1>8. CASE OtherEdit
  <2>1. ASSUME ToggleSmartShuffle PROVE IndexInv'
    <3>1. smart' = TRUE /\ FlipShuffle => IndexInv'
      BY FlipShuffleSound
    <3> QED BY <2>1, <3>1, RemovalSound, ModesSound DEF ToggleSmartShuffle
  <2>2. ASSUME NEW rows \in RowLists(SmartIds \ Listed), SmartRecommends(rows) PROVE IndexInv'
    BY <2>2, RowListsFact, AddSound DEF SmartRecommends
  <2>3. IndexInv' /\ undo' = undo
    BY <1>8, <2>1, <2>2, NextInv DEF OtherEdit, Next, Edit, Transport
  <2> QED BY <1>2, <2>3
<1> QED BY <1>3, <1>4, <1>5, <1>6, <1>7, <1>8 DEF UndoNext

(* The playlist's indexes are sound in every state of a session with undo, *)
(* whatever is recommended: what Ctrl+Z restores was sound when the edit   *)
(* took it, and Restore rebuilds the positions of the queue.               *)
THEOREM UndoStaysSound == UndoSpec => []IndexInv
<1>1. UndoInit => IndexInv /\ SnapshotInv
  BY InitInv DEF UndoInit, SnapshotInv, NoUndo
<1>2. IndexInv /\ SnapshotInv /\ UNCHANGED undoVars => (IndexInv /\ SnapshotInv)'
  BY NextInv DEF undoVars, SnapshotInv
<1>3. IndexInv /\ SnapshotInv /\ [UndoNext]_undoVars => (IndexInv /\ SnapshotInv)'
  BY <1>2, UndoStepSound
<1> QED BY <1>1, <1>3, PTL DEF UndoSpec

(* None of the rows was recommended.                                       *)
NoneSmart == \A i \in DOMAIN tracks : ~tracks[i].smart

(* The record of an edit is no newer than the playlist, and while it is    *)
(* the newest the playlist is as the edit left it.                         *)
UndoInv ==
  undo.active =>
    /\ \A i \in DOMAIN undo.snapshot.tracks : ~undo.snapshot.tracks[i].smart
    /\ undo.revision \in 0..revision
    /\ undo.revision = revision => Matches(Snapshot, undo.after)

SessionInv == IndexInv /\ SnapshotInv /\ NoneSmart /\ UndoInv

(* Where two snapshots differ in the smart flag, setting it makes them equal. *)
LEMMA SnapshotExcept ==
  ASSUME NEW t, NEW o, NEW p, NEW sh, NEW re, NEW q, NEW qi, NEW sm, NEW other, NEW value
  PROVE  [[tracks |-> t, order |-> o, pos |-> p, shuffle |-> sh, smart |-> sm, repeat |-> re,
           queue |-> q, queuedIdx |-> qi] EXCEPT !.smart = value]
         = [[tracks |-> t, order |-> o, pos |-> p, shuffle |-> sh, smart |-> other, repeat |-> re,
             queue |-> q, queuedIdx |-> qi] EXCEPT !.smart = value]
OBVIOUS

(* Snapshots match where they agree on all but the smart flag. *)
LEMMA MatchFact ==
  ASSUME tracks' = tracks, order' = order, pos' = pos, shuffle' = shuffle, repeat' = repeat,
         queue' = queue, queuedIdx' = queuedIdx
  PROVE  Matches(Snapshot, Snapshot')
<1> DEFINE With(flag) == [tracks |-> tracks, order |-> order, pos |-> pos, shuffle |-> shuffle,
                          smart |-> flag, repeat |-> repeat, queue |-> queue,
                          queuedIdx |-> queuedIdx]
<1>1. Snapshot = With(smart) /\ Snapshot' = With(smart')
  BY DEF Snapshot
<1>2. ASSUME NEW sm, NEW other, NEW value
      PROVE  [With(sm) EXCEPT !.smart = value] = [With(other) EXCEPT !.smart = value]
  BY SnapshotExcept
<1> HIDE DEF With
<1>3. [With(smart) EXCEPT !.smart = FALSE] = [With(smart') EXCEPT !.smart = FALSE]
  BY <1>2, Zenon
<1> QED BY <1>1, <1>3, Zenon DEF Matches

(* Removing no row changes nothing, not even the revision.                 *)
LEMMA RemovingNothing ==
  ASSUME IndexInv, RemoveRows({})
  PROVE  /\ tracks' = tracks /\ order' = order /\ pos' = pos
         /\ queue' = queue /\ queuedIdx' = queuedIdx /\ revision' = revision
<1> DEFINE n == Len(tracks)
           m == Len(queue)
           all == [k \in 1..n |-> k]
<1>1. /\ n \in Nat /\ m \in Nat /\ DOMAIN tracks = 1..n /\ DOMAIN queue = 1..m /\ DOMAIN order = 1..n
      /\ order \in [1..n -> 1..n] /\ Len(order) = n /\ tracks \in [1..n -> Row]
      /\ queue \in [1..m -> 1..n] /\ queuedIdx \in 0..n
      /\ pos \in Nat /\ (n > 0 => pos \in 1..n) /\ (n = 0 => pos = 1)
  <2>1. /\ n \in Nat /\ DOMAIN tracks = 1..n /\ order \in Orders(n) /\ Len(order) = n
        /\ queue \in Seq(1..n) /\ queuedIdx \in 0..n /\ pos \in Nat /\ (n > 0 => pos \in 1..n)
        /\ (order = <<>> <=> n = 0)
    BY IndexInvFacts
  <2>2. n = 0 => pos = 1
    BY <2>1 DEF IndexInv, PlayOrderIntegrity
  <2>3. tracks \in Seq(Row)
    BY DEF IndexInv, TypeOK
  <2>4. order \in [1..n -> 1..n]
    BY <2>1 DEF Orders
  <2> QED BY <2>1, <2>2, <2>3, <2>4
<1>2. InOrder(1..n) = all /\ Cardinality(1..n) = n /\ InOrder(1..m) = [k \in 1..m |-> k]
  BY <1>1, InOrderOfAll
<1>3. /\ DOMAIN tracks \ {} = 1..n /\ {s \in DOMAIN order : order[s] \notin {}} = 1..n
      /\ {k \in DOMAIN queue : queue[k] \notin {}} = 1..m
      /\ Cardinality({}) = 0 /\ SlotsBefore({}) = {}
  BY <1>1, FS_EmptySet DEF SlotsBefore
<1>4. \A i \in 1..n : PlaceIn(all, i) = i
  BY DEF PlaceIn
<1>5. tracks' = tracks
  <2>1. tracks' = [k \in 1..Len(all) |-> tracks[all[k]]]
    BY <1>2, <1>3 DEF RemoveRows, Pick
  <2>2. Len(all) = n
    BY <1>1
  <2> QED BY <1>1, <2>1, <2>2
<1>6. order' = order
  <2>1. order' = [k \in 1..Len(all) |-> PlaceIn(all, order[all[k]])]
    BY <1>2, <1>3 DEF RemoveRows
  <2>2. \A k \in 1..n : order[k] \in 1..n
    <3> HIDE DEF n
    <3> QED BY <1>1
  <2>3. Len(all) = n /\ \A k \in 1..n : all[k] = k
    BY <1>1
  <2> HIDE DEF all, n
  <2> QED BY <1>1, <1>4, <2>1, <2>2, <2>3
<1>7. queue' = queue
  <2> DEFINE places == [k \in 1..m |-> k]
  <2>1. queue' = [k \in 1..Len(places) |-> PlaceIn(all, queue[places[k]])]
    BY <1>2, <1>3 DEF RemoveRows
  <2>2. Len(places) = m /\ \A k \in 1..m : places[k] = k /\ queue[k] \in 1..n
    BY <1>1
  <2> HIDE DEF all, places
  <2> QED BY <1>1, <1>4, <2>1, <2>2
<1>8. queuedIdx' = queuedIdx
  <2>1. queuedIdx' = IF queuedIdx \in {} \cup {None} THEN None ELSE PlaceIn(all, queuedIdx)
    BY <1>2, <1>3 DEF RemoveRows
  <2>2. queuedIdx = None \/ queuedIdx \in 1..n
    BY <1>1 DEF None
  <2> HIDE DEF all
  <2> QED BY <1>4, <2>1, <2>2
<1>9. pos' = pos
  <2>1. pos' = Clamped(pos - 0, n)
    BY <1>2, <1>3 DEF RemoveRows, PosAfterRemoval
  <2>2. pos - 0 = pos /\ (n < 1 => pos = 1) /\ pos >= 1 /\ (n >= 1 => pos <= n)
    BY <1>1
  <2> HIDE DEF n
  <2> QED BY <1>1, <2>1, <2>2 DEF Clamped
<1>10. revision' = revision
  <2>1. revision' = Bump(0) /\ revision \in 0..RevisionModulus - 1
    BY <1>3 DEF RemoveRows, IndexInv, TypeOK
  <2> QED BY <2>1, RevisionAssumption DEF Bump
<1> QED BY <1>5, <1>6, <1>7, <1>8, <1>9, <1>10

(* What a step may do to the revision while it has not wrapped. *)
Tracked == \/ revision' = revision + 1
           \/ revision' = revision /\ Matches(Snapshot, Snapshot')

(* A new revision is the next number, as the counter has not wrapped.      *)
LEMMA BumpTracked ==
  ASSUME IndexInv, BelowBound, revision' = Bump(1)
  PROVE  Tracked
<1>1. revision \in 0..RevisionModulus - 1 /\ revision + 1 < RevisionModulus /\ RevisionModulus \in Nat
  BY RevisionAssumption DEF IndexInv, TypeOK, BelowBound
<1>2. (revision + 1) % RevisionModulus = revision + 1
  BY <1>1
<1> QED BY <1>2 DEF Tracked, Bump

(* A transport call that keeps the revision leaves everything as it is. *)
LEMMA TransportTracked ==
  ASSUME IndexInv, BelowBound,
         NextTrack \/ PrevTrack \/ ActivateSelected \/ \E i \in DOMAIN tracks : SetIndex(i)
  PROVE  Tracked /\ tracks' = tracks
<1>1. PICK r : Take(r)
  BY DEF NextTrack, PrevTrack, ActivateSelected, SetIndex
<1>2. tracks' = tracks /\ shuffle' = shuffle /\ repeat' = repeat
  BY <1>1 DEF Take, modeVars
<1>3. CASE <<order, pos, queue, queuedIdx>>' = <<order, pos, queue, queuedIdx>>
  <2>1. order' = order /\ pos' = pos /\ queue' = queue /\ queuedIdx' = queuedIdx
    BY <1>3
  <2>2. revision' = revision
    BY <1>1, <1>3 DEF Take
  <2> QED BY <1>2, <2>1, <2>2, MatchFact DEF Tracked
<1>4. CASE <<order, pos, queue, queuedIdx>>' # <<order, pos, queue, queuedIdx>>
  <2>1. revision' = Bump(1)
    BY <1>1, <1>4 DEF Take
  <2> QED BY <1>2, <2>1, BumpTracked
<1> QED BY <1>3, <1>4

(* Rows that callers hand over are not recommended ones. *)
LEMMA RowListsPlain ==
  ASSUME NEW ids, NEW rows \in RowLists(ids)
  PROVE  /\ rows \in Seq(Row) /\ \A k \in 1..Len(rows) : ~rows[k].smart /\ rows[k].id \in ids
         /\ Len(rows) \in Nat /\ DOMAIN rows = 1..Len(rows)
<1>1. PICK m \in 1..MaxAdd : rows \in [1..m -> NewRows(ids)]
  BY DEF RowLists
<1>2. m \in Nat
  BY BoundsAssumption
<1>3. rows \in [1..m -> Row] /\ \A k \in 1..m : ~rows[k].smart /\ rows[k].id \in ids
  BY <1>1 DEF NewRows
<1> QED BY <1>2, <1>3

(* Edits of rows and queue make a new revision, and no row a recommended one. *)
LEMMA EditTracked ==
  ASSUME IndexInv, NoneSmart, BelowBound,
         \/ \E rows \in RowLists(Ids \ Listed) : Add(rows)
         \/ \E i \in DOMAIN tracks : Queue(i) \/ Dequeue(i) \/ Remove(i)
         \/ \E k \in DOMAIN queue : RemoveQueueAt(k)
         \/ \E k, l \in DOMAIN queue : MoveQueue(k, l)
         \/ ClearQueue
         \/ \E i, j \in DOMAIN tracks : Move(i, j)
         \/ FlipBookmark \/ MarkUnplayable
         \/ FlipShuffle \/ CycleRepeat
  PROVE  Tracked /\ NoneSmart'
<1>0. tracks \in Seq(Row) /\ DOMAIN tracks = 1..Len(tracks)
  BY IndexInvFacts DEF IndexInv, TypeOK
<1>1. ASSUME NEW rows \in RowLists(Ids \ Listed), Add(rows) PROVE Tracked /\ NoneSmart'
  <2>1. /\ rows \in Seq(Row) /\ \A k \in 1..Len(rows) : ~rows[k].smart
        /\ Len(rows) \in Nat /\ Len(tracks) \in Nat
    BY <1>0, RowListsPlain
  <2>2. AppendRows(rows) /\ revision' = Bump(1)
    BY <1>1 DEF Add
  <2>3. /\ DOMAIN tracks' = 1..(Len(tracks) + Len(rows))
        /\ \A i \in 1..Len(tracks) : tracks'[i] = tracks[i]
        /\ \A i \in 1..Len(rows) : tracks'[Len(tracks) + i] = rows[i]
    BY <2>1, <2>2, AppendedRows
  <2>4. ASSUME NEW i \in 1..(Len(tracks) + Len(rows)) PROVE ~tracks'[i].smart
    <3>1. CASE i \in 1..Len(tracks)
      BY <1>0, <2>3, <3>1 DEF NoneSmart
    <3>2. CASE i \notin 1..Len(tracks)
      <4>1. i - Len(tracks) \in 1..Len(rows) /\ Len(tracks) + (i - Len(tracks)) = i
        BY <2>1, <3>2
      <4> QED BY <2>1, <2>3, <4>1
    <3> QED BY <3>1, <3>2
  <2> QED BY <2>2, <2>3, <2>4, BumpTracked DEF NoneSmart
<1>2. ASSUME NEW i \in DOMAIN tracks, Remove(i) PROVE Tracked /\ NoneSmart'
  <2>1. {i} \in SUBSET (DOMAIN tracks) /\ RemoveRows({i})
    BY <1>2 DEF Remove
  <2>2. revision' = Bump(1)
    <3>1. Cardinality({i}) = 1
      BY FS_Singleton
    <3> QED BY <2>1, <3>1 DEF RemoveRows
  <2> DEFINE K == (1..Len(tracks)) \ {i}
             c == Cardinality(K)
             kept == InOrder(K)
  <2>3. kept \in [1..c -> K] /\ DOMAIN tracks' = 1..c /\ \A k \in 1..c : tracks'[k] = tracks[kept[k]]
    BY <2>1, RemovalLeaves
  <2>4. \A k \in K : k \in DOMAIN tracks
    BY <1>0
  <2> HIDE DEF K, c, kept
  <2>5. \A k \in DOMAIN tracks' : \E j \in DOMAIN tracks : tracks'[k] = tracks[j]
    BY <2>3, <2>4
  <2> QED BY <2>2, <2>5, BumpTracked DEF NoneSmart
<1>3. ASSUME NEW i \in DOMAIN tracks, NEW j \in DOMAIN tracks, Move(i, j) PROVE Tracked /\ NoneSmart'
  <2>1. tracks' = [tracks EXCEPT ![i] = tracks[j], ![j] = tracks[i]] /\ revision' = Bump(1)
    BY <1>3 DEF Move
  <2>2. \A k \in DOMAIN tracks' : \E l \in DOMAIN tracks : tracks'[k] = tracks[l]
    BY <2>1
  <2> QED BY <2>1, <2>2, BumpTracked DEF NoneSmart
<1>4. CASE FlipBookmark \/ MarkUnplayable
  <2>1. ASSUME NEW i \in DOMAIN tracks, NEW row,
               tracks' = [tracks EXCEPT ![i] = row], ~row.smart, revision' = Bump(1)
        PROVE  Tracked /\ NoneSmart'
    BY <2>1, BumpTracked DEF NoneSmart
  <2>2. ASSUME NEW i \in DOMAIN tracks, ToggleBookmark(i) PROVE Tracked /\ NoneSmart'
    <3>1. tracks[i] \in Row /\ ~tracks[i].smart
      BY <1>0 DEF NoneSmart
    <3>2. ~[tracks[i] EXCEPT !.bookmark = ~@].smart
      BY <3>1 DEF Row
    <3>3. tracks' = [tracks EXCEPT ![i] = [tracks[i] EXCEPT !.bookmark = ~@]] /\ revision' = Bump(1)
      BY <2>2 DEF ToggleBookmark
    <3> QED BY <2>1, <3>2, <3>3
  <2>3. ASSUME NEW i \in DOMAIN tracks, NEW u \in BOOLEAN, SetTrack(i, [tracks[i] EXCEPT !.unplayable = u])
        PROVE  Tracked /\ NoneSmart'
    <3>1. tracks[i] \in Row /\ ~tracks[i].smart
      BY <1>0 DEF NoneSmart
    <3>2. ~[tracks[i] EXCEPT !.unplayable = u].smart
      BY <3>1 DEF Row
    <3>3. tracks' = [tracks EXCEPT ![i] = [tracks[i] EXCEPT !.unplayable = u]] /\ revision' = Bump(1)
      BY <2>3 DEF SetTrack
    <3> QED BY <2>1, <3>2, <3>3
  <2> QED BY <1>4, <2>2, <2>3 DEF FlipBookmark, MarkUnplayable
<1>5. ASSUME \/ \E i \in DOMAIN tracks : Queue(i) \/ Dequeue(i)
             \/ \E k \in DOMAIN queue : RemoveQueueAt(k)
             \/ \E k, l \in DOMAIN queue : MoveQueue(k, l)
             \/ ClearQueue
      PROVE  Tracked /\ NoneSmart'
  <2>1. tracks' = tracks /\ revision' = Bump(1)
    BY <1>5 DEF Queue, Dequeue, RemoveQueueAt, MoveQueue, ClearQueue, SetQueue
  <2> QED BY <2>1, BumpTracked DEF NoneSmart
<1>6. ASSUME FlipShuffle \/ CycleRepeat PROVE Tracked /\ NoneSmart'
  <2>1. tracks' = tracks /\ revision' = Bump(1)
    BY <1>6 DEF FlipShuffle, CycleRepeat, SetRepeat
  <2> QED BY <2>1, BumpTracked DEF NoneSmart
<1> QED BY <1>1, <1>2, <1>3, <1>4, <1>5, <1>6

(* With no recommended rows Smart Shuffle only sets its flag. *)
LEMMA SmartTracked ==
  ASSUME IndexInv, NoneSmart, EnableSmart \/ DisableSmart
  PROVE  Tracked /\ NoneSmart'
<1>1. CASE EnableSmart
  <2>1. /\ tracks' = tracks /\ order' = order /\ pos' = pos /\ queue' = queue
        /\ queuedIdx' = queuedIdx /\ revision' = revision /\ shuffle' = shuffle /\ repeat' = repeat
    BY <1>1 DEF EnableSmart, playVars
  <2> QED BY <2>1, MatchFact DEF Tracked, NoneSmart
<1>2. CASE DisableSmart
  <2>1. \A k \in DOMAIN order : order[k] \in DOMAIN tracks
    BY IndexInvFacts DEF Orders
  <2>2. PendingSmart = {}
    BY <2>1 DEF PendingSmart, NoneSmart
  <2>3. RemoveRows({}) /\ shuffle' = shuffle /\ repeat' = repeat
    BY <1>2, <2>2 DEF DisableSmart
  <2>4. /\ tracks' = tracks /\ order' = order /\ pos' = pos
        /\ queue' = queue /\ queuedIdx' = queuedIdx /\ revision' = revision
    BY <2>3, RemovingNothing
  <2> QED BY <2>3, <2>4, MatchFact DEF Tracked, NoneSmart
<1> QED BY <1>1, <1>2

(* A replaced list. *)
LEMMA ReplaceTracked ==
  ASSUME IndexInv, BelowBound, NEW rows \in RowLists(Ids), Replace(rows)
  PROVE  Tracked /\ NoneSmart'
<1>1. NoneSmart'
  <2>1. tracks' = rows
    BY DEF Replace
  <2> QED BY <2>1, RowListsPlain DEF NoneSmart
<1>2. CASE revision' = Bump(1)
  BY <1>1, <1>2, BumpTracked
<1>3. CASE revision' # Bump(1)
  <2>1. /\ tracks' = tracks /\ order' = order /\ pos' = pos /\ queue' = queue /\ queuedIdx' = queuedIdx
        /\ revision' = revision /\ shuffle' = shuffle /\ repeat' = repeat
    BY <1>3 DEF Replace, modeVars
  <2> QED BY <1>1, <2>1, MatchFact DEF Tracked
<1> QED BY <1>2, <1>3

(* An undo that finds the playlist as the snapshot has it may keep the revision. *)
LEMMA RestoreTracked ==
  ASSUME IndexInv, BelowBound, NEW s, Consistent(s), Restore(s)
  PROVE  Tracked
<1>1. CASE revision' = Bump(1)
  BY <1>1, BumpTracked
<1>2. CASE revision' # Bump(1)
  <2>1. revision' = revision /\ Matches(Snapshot, s)
    BY <1>2 DEF Restore
  <2>2. Snapshot' = s
    BY DEF Restore, Consistent, Snapshot
  <2> QED BY <2>1, <2>2 DEF Tracked
<1> QED BY <1>1, <1>2

(* Every step of a session keeps its invariant, and is tracked. *)
LEMMA SessionStep ==
  ASSUME SmartIds = {}, SessionInv, UndoNext
  PROVE  SessionInv' /\ Tracked
<1>0. IndexInv /\ NoneSmart /\ BelowBound /\ revision \in Nat /\ IndexInv' /\ SnapshotInv'
  BY UndoStepSound DEF SessionInv, UndoNext, IndexInv, TypeOK
<1>1. ASSUME NoneSmart', Tracked, undo' = undo
      PROVE  SessionInv' /\ Tracked
  <2>1. CASE revision' = revision + 1
    BY <1>0, <1>1, <2>1 DEF SessionInv, UndoInv
  <2>2. CASE revision' = revision /\ Matches(Snapshot, Snapshot')
    <3>1. Matches(Snapshot, undo.after) => Matches(Snapshot', undo.after)
      BY <2>2 DEF Matches
    <3> QED BY <1>0, <1>1, <2>2, <3>1 DEF SessionInv, UndoInv
  <2> QED BY <1>1, <2>1, <2>2 DEF Tracked
<1>2. ASSUME NoneSmart', Tracked, NEW force \in BOOLEAN, Record(force)
      PROVE  SessionInv' /\ Tracked
  <2>1. undo'.snapshot = Snapshot /\ undo'.revision = revision' /\ undo'.after = Snapshot'
    BY <1>2 DEF Record
  <2>2. revision' \in 0..revision'
    BY <1>0, <1>2 DEF Tracked
  <2>3. Matches(Snapshot', undo'.after)
    BY <2>1 DEF Matches
  <2>4. \A i \in DOMAIN undo'.snapshot.tracks : ~undo'.snapshot.tracks[i].smart
    BY <1>0, <2>1 DEF Snapshot, NoneSmart
  <2> QED BY <1>0, <1>2, <2>1, <2>2, <2>3, <2>4 DEF SessionInv, UndoInv
<1>3. ASSUME NoneSmart', Tracked, undo' = NoUndo
      PROVE  SessionInv' /\ Tracked
  BY <1>0, <1>3 DEF SessionInv, UndoInv, NoUndo
<1>4. ASSUME NEW i \in DOMAIN tracks, RemoveRow(i) \/ RemoveRowRemotely(i)
      PROVE  SessionInv' /\ Tracked
  <2>1. NoneSmart' /\ Tracked
    BY <1>0, <1>4, EditTracked DEF RemoveRow, RemoveRowRemotely
  <2> QED BY <1>1, <1>2, <1>4, <2>1 DEF RemoveRow, RemoveRowRemotely
<1>5. ASSUME \/ ClearQueued
             \/ \E k \in DOMAIN queue : \E force \in BOOLEAN : RemoveQueued(k, force)
      PROVE  SessionInv' /\ Tracked
  <2>1. NoneSmart' /\ Tracked
    BY <1>0, <1>5, EditTracked DEF ClearQueued, RemoveQueued
  <2> QED BY <1>2, <1>5, <2>1 DEF ClearQueued, RemoveQueued
<1>6. ASSUME NEW rows \in RowLists(Ids), ReplaceList(rows)
      PROVE  SessionInv' /\ Tracked
  BY <1>0, <1>1, <1>3, <1>6, ReplaceTracked DEF ReplaceList
<1>7. CASE UndoMutation
  <2>1. Consistent(undo.snapshot) /\ Restore(undo.snapshot) /\ undo' = NoUndo
    BY <1>7 DEF UndoMutation, SessionInv, SnapshotInv
  <2>2. NoneSmart'
    BY <1>7 DEF UndoMutation, SessionInv, UndoInv, Restore, NoneSmart
  <2> QED BY <1>0, <1>3, <2>1, <2>2, RestoreTracked
<1>8. CASE UndoRefused
  <2>1. UNCHANGED vars /\ undo' = NoUndo
    BY <1>8 DEF UndoRefused
  <2>2. /\ tracks' = tracks /\ order' = order /\ pos' = pos /\ queue' = queue /\ queuedIdx' = queuedIdx
        /\ revision' = revision /\ shuffle' = shuffle /\ repeat' = repeat
    BY <2>1 DEF vars, playVars, modeVars
  <2>3. Tracked /\ NoneSmart'
    BY <1>0, <2>2, MatchFact DEF Tracked, NoneSmart
  <2> QED BY <1>3, <2>1, <2>3
<1>9. CASE OtherEdit
  <2>1. ASSUME NextTrack \/ PrevTrack \/ ActivateSelected \/ \E i \in DOMAIN tracks : SetIndex(i)
        PROVE  NoneSmart' /\ Tracked
    BY <1>0, <2>1, TransportTracked DEF NoneSmart
  <2>2. ASSUME ToggleSmartShuffle PROVE NoneSmart' /\ Tracked
    BY <1>0, <2>2, EditTracked, SmartTracked DEF ToggleSmartShuffle
  <2>3. ASSUME NEW rows \in RowLists(SmartIds \ Listed), SmartRecommends(rows) PROVE FALSE
    <3>1. rows # <<>> /\ \A k \in 1..Len(rows) : rows[k].id \in {}
      BY <2>3, RowListsPlain DEF SmartRecommends, AddSmart
    <3>2. rows \in Seq(Row)
      BY RowListsPlain
    <3> QED BY <3>1, <3>2
  <2>4. NoneSmart' /\ Tracked /\ undo' = undo
    BY <1>0, <1>9, <2>1, <2>2, <2>3, EditTracked DEF OtherEdit, ToggleShuffle
  <2> QED BY <1>1, <2>4
<1> QED BY <1>4, <1>5, <1>6, <1>7, <1>8, <1>9 DEF UndoNext

(* While nothing is recommended, Ctrl+Z never drops a change: an undo that *)
(* is not forced runs only over the state its edit left, because every     *)
(* change makes a new revision; for lists and sessions of any length,      *)
(* before the revision wraps.                                              *)
THEOREM UndoIsGuarded ==
  ASSUME SmartIds = {}
  PROVE  UndoSpec => RevisionsGuardUndo
<1>1. UndoInit => SessionInv
  BY InitInv DEF UndoInit, Init, SessionInv, SnapshotInv, NoneSmart, UndoInv, NoUndo
<1>2. SessionInv /\ [UndoNext]_undoVars => SessionInv'
  <2>1. ASSUME SessionInv, UNCHANGED undoVars PROVE SessionInv'
    <3>1. IndexInv'
      BY <2>1, NextInv DEF SessionInv, undoVars
    <3> QED BY <2>1, <3>1 DEF SessionInv, SnapshotInv, undoVars, vars, playVars, modeVars, NoneSmart, UndoInv, Snapshot
  <2> QED BY <2>1, SessionStep
<1>3. SessionInv /\ [UndoNext]_undoVars =>
        [UndoMutation /\ ~undo.force => Matches(Snapshot, undo.after)]_undoVars
  BY DEF SessionInv, UndoInv, UndoMutation, Stale
<1>4. SessionInv /\ [UndoNext]_undoVars =>
        [revision' = revision =>
           \/ Matches(Snapshot, Snapshot')
           \/ \E rows \in RowLists(SmartIds \ Listed) : AddSmart(rows)]_vars
  <2>1. SessionInv => revision \in Nat
    BY DEF SessionInv, IndexInv, TypeOK
  <2> QED BY <2>1, SessionStep DEF Tracked, undoVars
<1> QED BY <1>1, <1>2, <1>3, <1>4, PTL DEF UndoSpec, RevisionsGuardUndo, UndoDropsNothing, RevisionTracksEdits

=============================================================================
