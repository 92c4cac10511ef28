---------------------------- MODULE Archive_proofs ----------------------------
(***************************************************************************)
(* The loops of app/service.py over the rows of a session, and the sealed  *)
(* archive they read and rewrite, for every table of rows.                 *)
(***************************************************************************)
EXTENDS ArchiveInvariant, ChunkLayout_proofs

(***************************************************************************)
(* Loops.  The library's theorems on folds have an operator as parameter;  *)
(* here the body of a loop is a function F of the index and the            *)
(* accumulator, and an induction is over a set of naturals.                *)
(***************************************************************************)
\* A set that has 0, and k + 1 with every k below n, has all numbers up to n.
LEMMA CountingUp ==
  ASSUME NEW n \in Nat, NEW T, 0 \in T, \A k \in 0..(n - 1) : k \in T => k + 1 \in T
  PROVE  0..n \subseteq T
<1> SUFFICES ASSUME (0..n) \ T # {}  PROVE FALSE  OBVIOUS
<1>1. PICK m \in (0..n) \ T : \A j \in (0..n) \ T : m <= j
  <2>1. (0..n) \ T \subseteq Nat  OBVIOUS
  <2> QED  BY <2>1, LeastNatural
<1>2. m # 0 /\ m - 1 \in 0..(n - 1)  BY <1>1
<1>3. m - 1 \in T  BY <1>1, <1>2
<1>4. (m - 1) + 1 \in T  BY <1>2, <1>3
<1> QED  BY <1>1, <1>2, <1>4

\* The greatest index.
LEMMA MaxOfIndices ==
  ASSUME NEW k \in Nat, NEW s \in SUBSET (1..k), s # {}
  PROVE  Max(s) \in s /\ \A j \in s : j <= Max(s)
<1> DEFINE T == {k - j : j \in s}
<1>1. PICK m \in T : \A j \in T : m <= j
  <2>1. \A j \in s : k - j \in Nat  OBVIOUS
  <2>2. T \subseteq Nat  BY <2>1
  <2>3. T # {}  OBVIOUS
  <2> QED  BY <2>2, <2>3, LeastNatural
<1>2. PICK x \in s : m = k - x  BY <1>1
<1>3. \A j \in s : j <= x  BY <1>1, <1>2
<1> QED  BY <1>2, <1>3 DEF Max

\* FoldLeft is defined by a function on sets of indices.
Folded(it, n, Acc, base, F) ==
  /\ it \in [SUBSET (1..n) -> Acc]
  /\ \A s \in SUBSET (1..n) :
       it[s] = IF s = {} THEN base ELSE F[<<Max(s), it[s \ {Max(s)}]>>]

\* That function exists.
LEMMA FoldExists ==
  ASSUME NEW n \in Nat, NEW Acc, NEW base \in Acc, NEW F \in [(1..n) \X Acc -> Acc]
  PROVE  \E it : Folded(it, n, Acc, base, F)
<1> DEFINE Folds(k, it) ==
             \A s \in SUBSET (1..k) :
               it[s] = IF s = {} THEN base ELSE F[<<Max(s), it[s \ {Max(s)}]>>]
           T == {k \in 0..n : \E it \in [SUBSET (1..k) -> Acc] : Folds(k, it)}
<1>1. 0 \in T
  <2> DEFINE it == [s \in SUBSET (1..0) |-> base]
  <2>1. \A s \in SUBSET (1..0) : s = {}  OBVIOUS
  <2>2. it \in [SUBSET (1..0) -> Acc] /\ Folds(0, it)  BY <2>1
  <2> HIDE DEF it, Folds
  <2>3. 0 \in 0..n /\ \E f \in [SUBSET (1..0) -> Acc] : Folds(0, f)  BY <2>2
  <2> QED  BY <2>3
<1>2. ASSUME NEW k \in 0..(n - 1), k \in T  PROVE k + 1 \in T
  <2>1. PICK it \in [SUBSET (1..k) -> Acc] : Folds(k, it)  BY <1>2
  <2> DEFINE next == [s \in SUBSET (1..(k + 1)) |->
                        IF k + 1 \in s THEN F[<<k + 1, it[s \ {k + 1}]>>] ELSE it[s]]
  <2>2. \A s \in SUBSET (1..(k + 1)) :
          /\ k + 1 \in s => s \ {k + 1} \in SUBSET (1..k)
          /\ k + 1 \notin s => s \in SUBSET (1..k)
    OBVIOUS
  <2>3. k + 1 \in 1..n  OBVIOUS
  <2>4. next \in [SUBSET (1..(k + 1)) -> Acc]
    <3> SUFFICES ASSUME NEW s \in SUBSET (1..(k + 1))
                 PROVE  (IF k + 1 \in s THEN F[<<k + 1, it[s \ {k + 1}]>>] ELSE it[s]) \in Acc
      OBVIOUS
    <3>1. CASE k + 1 \in s
      <4>1. it[s \ {k + 1}] \in Acc  BY <2>1, <2>2, <3>1
      <4>2. <<k + 1, it[s \ {k + 1}]>> \in (1..n) \X Acc  BY <4>1, <2>3
      <4>3. F[<<k + 1, it[s \ {k + 1}]>>] \in Acc  BY <4>2
      <4> QED  BY <3>1, <4>3
    <3>2. CASE k + 1 \notin s
      <4>1. it[s] \in Acc  BY <2>1, <2>2, <3>2
      <4> QED  BY <3>2, <4>1
    <3> QED  BY <3>1, <3>2
  <2>5. Folds(k + 1, next)
    <3> SUFFICES ASSUME NEW s \in SUBSET (1..(k + 1))
                 PROVE  next[s] = IF s = {} THEN base
                                  ELSE F[<<Max(s), next[s \ {Max(s)}]>>]
      OBVIOUS
    <3>1. CASE k + 1 \in s
      <4>1. k + 1 \in Nat /\ s # {}  BY <3>1
      <4>6. Max(s) \in s /\ \A j \in s : j <= Max(s)  BY <4>1, MaxOfIndices
      <4>7. Max(s) \in 1..(k + 1) /\ k + 1 <= Max(s)  BY <4>6, <3>1
      <4>2. Max(s) = k + 1  BY <4>7
      <4>3. s \ {k + 1} \in SUBSET (1..(k + 1)) /\ k + 1 \notin s \ {k + 1}  OBVIOUS
      <4>4. next[s \ {k + 1}] = it[s \ {k + 1}]  BY <4>3
      <4>5. next[s] = F[<<k + 1, it[s \ {k + 1}]>>]  BY <3>1
      <4> QED  BY <3>1, <4>2, <4>4, <4>5
    <3>2. CASE k + 1 \notin s /\ s # {}
      <4>1. s \in SUBSET (1..k) /\ s # {} /\ k \in Nat  BY <2>2, <3>2
      <4>2. Max(s) \in s  BY <4>1, MaxOfIndices
      <4>3. s \ {Max(s)} \in SUBSET (1..(k + 1)) /\ k + 1 \notin s \ {Max(s)}  BY <3>2
      <4>4. next[s] = it[s] /\ next[s \ {Max(s)}] = it[s \ {Max(s)}]  BY <3>2, <4>3
      <4> QED  BY <2>1, <3>2, <4>1, <4>4
    <3>3. CASE s = {}
      <4>1. next[s] = it[s] /\ s \in SUBSET (1..k)  BY <3>3, <2>2
      <4> QED  BY <2>1, <3>3, <4>1
    <3> QED  BY <3>1, <3>2, <3>3
  <2> HIDE DEF next, Folds
  <2>6. k + 1 \in 0..n /\ \E f \in [SUBSET (1..(k + 1)) -> Acc] : Folds(k + 1, f)
    BY <2>4, <2>5
  <2> QED  BY <2>6
<1> HIDE DEF Folds
<1>3. n \in T
  <2> HIDE DEF T
  <2>1. 0..n \subseteq T  BY <1>1, <1>2, CountingUp
  <2> QED  BY <2>1
<1>4. PICK it \in [SUBSET (1..n) -> Acc] : Folds(n, it)  BY <1>3
<1>5. Folded(it, n, Acc, base, F)  BY <1>4 DEF Folds, Folded
<1> QED  BY <1>5

-------------------------------------------------------------------------------
(***************************************************************************)
(* Sorting by rank: S by a key that is unique.                             *)
(***************************************************************************)
\* The elements of S before x.
Before(S, K, x) == {y \in S : K[y] < K[x]}

\* A sequence of all elements of S in the order of the key.
Sorts(r, n, S, K) ==
  /\ r \in [1..n -> S]
  /\ \A i, j \in 1..n : i < j => K[r[i]] < K[r[j]]
  /\ \A x \in S : \E i \in 1..n : r[i] = x

\* An element with a smaller key has fewer elements before it.
LEMMA RankGrows ==
  ASSUME NEW S, IsFiniteSet(S), NEW K \in [S -> Nat],
         NEW x \in S, NEW y \in S, K[x] < K[y]
  PROVE  /\ Cardinality(Before(S, K, x)) \in Nat
         /\ Cardinality(Before(S, K, y)) \in 0..(Cardinality(S) - 1)
         /\ Cardinality(Before(S, K, x)) < Cardinality(Before(S, K, y))
<1> DEFINE B(z) == Before(S, K, z)
<1>1. \A z \in S : B(z) \in SUBSET S /\ z \notin B(z)  BY DEF Before
<1>2. \A z \in S : IsFiniteSet(B(z)) /\ Cardinality(B(z)) \in Nat
  BY <1>1, FS_Subset, FS_CardinalityType
<1>3. B(x) \cup {x} \in SUBSET B(y)  BY DEF Before
<1>4. IsFiniteSet(B(x) \cup {x}) /\ Cardinality(B(x) \cup {x}) = Cardinality(B(x)) + 1
  BY <1>1, <1>2, FS_AddElement
<1>5. Cardinality(B(x)) + 1 <= Cardinality(B(y))  BY <1>2, <1>3, <1>4, FS_Subset
<1>6. IsFiniteSet(B(y) \cup {y}) /\ Cardinality(B(y) \cup {y}) = Cardinality(B(y)) + 1
  BY <1>1, <1>2, FS_AddElement
<1>7. B(y) \cup {y} \in SUBSET S  BY <1>1
<1>8. Cardinality(B(y)) + 1 <= Cardinality(S) /\ Cardinality(S) \in Nat
  BY <1>6, <1>7, FS_Subset, FS_CardinalityType
<1> HIDE DEF B
<1>9. /\ Cardinality(B(x)) \in Nat /\ Cardinality(B(y)) \in 0..(Cardinality(S) - 1)
      /\ Cardinality(B(x)) < Cardinality(B(y))
  BY <1>2, <1>5, <1>8
<1> QED  BY <1>9 DEF B

\* The ranks are 0, 1, ..., each taken once.
LEMMA Ranks ==
  ASSUME NEW S, IsFiniteSet(S), NEW K \in [S -> Nat], \A x, y \in S : K[x] = K[y] => x = y
  PROVE  /\ Cardinality(S) \in Nat
         /\ \A x \in S : Cardinality(Before(S, K, x)) \in 0..(Cardinality(S) - 1)
         /\ \A x, y \in S : Cardinality(Before(S, K, x)) = Cardinality(Before(S, K, y)) => x = y
         /\ \A i \in 1..Cardinality(S) :
              \E x \in S : Cardinality(Before(S, K, x)) = i - 1
<1> DEFINE n == Cardinality(S)
           f == [x \in S |-> Cardinality(Before(S, K, x))]
<1>1. n \in Nat  BY FS_CardinalityType
<1>2. ASSUME NEW x \in S  PROVE Cardinality(Before(S, K, x)) \in 0..(n - 1)
  <2> DEFINE B == Before(S, K, x)
  <2>1. B \in SUBSET S /\ x \notin B  BY DEF Before
  <2>2. IsFiniteSet(B) /\ Cardinality(B) \in Nat  BY <2>1, FS_Subset, FS_CardinalityType
  <2>3. IsFiniteSet(B \cup {x}) /\ Cardinality(B \cup {x}) = Cardinality(B) + 1
    BY <2>1, <2>2, FS_AddElement
  <2>4. B \cup {x} \in SUBSET S  BY <2>1
  <2>5. Cardinality(B) + 1 <= n  BY <2>3, <2>4, FS_Subset
  <2> QED  BY <1>1, <2>2, <2>5
<1>3. ASSUME NEW x \in S, NEW y \in S,
             Cardinality(Before(S, K, x)) = Cardinality(Before(S, K, y))
      PROVE  x = y
  <2>1. CASE K[x] < K[y]  BY <1>2, <1>3, <2>1, RankGrows
  <2>2. CASE K[y] < K[x]  BY <1>2, <1>3, <2>2, RankGrows
  <2> QED  BY <2>1, <2>2
<1>4. f \in [S -> 0..(n - 1)] /\ \A x, y \in S : f[x] = f[y] => x = y  BY <1>2, <1>3
<1>5. f \in Injection(S, 0..(n - 1))
  <2> HIDE DEF f
  <2> QED  BY <1>4 DEF Injection, IsInjective
<1>6. IsFiniteSet(0..(n - 1)) /\ Cardinality(0..(n - 1)) = n
  <2>1. 0 \in Int /\ n - 1 \in Int  BY <1>1
  <2>2. Cardinality(0..(n - 1)) = IF 0 > n - 1 THEN 0 ELSE (n - 1) - 0 + 1
    BY <2>1, FS_Interval
  <2> QED  BY <1>1, <2>1, <2>2, FS_Interval
<1>7. f \in Surjection(S, 0..(n - 1))
  <2> HIDE DEF f, n
  <2> QED  BY <1>5, <1>6, FS_Injection DEF n
<1>8. \A i \in 1..n : \E x \in S : f[x] = i - 1
  <2> HIDE DEF f
  <2>1. \A i \in 1..n : i - 1 \in 0..(n - 1)  BY <1>1
  <2> QED  BY <1>7, <2>1 DEF Surjection
<1> QED  BY <1>1, <1>2, <1>3, <1>8

\* Taking the elements by rank sorts them.
LEMMA RankSorts ==
  ASSUME NEW S, IsFiniteSet(S), NEW K \in [S -> Nat], \A x, y \in S : K[x] = K[y] => x = y,
         NEW r \in [1..Cardinality(S) -> S],
         \A i \in 1..Cardinality(S) : Cardinality(Before(S, K, r[i])) = i - 1
  PROVE  Sorts(r, Cardinality(S), S, K)
<1> DEFINE n == Cardinality(S)
           Rank(x) == Cardinality(Before(S, K, x))
<1> HIDE DEF Rank, n
<1>1. /\ n \in Nat /\ \A x \in S : Rank(x) \in 0..(n - 1)
      /\ \A x, y \in S : Rank(x) = Rank(y) => x = y
      /\ \A i \in 1..n : \E x \in S : Rank(x) = i - 1
  BY Ranks DEF Rank, n
<1>2. \A i \in 1..n : r[i] \in S /\ Rank(r[i]) = i - 1
  BY <1>1 DEF n, Rank
<1>3. ASSUME NEW i \in 1..n, NEW j \in 1..n, i < j
      PROVE  K[r[i]] < K[r[j]]
  <2> DEFINE x == r[i]
             y == r[j]
  <2> HIDE DEF x, y
  <2>1. x \in S /\ y \in S /\ Rank(x) = i - 1 /\ Rank(y) = j - 1  BY <1>2 DEF x, y
  <2>2. x # y  BY <2>1, <1>3
  <2>3. ~(K[y] < K[x])
    <3>1. K[y] < K[x] => Rank(y) < Rank(x)  BY <2>1, RankGrows DEF Rank
    <3> QED  BY <3>1, <2>1, <1>3
  <2>4. K[x] # K[y] /\ K[x] \in Nat /\ K[y] \in Nat  BY <2>1, <2>2
  <2>5. K[x] < K[y]  BY <2>3, <2>4
  <2> QED  BY <2>5 DEF x, y
<1>4. ASSUME NEW x \in S  PROVE \E i \in 1..n : r[i] = x
  <2>1. Rank(x) + 1 \in 1..n  BY <1>1
  <2>2. r[Rank(x) + 1] \in S /\ Rank(r[Rank(x) + 1]) = Rank(x)
    BY <2>1, <1>1, <1>2
  <2> QED  BY <2>1, <2>2, <1>1
<1> QED  BY <1>2, <1>3, <1>4 DEF Sorts, n

\* And a sorted sequence takes them by rank.
LEMMA SortsRank ==
  ASSUME NEW S, NEW K \in [S -> Nat], NEW n \in Nat, NEW r, Sorts(r, n, S, K)
  PROVE  /\ IsFiniteSet(S) /\ Cardinality(S) = n
         /\ \A x, y \in S : K[x] = K[y] => x = y
         /\ \A i \in 1..n : Cardinality(Before(S, K, r[i])) = i - 1
<1>1. \A i, j \in 1..n : r[i] = r[j] => i = j
  <2> SUFFICES ASSUME NEW i \in 1..n, NEW j \in 1..n, r[i] = r[j]  PROVE i = j  OBVIOUS
  <2>1. i < j => K[r[i]] < K[r[j]]  BY DEF Sorts
  <2>2. j < i => K[r[j]] < K[r[i]]  BY DEF Sorts
  <2>3. r[i] \in S /\ K[r[i]] \in Nat  BY DEF Sorts
  <2> QED  BY <2>1, <2>2, <2>3
<1>2. r \in [1..n -> S]  BY DEF Sorts
<1>3. \A k \in 0..n : IsFiniteSet(1..k) /\ Cardinality(1..k) = k
  <2> TAKE k \in 0..n
  <2>1. 1 \in Int /\ k \in Int  OBVIOUS
  <2>2. Cardinality(1..k) = IF 1 > k THEN 0 ELSE k - 1 + 1  BY <2>1, FS_Interval
  <2> QED  BY <2>1, <2>2, FS_Interval
<1>4. \A k \in 0..n : /\ IsFiniteSet({r[j] : j \in 1..k})
                      /\ Cardinality({r[j] : j \in 1..k}) = k
  <2> TAKE k \in 0..n
  <2> DEFINE R == {r[j] : j \in 1..k}
             f == [j \in 1..k |-> r[j]]
  <2>1. f \in [1..k -> R] /\ \A a, b \in 1..k : f[a] = f[b] => a = b  BY <1>1
  <2>2. \A x \in R : \E j \in 1..k : f[j] = x  OBVIOUS
  <2>3. f \in Bijection(1..k, R)
    <3> HIDE DEF f, R
    <3> QED  BY <2>1, <2>2 DEF Bijection, Injection, IsInjective, Surjection
  <2>4. IsFiniteSet(1..k) /\ ExistsBijection(1..k, R)
    <3> HIDE DEF f, R
    <3> QED  BY <1>3, <2>3 DEF ExistsBijection
  <2>5. IsFiniteSet(R) /\ Cardinality(R) = Cardinality(1..k)
    <3> HIDE DEF f, R
    <3> QED  BY <2>4, FS_Bijection
  <2> QED  BY <1>3, <2>5
<1>5. S = {r[j] : j \in 1..n}  BY DEF Sorts
<1>6. ASSUME NEW i \in 1..n  PROVE Cardinality(Before(S, K, r[i])) = i - 1
  <2>1. Before(S, K, r[i]) = {r[j] : j \in 1..(i - 1)}
    <3>1. ASSUME NEW j \in 1..n  PROVE K[r[j]] < K[r[i]] <=> j < i
      <4>1. j < i => K[r[j]] < K[r[i]]  BY DEF Sorts
      <4>2. i < j => K[r[i]] < K[r[j]]  BY DEF Sorts
      <4>3. K[r[i]] \in Nat /\ K[r[j]] \in Nat  BY <1>2
      <4>4. i = j => K[r[i]] = K[r[j]]  OBVIOUS
      <4> QED  BY <4>1, <4>2, <4>3, <4>4
    <3>2. \A j \in 1..n : j < i <=> j \in 1..(i - 1)  OBVIOUS
    <3>3. \A j \in 1..(i - 1) : j \in 1..n  OBVIOUS
    <3> QED  BY <1>5, <3>1, <3>2, <3>3 DEF Before
  <2>2. i - 1 \in 0..n  OBVIOUS
  <2> QED  BY <1>4, <2>1, <2>2
<1>7. \A x, y \in S : K[x] = K[y] => x = y
  <2> SUFFICES ASSUME NEW x \in S, NEW y \in S, K[x] = K[y]  PROVE x = y  OBVIOUS
  <2>1. PICK i \in 1..n : r[i] = x  BY DEF Sorts
  <2>2. PICK j \in 1..n : r[j] = y  BY DEF Sorts
  <2>3. i < j => K[x] < K[y]  BY <2>1, <2>2 DEF Sorts
  <2>4. j < i => K[y] < K[x]  BY <2>1, <2>2 DEF Sorts
  <2>5. K[x] \in Nat /\ K[y] \in Nat  OBVIOUS
  <2>6. i = j  BY <2>3, <2>4, <2>5
  <2> QED  BY <2>1, <2>2, <2>6
<1>8. IsFiniteSet(S) /\ Cardinality(S) = n  BY <1>4, <1>5
<1> QED  BY <1>6, <1>7, <1>8

\* So there is one sorted sequence.
LEMMA SortedOnce ==
  ASSUME NEW S, NEW K \in [S -> Nat], NEW n \in Nat, NEW r, Sorts(r, n, S, K),
         NEW q, Sorts(q, Cardinality(S), S, K)
  PROVE  r = q
<1>1. /\ IsFiniteSet(S) /\ Cardinality(S) = n
      /\ \A x, y \in S : K[x] = K[y] => x = y
      /\ \A i \in 1..n : Cardinality(Before(S, K, r[i])) = i - 1
  BY SortsRank
<1>2. \A i \in 1..n : Cardinality(Before(S, K, q[i])) = i - 1  BY <1>1, SortsRank
<1>3. \A x, y \in S : Cardinality(Before(S, K, x)) = Cardinality(Before(S, K, y)) => x = y
  BY <1>1, Ranks
<1>4. r \in [1..n -> S] /\ q \in [1..n -> S]  BY <1>1 DEF Sorts
<1>5. \A i \in 1..n : r[i] = q[i]  BY <1>1, <1>2, <1>3, <1>4
<1> QED  BY <1>4, <1>5

-------------------------------------------------------------------------------
(***************************************************************************)
(* The rows of a table in the order of their offsets.                      *)
(***************************************************************************)
StartOf(C) == [c \in C |-> c.start_offset]

\* The offset behind the first k rows: what the code calls cursor.
EndOf(rows, k) == IF k = 0 THEN 0 ELSE rows[k].end_offset

\* ORDER BY start_offset sorts the table.
LEMMA OrderedSorts ==
  ASSUME NEW C, Table(C)
  PROVE  /\ StartOf(C) \in [C -> Nat]
         /\ Cardinality(C) \in Nat
         /\ Sorts(OrderedByStart(C), Cardinality(C), C, StartOf(C))
<1> DEFINE r == OrderedByStart(C)
           n == Cardinality(C)
           K == StartOf(C)
<1>1. K \in [C -> Nat] /\ \A x, y \in C : K[x] = K[y] => x = y
  BY DEF Table, ChunkRow, StartOf
<1>2. \A c \in C : RowsBefore(C, c.start_offset) = Before(C, K, c)
  BY DEF RowsBefore, Before, StartOf
<1>3. IsFiniteSet(C)  BY DEF Table
<1> HIDE DEF K
<1>4. /\ n \in Nat
      /\ \A i \in 1..n : \E x \in C : Cardinality(Before(C, K, x)) = i - 1
  BY <1>1, <1>3, Ranks
<1>5. \A i \in 1..n : r[i] \in C /\ Cardinality(RowsBefore(C, r[i].start_offset)) = i - 1
  <2> TAKE i \in 1..n
  <2>1. \E x \in C : Cardinality(RowsBefore(C, x.start_offset)) = i - 1  BY <1>2, <1>4
  <2>2. r[i] = CHOOSE c \in C : Cardinality(RowsBefore(C, c.start_offset)) = i - 1
    BY DEF OrderedByStart
  <2> HIDE DEF r
  <2> QED  BY <2>1, <2>2
<1>6. r \in [1..n -> C]
  <2>1. r = [i \in 1..n |-> r[i]]  BY DEF OrderedByStart
  <2> HIDE DEF r
  <2> QED  BY <1>5, <2>1
<1>7. \A i \in 1..n : Cardinality(Before(C, K, r[i])) = i - 1  BY <1>2, <1>5
<1>8. Sorts(r, n, C, K)
  <2> HIDE DEF r
  <2> QED  BY <1>1, <1>3, <1>6, <1>7, RankSorts
<1> QED  BY <1>1, <1>4, <1>8 DEF K

\* What is used of it.
LEMMA OrderedRows ==
  ASSUME NEW C, Table(C), NEW r, r = OrderedByStart(C), NEW n, n = Cardinality(C)
  PROVE  /\ n \in Nat /\ r \in [1..n -> C] /\ r \in Seq(C) /\ Len(r) = n
         /\ \A i, j \in 1..n : i < j => r[i].start_offset < r[j].start_offset
         /\ \A c \in C : \E i \in 1..n : r[i] = c
         /\ \A i \in 1..n : /\ r[i].start_offset \in Nat /\ r[i].end_offset \in Nat
                            /\ r[i].start_offset < r[i].end_offset
                            /\ r[i].data \in Seq(Byte)
<1>1. n \in Nat /\ r \in [1..n -> C]  BY OrderedSorts DEF Sorts
<1>2. \A i, j \in 1..n : i < j => r[i].start_offset < r[j].start_offset
  BY <1>1, OrderedSorts DEF Sorts, StartOf
<1>3. \A c \in C : \E i \in 1..n : r[i] = c  BY OrderedSorts DEF Sorts
<1>4. \A c \in C : /\ c.start_offset \in Nat /\ c.end_offset \in Nat
                   /\ c.start_offset < c.end_offset /\ c.data \in Seq(Byte)
  BY BlobIsSequence DEF Table, ChunkRow
<1>5. r \in Seq(C) /\ Len(r) = n  BY <1>1
<1> QED  BY <1>1, <1>2, <1>3, <1>4, <1>5

\* The cursor before a row is the end of the one before it.
LEMMA OrderedCursor ==
  ASSUME NEW C, Table(C), NEW r, r = OrderedByStart(C), NEW n, n = Cardinality(C)
  PROVE  /\ \A i \in 1..n : Cursor(RowsBefore(C, r[i].start_offset)) = EndOf(r, i - 1)
         /\ Cursor(C) = EndOf(r, n)
<1>1. /\ n \in Nat /\ r \in [1..n -> C]
      /\ \A i, j \in 1..n : i < j => r[i].start_offset < r[j].start_offset
      /\ \A c \in C : \E i \in 1..n : r[i] = c
      /\ \A i \in 1..n : r[i].start_offset \in Nat
  BY OrderedRows, SMTT(30)
<1>2. \A c, d \in C : c.start_offset = d.start_offset => c = d  BY DEF Table
<1>3. ASSUME NEW k \in 1..n, NEW D \in SUBSET C, \A c \in C : c \in D <=> \E j \in 1..k : r[j] = c
      PROVE  Cursor(D) = r[k].end_offset
  <2>1. r[k] \in D /\ \A d \in D : d.start_offset <= r[k].start_offset
    <3>1. r[k] \in D  BY <1>1, <1>3
    <3>2. ASSUME NEW d \in D  PROVE d.start_offset <= r[k].start_offset
      <4>1. PICK j \in 1..k : r[j] = d  BY <1>3
      <4>2. j \in 1..n  BY <1>1
      <4>3. j < k => r[j].start_offset < r[k].start_offset  BY <1>1, <4>2
      <4>4. r[j].start_offset \in Nat /\ r[k].start_offset \in Nat  BY <1>1, <4>2
      <4> QED  BY <4>1, <4>3, <4>4
    <3> QED  BY <3>1, <3>2
  <2> DEFINE last == CHOOSE c \in D : \A d \in D : d.start_offset <= c.start_offset
  <2>2. last \in D /\ \A d \in D : d.start_offset <= last.start_offset  BY <2>1
  <2>3. Cursor(D) = last.end_offset  BY <2>1 DEF Cursor
  <2> HIDE DEF last
  <2>4. last \in C /\ last.start_offset \in Nat /\ r[k].start_offset \in Nat  BY <1>1, <2>2
  <2>5. last.start_offset <= r[k].start_offset /\ r[k].start_offset <= last.start_offset
    BY <2>1, <2>2
  <2>6. last.start_offset = r[k].start_offset  BY <2>4, <2>5
  <2>7. last = r[k]  BY <1>1, <1>2, <2>4, <2>6
  <2> QED  BY <2>3, <2>7
<1>4. ASSUME NEW i \in 1..n  PROVE Cursor(RowsBefore(C, r[i].start_offset)) = EndOf(r, i - 1)
  <2> DEFINE D == RowsBefore(C, r[i].start_offset)
  <2>1. \A j \in 1..n : r[j] \in D <=> j < i
    <3> TAKE j \in 1..n
    <3>1. i < j => r[i].start_offset < r[j].start_offset  BY <1>1
    <3>2. j < i => r[j].start_offset < r[i].start_offset  BY <1>1
    <3>3. r[i].start_offset \in Nat /\ r[j].start_offset \in Nat /\ r[j] \in C  BY <1>1
    <3>4. r[j].start_offset < r[i].start_offset <=> j < i
      <4>1. i = j => r[i].start_offset = r[j].start_offset  OBVIOUS
      <4> QED  BY <3>1, <3>2, <3>3, <4>1
    <3> QED  BY <3>3, <3>4 DEF RowsBefore
  <2>2. D \in SUBSET C  BY DEF RowsBefore
  <2> HIDE DEF D
  <2>3. CASE i = 1
    <3>1. D = {}  BY <1>1, <2>1, <2>2, <2>3
    <3> QED  BY <3>1, <2>3 DEF Cursor, EndOf, D
  <2>4. CASE i # 1
    <3>1. i - 1 \in 1..n  BY <1>1, <2>4
    <3>2. \A c \in C : c \in D <=> \E j \in 1..(i - 1) : r[j] = c
      <4> TAKE c \in C
      <4>1. PICK j \in 1..n : r[j] = c  BY <1>1
      <4>2. c \in D => j \in 1..(i - 1)  BY <2>1, <4>1
      <4>3. \A k \in 1..(i - 1) : k \in 1..n /\ k < i  BY <1>1
      <4> QED  BY <2>1, <4>1, <4>2, <4>3
    <3>3. Cursor(D) = r[i - 1].end_offset  BY <1>3, <2>2, <3>1, <3>2
    <3> QED  BY <3>1, <3>3 DEF EndOf, D
  <2> QED  BY <2>3, <2>4
<1>5. Cursor(C) = EndOf(r, n)
  <2>1. CASE n = 0  BY <1>1, <2>1 DEF Cursor, EndOf
  <2>2. CASE n # 0
    <3>1. n \in 1..n  BY <1>1, <2>2
    <3> QED  BY <1>1, <1>3, <3>1 DEF EndOf
  <2> QED  BY <2>1, <2>2
<1> QED  BY <1>4, <1>5

\* A contiguous table, row by row.
LEMMA ContiguousRows ==
  ASSUME NEW C, Table(C), NEW r, r = OrderedByStart(C), NEW n, n = Cardinality(C)
  PROVE  Contiguous(C) <=> \A i \in 1..n : r[i].start_offset = EndOf(r, i - 1)
<1>1. /\ r \in [1..n -> C] /\ \A c \in C : \E i \in 1..n : r[i] = c
      /\ \A i \in 1..n : Cursor(RowsBefore(C, r[i].start_offset)) = EndOf(r, i - 1)
  BY OrderedRows, OrderedCursor
<1> QED  BY <1>1 DEF Contiguous

\* The rows of a contiguous table do not overlap and leave nothing out.
LEMMA ContiguousCovers ==
  ASSUME NEW C, Table(C), Contiguous(C)
  PROVE  /\ Disjoint(C)
         /\ Cursor(C) \in Nat
         /\ \A c \in C : c.end_offset <= Cursor(C)
         /\ \A o \in 0..(Cursor(C) - 1) : \E c \in C : Covers(c, o)
<1> DEFINE r == OrderedByStart(C)
           n == Cardinality(C)
<1>1. /\ n \in Nat /\ r \in [1..n -> C]
      /\ \A i, j \in 1..n : i < j => r[i].start_offset < r[j].start_offset
      /\ \A c \in C : \E i \in 1..n : r[i] = c
      /\ \A i \in 1..n : /\ r[i].start_offset \in Nat /\ r[i].end_offset \in Nat
                         /\ r[i].start_offset < r[i].end_offset
  BY OrderedRows
<1>2. \A i \in 1..n : r[i].start_offset = EndOf(r, i - 1)  BY ContiguousRows
<1>3. Cursor(C) = EndOf(r, n)  BY OrderedCursor
<1> HIDE DEF r, n
<1>4. ASSUME NEW i \in 1..n, NEW j \in 1..n, i < j
      PROVE  r[i].end_offset <= r[j].start_offset
  <2>1. i + 1 \in 1..n /\ (i + 1) - 1 = i /\ i # 0  BY <1>1, <1>4
  <2>2. r[i + 1].start_offset = r[i].end_offset  BY <1>2, <2>1 DEF EndOf
  <2>3. i + 1 = j \/ r[i + 1].start_offset < r[j].start_offset  BY <1>1, <1>4, <2>1
  <2> QED  BY <1>1, <2>1, <2>2, <2>3
<1>5. ASSUME NEW c \in C, NEW d \in C, c # d
      PROVE  c.end_offset <= d.start_offset \/ d.end_offset <= c.start_offset
  <2>1. PICK i \in 1..n : r[i] = c  BY <1>1
  <2>2. PICK j \in 1..n : r[j] = d  BY <1>1
  <2>3. i < j \/ j < i  BY <1>1, <1>5, <2>1, <2>2
  <2> QED  BY <1>4, <2>1, <2>2, <2>3
<1>6. Cursor(C) \in Nat  BY <1>1, <1>3 DEF EndOf
<1>7. ASSUME NEW o \in 0..(Cursor(C) - 1)  PROVE \E c \in C : Covers(c, o)
  <2> DEFINE T == {i \in 1..n : o < r[i].end_offset}
  <2>1. n # 0 /\ n \in T  BY <1>1, <1>3, <1>6, <1>7 DEF EndOf
  <2>2. T \subseteq Nat /\ T # {}  BY <1>1, <2>1
  <2>3. PICK i \in T : \A j \in T : i <= j
    <3> HIDE DEF T
    <3> QED  BY <2>2, LeastNatural
  <2>4. r[i].start_offset <= o
    <3>1. CASE i = 1
      <4>1. r[i].start_offset = 0  BY <1>2, <3>1 DEF EndOf
      <4> QED  BY <4>1
    <3>2. CASE i # 1
      <4>1. i - 1 \in 1..n /\ i - 1 # 0 /\ i - 1 \notin T  BY <1>1, <2>3, <3>2
      <4>2. r[i].start_offset = r[i - 1].end_offset  BY <1>2, <4>1 DEF EndOf
      <4> QED  BY <1>1, <4>1, <4>2
    <3> QED  BY <3>1, <3>2
  <2>5. r[i] \in C /\ o < r[i].end_offset  BY <1>1, <2>3
  <2> QED  BY <2>4, <2>5 DEF Covers
<1>8. ASSUME NEW c \in C  PROVE c.end_offset <= Cursor(C)
  <2>1. PICK i \in 1..n : r[i] = c  BY <1>1
  <2>2. n \in 1..n /\ n # 0 /\ Cursor(C) = r[n].end_offset  BY <1>1, <1>3 DEF EndOf
  <2>3. i = n \/ r[i].end_offset <= r[n].start_offset
    <3>1. i = n \/ i < n  BY <1>1
    <3> QED  BY <1>4, <2>2, <3>1
  <2> QED  BY <1>1, <2>1, <2>2, <2>3
<1> QED  BY <1>5, <1>6, <1>7, <1>8 DEF Disjoint

\* The bytes of a row extend those before it.
LEMMA WholeExtends ==
  ASSUME NEW C, Table(C),
         Disjoint(C), NEW c \in C, Len(c.data) = c.end_offset - c.start_offset
  PROVE  /\ Whole(C, c.start_offset) \o c.data = Whole(C, c.end_offset)
         /\ \A o \in c.start_offset..(c.end_offset - 1) :
              ByteAt(C, o) = c.data[o - c.start_offset + 1] /\ ByteAt(C, o) \in Byte
<1> DEFINE s == c.start_offset
           e == c.end_offset
<1>1. /\ \A d \in C : /\ d.start_offset \in Nat /\ d.end_offset \in Nat
                      /\ d.start_offset < d.end_offset
      /\ c.data \in Seq(Byte)
  BY BlobIsSequence DEF Table, ChunkRow
<1>2. ASSUME NEW o \in s..(e - 1)
      PROVE  ByteAt(C, o) = c.data[o - s + 1] /\ ByteAt(C, o) \in Byte
  <2>1. Covers(c, o) /\ o \in Nat  BY <1>1 DEF Covers
  <2>2. \A d \in C : Covers(d, o) => d = c  BY <1>1, <2>1 DEF Covers, Disjoint
  <2>3. ByteAt(C, o) = c.data[o - s + 1]  BY <2>1, <2>2 DEF ByteAt
  <2>4. o - s + 1 \in 1..Len(c.data)  BY <1>1
  <2> QED  BY <1>1, <2>3, <2>4
<1>3. Whole(C, s) = [i \in 1..s |-> ByteAt(C, i - 1)] /\ Whole(C, e) = [i \in 1..e |-> ByteAt(C, i - 1)]
  <2>1. s \in Nat /\ e \in Nat  BY <1>1
  <2>2. \A i \in Nat : 0 + i - 1 = i - 1  OBVIOUS
  <2> QED  BY <2>1, <2>2 DEF Whole, BytesOf
<1>4. Len(Whole(C, s)) = s  BY <1>1, <1>3
<1>5. Whole(C, s) \o c.data = [i \in 1..(s + Len(c.data)) |->
                                 IF i <= s THEN Whole(C, s)[i] ELSE c.data[i - s]]
  <2> DEFINE x == Whole(C, s)
             y == c.data
             T == Byte \cup {ByteAt(C, i - 1) : i \in 1..s}
  <2>1. Len(x) = s /\ Len(y) = e - s  BY <1>4
  <2>3. x \in Seq(T) /\ y \in Seq(T)
    <3>1. x \in [1..s -> T] /\ s \in Nat  BY <1>1, <1>3
    <3>2. y \in Seq(Byte)  BY <1>1
    <3> HIDE DEF x, y
    <3> QED  BY <3>1, <3>2
  <2>2. x \o y = [i \in 1..(Len(x) + Len(y)) |->
                    IF i <= Len(x) THEN x[i] ELSE y[i - Len(x)]]
    <3> HIDE DEF x, y, T
    <3> DEFINE z == x \o y
    <3>1. /\ z \in Seq(T) /\ Len(z) = Len(x) + Len(y)
          /\ \A i \in 1..Len(z) : z[i] = IF i <= Len(x) THEN x[i] ELSE y[i - Len(x)]
      BY <2>3
    <3>2. z = [i \in 1..Len(z) |-> z[i]]
      <4> HIDE DEF z
      <4> QED  BY <3>1
    <3> QED  BY <3>1, <3>2
  <2> QED  BY <2>1, <2>2
<1>6. ASSUME NEW i \in 1..e
      PROVE  (IF i <= s THEN Whole(C, s)[i] ELSE c.data[i - s]) = ByteAt(C, i - 1)
  <2>1. CASE i <= s
    <3>1. i \in 1..s  BY <2>1, <1>1
    <3> QED  BY <2>1, <3>1, <1>3
  <2>2. CASE ~(i <= s)
    <3>1. i - 1 \in s..(e - 1) /\ (i - 1) - s + 1 = i - s  BY <1>1, <2>2
    <3> QED  BY <2>2, <3>1, <1>2
  <2> QED  BY <2>1, <2>2
<1>7. s + Len(c.data) = e  BY <1>1
<1> QED  BY <1>2, <1>3, <1>5, <1>6, <1>7

-------------------------------------------------------------------------------
(***************************************************************************)
(* The loops, step by step: `at[k]` is the accumulator behind row k.       *)
(***************************************************************************)
\* The indices up to k.
LEMMA UpTo ==
  ASSUME NEW k \in Nat, k # 0
  PROVE  1..k # {} /\ Max(1..k) = k /\ (1..k) \ {k} = 1..(k - 1)
<1>1. k \in 1..k /\ (1..k) \in SUBSET (1..k)  OBVIOUS
<1>2. Max(1..k) \in 1..k /\ \A j \in 1..k : j <= Max(1..k)  BY <1>1, MaxOfIndices
<1> QED  BY <1>1, <1>2

\* Any function of sets of indices that goes on with F, and what it computes, row by
\* row.
FoldsWith(it, n, Acc, base, F) ==
  /\ it[{}] = base
  /\ \A s \in SUBSET (1..n) :
       s # {} /\ it[s \ {Max(s)}] \in Acc => it[s] = F[<<Max(s), it[s \ {Max(s)}]>>]

Steps(at, it, n, Acc, base, F) ==
  /\ at \in [0..n -> Acc] /\ at[0] = base /\ at[n] = it[1..n]
  /\ \A k \in 1..n : at[k] = F[<<k, at[k - 1]>>]

\* What it computes, index by index.
LEMMA FoldSteps ==
  ASSUME NEW n \in Nat, NEW Acc, NEW base \in Acc, NEW F \in [(1..n) \X Acc -> Acc],
         NEW it, FoldsWith(it, n, Acc, base, F)
  PROVE  \E at : Steps(at, it, n, Acc, base, F)
<1> DEFINE at == [k \in 0..n |-> it[1..k]]
<1>1. at[0] = base
  <2>1. 1..0 = {} /\ 0 \in 0..n  OBVIOUS
  <2> QED  BY <2>1 DEF FoldsWith
<1>2. ASSUME NEW k \in 1..n, at[k - 1] \in Acc
      PROVE  at[k] = F[<<k, at[k - 1]>>] /\ at[k] \in Acc
  <2>1. k \in Nat /\ k # 0 /\ k \in 0..n /\ k - 1 \in 0..n /\ (1..k) \in SUBSET (1..n)
    OBVIOUS
  <2>2. 1..k # {} /\ Max(1..k) = k /\ (1..k) \ {k} = 1..(k - 1)  BY <2>1, UpTo
  <2>3. at[k] = it[1..k] /\ at[k - 1] = it[1..(k - 1)]  BY <2>1
  <2>4. at[k] = F[<<k, at[k - 1]>>]
    <3> HIDE DEF at
    <3> QED  BY <1>2, <2>1, <2>2, <2>3 DEF FoldsWith
  <2> QED  BY <1>2, <2>4
<1>3. \A k \in 0..n : at[k] \in Acc
  <2> DEFINE T == {k \in 0..n : at[k] \in Acc}
  <2>1. 0 \in T  BY <1>1
  <2>2. ASSUME NEW k \in 0..(n - 1), k \in T  PROVE k + 1 \in T
    <3>1. k + 1 \in 1..n /\ k + 1 \in 0..n /\ (k + 1) - 1 = k  OBVIOUS
    <3> HIDE DEF at
    <3> QED  BY <1>2, <2>2, <3>1
  <2> HIDE DEF T
  <2>3. 0..n \subseteq T  BY <2>1, <2>2, CountingUp
  <2> QED  BY <2>3 DEF T
<1>4. at \in [0..n -> Acc]  BY <1>3
<1>5. it[1..n] = at[n]
  <2>1. n \in 0..n  OBVIOUS
  <2> QED  BY <2>1
<1>6. \A k \in 1..n : at[k] = F[<<k, at[k - 1]>>]
  <2>1. \A k \in 1..n : k - 1 \in 0..n  OBVIOUS
  <2> HIDE DEF at
  <2> QED  BY <1>2, <1>3, <2>1
<1> HIDE DEF at
<1> QED  BY <1>1, <1>4, <1>5, <1>6 DEF Steps

Walks == [cursor : Nat, hashed : Seq(Byte), broken : BOOLEAN]

\* _verify_and_finalize, row by row.
LEMMA WalkSteps ==
  ASSUME NEW C, Table(C), NEW r, r = OrderedByStart(C), NEW n, n = Cardinality(C)
  PROVE  \E at \in [0..n -> Walks] :
           /\ at[0] = [cursor |-> 0, hashed |-> <<>>, broken |-> FALSE]
           /\ \A k \in 1..n : at[k] = HashRow(at[k - 1], r[k])
           /\ WalkRows(C) = at[n]
<1> DEFINE base == [cursor |-> 0, hashed |-> <<>>, broken |-> FALSE]
           F == [p \in (1..n) \X Walks |-> HashRow(p[2], r[p[1]])]
           Next1(f, s) == IF s = {} THEN base ELSE HashRow(f[s \ {Max(s)}], r[Max(s)])
           it == CHOOSE f : f = [s \in SUBSET (1..n) |-> Next1(f, s)]
<1>1. /\ n \in Nat /\ r \in [1..n -> C] /\ Len(r) = n
      /\ \A i \in 1..n : r[i].end_offset \in Nat /\ r[i].data \in Seq(Byte)
  BY OrderedRows
<1>2. base \in Walks  BY DEF Walks
<1>3. \A k \in 1..n, a \in Walks : HashRow(a, r[k]) \in Walks
  <2> TAKE k \in 1..n, a \in Walks
  <2>1. a.hashed \o r[k].data \in Seq(Byte)  BY <1>1 DEF Walks
  <2> QED  BY <1>1, <2>1 DEF HashRow, Walks
<1>4. F \in [(1..n) \X Walks -> Walks]  BY <1>3
<1>5. PICK f : Folded(f, n, Walks, base, F)
  <2> HIDE DEF F, base
  <2> QED  BY <1>1, <1>2, <1>4, FoldExists
<1>6. f = [s \in SUBSET (1..n) |-> Next1(f, s)]
  <2>1. ASSUME NEW s \in SUBSET (1..n)  PROVE f[s] = Next1(f, s)
    <3>1. CASE s = {}  BY <1>5, <3>1 DEF Folded
    <3>2. CASE s # {}
      <4>1. Max(s) \in 1..n  BY <1>1, <3>2, MaxOfIndices
      <4>2. s \ {Max(s)} \in SUBSET (1..n)  OBVIOUS
      <4>3. f[s \ {Max(s)}] \in Walks  BY <1>5, <4>2 DEF Folded
      <4>4. F[<<Max(s), f[s \ {Max(s)}]>>] = HashRow(f[s \ {Max(s)}], r[Max(s)])
        BY <4>1, <4>3
      <4> QED  BY <1>5, <3>2, <4>4 DEF Folded
    <3> QED  BY <3>1, <3>2
  <2> HIDE DEF Next1
  <2> QED  BY <1>5, <2>1 DEF Folded
<1>7. it = [s \in SUBSET (1..n) |-> Next1(it, s)]
  <2> HIDE DEF Next1
  <2> QED  BY <1>6
<1>8. WalkRows(C) = it[1..n]
  <2>1. DOMAIN r = 1..n  BY <1>1
  <2> QED  BY <2>1 DEF WalkRows, FoldLeft, MapThenFoldSet
<1> HIDE DEF it
<1>9. FoldsWith(it, n, Walks, base, F)
  <2>1. \A s \in SUBSET (1..n) : s # {} => Max(s) \in 1..n  BY <1>1, MaxOfIndices
  <2>2. it[{}] = base  BY <1>7
  <2>3. \A s \in SUBSET (1..n) : s # {} => it[s] = HashRow(it[s \ {Max(s)}], r[Max(s)])
    BY <1>7
  <2> QED  BY <2>1, <2>2, <2>3 DEF FoldsWith
<1>10. PICK at : Steps(at, it, n, Walks, base, F)
  <2> HIDE DEF F, base
  <2> QED  BY <1>1, <1>2, <1>4, <1>9, FoldSteps
<1>11. \A k \in 1..n : at[k] = HashRow(at[k - 1], r[k])
  <2>1. \A k \in 1..n : k - 1 \in 0..n  BY <1>1
  <2> QED  BY <1>10, <2>1 DEF Steps
<1> QED  BY <1>8, <1>10, <1>11 DEF Steps

\* The loop over a contiguous table of the declared lengths gathers its bytes.
LEMMA WalkContiguous ==
  ASSUME NEW C, Table(C), Contiguous(C), \A c \in C : Len(c.data) = c.end_offset - c.start_offset
  PROVE  /\ ~WalkRows(C).broken
         /\ WalkRows(C).cursor = Cursor(C)
         /\ WalkRows(C).hashed = Whole(C, Cursor(C))
<1> DEFINE r == OrderedByStart(C)
           n == Cardinality(C)
<1>1. /\ n \in Nat /\ r \in [1..n -> C]
      /\ \A i \in 1..n : r[i].start_offset \in Nat /\ r[i].end_offset \in Nat
  BY OrderedRows
<1>2. \A i \in 1..n : r[i].start_offset = EndOf(r, i - 1)  BY ContiguousRows
<1>3. Cursor(C) = EndOf(r, n)  BY OrderedCursor
<1>4. PICK at \in [0..n -> Walks] :
           /\ at[0] = [cursor |-> 0, hashed |-> <<>>, broken |-> FALSE]
           /\ \A k \in 1..n : at[k] = HashRow(at[k - 1], r[k])
           /\ WalkRows(C) = at[n]
  BY WalkSteps
<1>5. \A i \in 1..n : Whole(C, r[i].start_offset) \o r[i].data = Whole(C, r[i].end_offset)
  BY <1>1, ContiguousCovers, WholeExtends
<1> HIDE DEF r, n
<1> DEFINE Good(k) == /\ ~at[k].broken /\ at[k].cursor = EndOf(r, k)
                      /\ at[k].hashed = Whole(C, EndOf(r, k))
           T == {k \in 0..n : Good(k)}
<1>6. 0 \in T
  <2>1. Whole(C, 0) = <<>>  BY NothingTiled
  <2> QED  BY <1>1, <1>4, <2>1 DEF EndOf
<1>7. ASSUME NEW k \in 0..(n - 1), k \in T  PROVE k + 1 \in T
  <2>1. k + 1 \in 1..n /\ (k + 1) - 1 = k /\ k + 1 \in 0..n /\ k + 1 # 0 /\ k \in 0..n
    BY <1>1
  <2>2. at[k + 1] = HashRow(at[k], r[k + 1]) /\ at[k] \in Walks  BY <1>4, <2>1
  <2>3. r[k + 1].start_offset = EndOf(r, k) /\ EndOf(r, k + 1) = r[k + 1].end_offset
    BY <1>2, <2>1 DEF EndOf
  <2>4. Whole(C, EndOf(r, k)) \o r[k + 1].data = Whole(C, EndOf(r, k + 1))
    BY <1>5, <2>1, <2>3
  <2>5. ~at[k].broken /\ r[k + 1].start_offset = at[k].cursor  BY <1>7, <2>3
  <2>6. /\ ~at[k + 1].broken /\ at[k + 1].cursor = r[k + 1].end_offset
        /\ at[k + 1].hashed = at[k].hashed \o r[k + 1].data
    BY <2>2, <2>5 DEF HashRow, Walks
  <2>7. Good(k + 1)  BY <1>7, <2>3, <2>4, <2>6
  <2> QED  BY <2>1, <2>7
<1>8. Good(n)
  <2> HIDE DEF T
  <2>1. 0..n \subseteq T  BY <1>1, <1>6, <1>7, CountingUp
  <2> QED  BY <1>1, <2>1 DEF T
<1> QED  BY <1>3, <1>4, <1>8

\* And stops in a table that is not contiguous.
LEMMA WalkBroken ==
  ASSUME NEW C, Table(C), ~Contiguous(C)
  PROVE  WalkRows(C).broken
<1> DEFINE r == OrderedByStart(C)
           n == Cardinality(C)
<1>1. n \in Nat  BY OrderedRows
<1>2. PICK at \in [0..n -> Walks] :
           /\ at[0] = [cursor |-> 0, hashed |-> <<>>, broken |-> FALSE]
           /\ \A k \in 1..n : at[k] = HashRow(at[k - 1], r[k])
           /\ WalkRows(C) = at[n]
  BY WalkSteps
<1>3. PICK i \in 1..n : r[i].start_offset # EndOf(r, i - 1)  BY ContiguousRows
<1> HIDE DEF r, n
<1> DEFINE Good(k) == at[k].broken \/ (k < i /\ at[k].cursor = EndOf(r, k))
           T == {k \in 0..n : Good(k)}
<1>4. 0 \in T  BY <1>1, <1>2, <1>3 DEF EndOf
<1>5. ASSUME NEW k \in 0..(n - 1), k \in T  PROVE k + 1 \in T
  <2>1. k + 1 \in 1..n /\ (k + 1) - 1 = k /\ k + 1 \in 0..n /\ k + 1 # 0  BY <1>1
  <2>2. at[k + 1] = HashRow(at[k], r[k + 1]) /\ at[k] \in Walks
    <3>1. k \in 0..n  BY <1>1
    <3> QED  BY <1>2, <2>1, <3>1
  <2>3. at[k].broken \/ r[k + 1].start_offset # at[k].cursor => at[k + 1].broken
    BY <2>2 DEF HashRow, Walks
  <2>4. ~at[k].broken /\ r[k + 1].start_offset = at[k].cursor =>
          at[k + 1].cursor = r[k + 1].end_offset
    BY <2>2 DEF HashRow, Walks
  <2>5. k + 1 = i /\ ~at[k].broken => r[k + 1].start_offset # at[k].cursor
    BY <1>3, <1>5, <2>1
  <2>6. k + 1 < i \/ k + 1 = i \/ ~(k < i)  BY <1>1, <2>1
  <2>7. Good(k + 1)  BY <1>5, <2>1, <2>3, <2>4, <2>5, <2>6 DEF EndOf
  <2> QED  BY <2>1, <2>7
<1>6. Good(n)
  <2> HIDE DEF T
  <2>1. 0..n \subseteq T  BY <1>1, <1>4, <1>5, CountingUp
  <2> QED  BY <1>1, <2>1 DEF T
<1>7. ~(n < i)  BY <1>1, <1>3
<1> QED  BY <1>2, <1>6, <1>7

\* The digest that finalization computes is that of ComputedDigest, for every table
\* of rows of the declared lengths, with gaps and overlaps, and every length.
THEOREM FinalizeComputesDigest ==
  ASSUME NEW C, Table(C), \A c \in C : Len(c.data) = c.end_offset - c.start_offset, NEW total
  PROVE  FinalizeLoop(C, total) = ComputedDigest(C, total)
<1>1. CASE Contiguous(C)
  <2>1. /\ ~WalkRows(C).broken /\ WalkRows(C).cursor = Cursor(C)
        /\ WalkRows(C).hashed = Whole(C, Cursor(C))
    BY <1>1, WalkContiguous
  <2> QED  BY <1>1, <2>1 DEF FinalizeLoop, ComputedDigest, Complete
<1>2. CASE ~Contiguous(C)
  <2>1. WalkRows(C).broken  BY <1>2, WalkBroken
  <2> QED  BY <1>2, <2>1 DEF FinalizeLoop, ComputedDigest, Complete
<1> QED  BY <1>1, <1>2

-------------------------------------------------------------------------------
(***************************************************************************)
(* Slices of rows and of archives.                                         *)
(***************************************************************************)
\* The ends of a window: max and min of two offsets.
LEMMA MaxOfTwo ==
  ASSUME NEW a \in Nat, NEW b \in Nat
  PROVE  /\ Max({a, b}) \in {a, b} /\ a <= Max({a, b}) /\ b <= Max({a, b})
         /\ Min({a, b}) \in {a, b} /\ Min({a, b}) <= a /\ Min({a, b}) <= b
<1>1. Max({a, b}) \in {a, b} /\ a <= Max({a, b}) /\ b <= Max({a, b})
  <2>1. CASE a <= b  BY <2>1 DEF Max
  <2>2. CASE b <= a  BY <2>2 DEF Max
  <2> QED  BY <2>1, <2>2
<1> QED  BY <1>1, MinOfTwo

\* An empty range has no bytes.
LEMMA BytesOfNothing ==
  ASSUME NEW C, NEW a \in Nat, NEW b \in Nat, b <= a
  PROVE  BytesOf(C, a, b) = <<>>
<1>1. 1..(b - a) = {}  OBVIOUS
<1>2. BytesOf(C, a, b) = [i \in {} |-> ByteAt(C, a + i - 1)]  BY <1>1 DEF BytesOf
<1> QED  BY <1>2

\* Adjacent slices of an archive join.
LEMMA BytesJoin ==
  ASSUME NEW C, NEW a \in Nat, NEW b \in Nat, NEW c \in Nat, a <= b, b <= c
  PROVE  BytesOf(C, a, b) \o BytesOf(C, b, c) = BytesOf(C, a, c)
<1> DEFINE x == BytesOf(C, a, b)
           y == BytesOf(C, b, c)
           z == x \o y
           T == {ByteAt(C, o) : o \in a..c}
<1>1. x = [i \in 1..(b - a) |-> ByteAt(C, a + i - 1)] /\ y = [i \in 1..(c - b) |-> ByteAt(C, b + i - 1)]
  BY DEF BytesOf
<1>2. x \in [1..(b - a) -> T] /\ y \in [1..(c - b) -> T]
  <2>1. /\ \A i \in 1..(b - a) : a + i - 1 \in a..c
        /\ \A i \in 1..(c - b) : b + i - 1 \in a..c
    OBVIOUS
  <2>2. /\ \A i \in 1..(b - a) : ByteAt(C, a + i - 1) \in T
        /\ \A i \in 1..(c - b) : ByteAt(C, b + i - 1) \in T
    BY <2>1
  <2> HIDE DEF T
  <2> QED  BY <1>1, <2>2
<1>3. b - a \in Nat /\ c - b \in Nat  OBVIOUS
<1>4. /\ x \in Seq(T) /\ y \in Seq(T) /\ Len(x) = b - a /\ Len(y) = c - b
  <2> HIDE DEF x, y, T
  <2> QED  BY <1>2, <1>3
<1>5. /\ z \in Seq(T) /\ Len(z) = c - a
      /\ \A i \in 1..Len(z) : z[i] = IF i <= Len(x) THEN x[i] ELSE y[i - Len(x)]
  <2> HIDE DEF x, y, T
  <2> QED  BY <1>4
<1>6. z = [i \in 1..(c - a) |-> z[i]]
  <2> HIDE DEF z
  <2> QED  BY <1>5
<1>7. \A i \in 1..(c - a) : z[i] = ByteAt(C, a + i - 1)
  <2> TAKE i \in 1..(c - a)
  <2> HIDE DEF x, y, z
  <2>1. CASE i <= b - a
    <3>1. i \in 1..(b - a) /\ z[i] = x[i]  BY <1>4, <1>5, <2>1
    <3> QED  BY <1>1, <3>1
  <2>2. CASE ~(i <= b - a)
    <3>1. i - (b - a) \in 1..(c - b) /\ z[i] = y[i - (b - a)]  BY <1>4, <1>5, <2>2
    <3>2. b + (i - (b - a)) - 1 = a + i - 1  OBVIOUS
    <3> QED  BY <1>1, <3>1, <3>2
  <2> QED  BY <2>1, <2>2
<1>8. BytesOf(C, a, c) = [i \in 1..(c - a) |-> ByteAt(C, a + i - 1)]  BY DEF BytesOf
<1>9. z = BytesOf(C, a, c)
  <2> HIDE DEF z
  <2> QED  BY <1>6, <1>7, <1>8
<1> QED  BY <1>9

\* data[a - start:b - start] of a row are the archived bytes of [a, b).
LEMMA SliceOfRow ==
  ASSUME NEW C, Table(C),
         Disjoint(C), NEW c \in C, Len(c.data) = c.end_offset - c.start_offset,
         NEW a \in Nat, NEW b \in Nat, c.start_offset <= a, a <= b, b <= c.end_offset
  PROVE  Slice(c, a - c.start_offset, b - c.start_offset) = BytesOf(C, a, b)
<1> DEFINE s == c.start_offset
           e == c.end_offset
<1>1. /\ s \in Nat /\ e \in Nat /\ c.data \in Seq(Byte)
  BY BlobIsSequence DEF Table, ChunkRow
<1>2. \A o \in s..(e - 1) : ByteAt(C, o) = c.data[o - s + 1]  BY WholeExtends
<1>3. Slice(c, a - s, b - s) = [i \in 1..(b - a) |-> c.data[(a - s) + i]]
  <2> DEFINE x == c.data
  <2>1. x \in Seq(Byte) /\ a - s \in Nat /\ b - s \in Nat  BY <1>1
  <2>2. (b - s) - ((a - s) + 1) + 1 = b - a  BY <1>1
  <2>3. SubSeq(x, (a - s) + 1, b - s) = [i \in 1..((b - s) - ((a - s) + 1) + 1) |-> x[(a - s) + i]]
    <3> HIDE DEF x
    <3>1. \A m, n \in Int : SubSeq(x, m, n) = [i \in 1..(n - m + 1) |-> x[m + i - 1]]
      BY <2>1
    <3> DEFINE m == (a - s) + 1
               n == b - s
    <3>2. m \in Int /\ n \in Int  BY <1>1
    <3> HIDE DEF m, n
    <3>3. SubSeq(x, m, n) = [i \in 1..(n - m + 1) |-> x[m + i - 1]]  BY <3>1, <3>2
    <3>4. \A i \in 1..(n - m + 1) : m + i - 1 = (a - s) + i  BY <1>1 DEF m
    <3>5. [i \in 1..(n - m + 1) |-> x[m + i - 1]] = [i \in 1..(n - m + 1) |-> x[(a - s) + i]]
      BY <3>4
    <3> QED  BY <3>3, <3>5 DEF m, n
  <2> QED  BY <2>2, <2>3 DEF Slice
<1>4. \A i \in 1..(b - a) : c.data[(a - s) + i] = ByteAt(C, a + i - 1)
  <2> TAKE i \in 1..(b - a)
  <2>1. a + i - 1 \in s..(e - 1) /\ (a + i - 1) - s + 1 = (a - s) + i  BY <1>1
  <2> QED  BY <1>2, <2>1
<1> QED  BY <1>3, <1>4 DEF BytesOf

\* A slice of the whole.
LEMMA BytesOfWhole ==
  ASSUME NEW C, NEW n \in 0..MaxBytes, Tiles(C, n), NEW a \in Nat, NEW b \in Nat, a <= b, b <= n
  PROVE  BytesOf(C, a, b) = SubSeq(Whole(C, n), a + 1, b)
<1> DEFINE w == Whole(C, n)
<1>1. w \in Blobs /\ Len(w) = n /\ \A i \in 1..n : w[i] = ByteAt(C, i - 1)
  <2>1. n \in 0..n  BY MaxBytesAssumption
  <2> QED  BY <2>1, WholeIsBlob
<1> HIDE DEF w
<1>2. SubSeq(w, a + 1, b) = [i \in 1..(b - a) |-> w[a + i]]
  <2>1. /\ SubSeq(w, a + 1, b) \in Blobs /\ Len(SubSeq(w, a + 1, b)) = b - a
        /\ \A i \in 1..(b - a) : SubSeq(w, a + 1, b)[i] = w[a + i]
    BY <1>1, SliceIsBlob
  <2> DEFINE y == SubSeq(w, a + 1, b)
  <2>2. y \in [1..(b - a) -> Byte]  BY <2>1, BlobIsSequence
  <2> HIDE DEF y
  <2>3. y = [i \in 1..(b - a) |-> y[i]]  BY <2>2
  <2> QED  BY <2>1, <2>3 DEF y
<1>3. \A i \in 1..(b - a) : w[a + i] = ByteAt(C, a + i - 1)
  <2> TAKE i \in 1..(b - a)
  <2>1. a + i \in 1..n  BY MaxBytesAssumption
  <2> QED  BY <1>1, <2>1
<1> QED  BY <1>2, <1>3 DEF BytesOf, w

-------------------------------------------------------------------------------
(***************************************************************************)
(* verified_sealed_bytes.                                                  *)
(***************************************************************************)
Reads == [cursor : Nat, hashed : Seq(Byte), damaged : BOOLEAN, out : Seq(Byte)]

\* One row of verified_sealed_bytes keeps the accumulator well typed.
LEMMA VerifyRowType ==
  ASSUME NEW a \in Reads, NEW c, c.start_offset \in Nat, c.end_offset \in Nat,
         c.start_offset < c.end_offset, c.data \in Seq(Byte),
         NEW begin \in Nat, NEW end \in Nat, begin <= end
  PROVE  VerifyRow(a, c, begin, end) \in Reads
<1> DEFINE s == c.start_offset
           e == c.end_offset
           lo == Max({begin, s})
           hi == Min({end, e})
           slice == Slice(c, lo - s, hi - s)
<1>1. a.hashed \o c.data \in Seq(Byte)  BY DEF Reads
<1>2. lo \in Nat /\ hi \in Nat /\ s <= lo /\ hi <= e
  <2>1. lo \in {begin, s} /\ s <= lo /\ hi \in {end, e} /\ hi <= e  BY MaxOfTwo
  <2> QED  BY <2>1
<1>3. Len(c.data) = e - s => slice \in Seq(Byte)
  <2> SUFFICES ASSUME Len(c.data) = e - s  PROVE slice \in Seq(Byte)  OBVIOUS
  <2> DEFINE x == c.data
             m == (lo - s) + 1
             n == hi - s
  <2>1. x \in Seq(Byte) /\ m \in Int /\ n \in Int /\ 1 <= m /\ n <= Len(x)  BY <1>2
  <2>2. SubSeq(x, m, n) \in Seq(Byte)
    <3> HIDE DEF x, m, n
    <3> QED  BY <2>1
  <2> QED  BY <2>2 DEF Slice
<1>4. Len(c.data) = e - s => a.out \o slice \in Seq(Byte)
  <2> HIDE DEF slice
  <2> QED  BY <1>3 DEF Reads
<1>5. [a EXCEPT !.damaged = TRUE] \in Reads  BY DEF Reads
<1>6. VerifyRow(a, c, begin, end) =
        IF \/ a.damaged \/ s # a.cursor \/ Len(c.data) # e - s \/ Sha256(c.data) # c.sha256
        THEN [a EXCEPT !.damaged = TRUE]
        ELSE [cursor |-> e, hashed |-> a.hashed \o c.data, damaged |-> FALSE,
              out |-> IF InWindow(c, begin, end) THEN a.out \o slice ELSE a.out]
  BY DEF VerifyRow
<1> HIDE DEF slice
<1> QED  BY <1>1, <1>4, <1>5, <1>6 DEF Reads

\* verified_sealed_bytes, row by row.
LEMMA ReadSteps ==
  ASSUME NEW C, Table(C), NEW r, r = OrderedByStart(C), NEW n, n = Cardinality(C),
         NEW begin \in Nat, NEW end \in Nat, begin <= end
  PROVE  \E at \in [0..n -> Reads] :
           /\ at[0] = [cursor |-> 0, hashed |-> <<>>, damaged |-> FALSE, out |-> <<>>]
           /\ \A k \in 1..n : at[k] = VerifyRow(at[k - 1], r[k], begin, end)
           /\ ReadRows(C, begin, end) = at[n]
<1> DEFINE base == [cursor |-> 0, hashed |-> <<>>, damaged |-> FALSE, out |-> <<>>]
           Op(a, c) == VerifyRow(a, c, begin, end)
           F == [p \in (1..n) \X Reads |-> Op(p[2], r[p[1]])]
           Next1(f, s) == IF s = {} THEN base ELSE Op(f[s \ {Max(s)}], r[Max(s)])
           it == CHOOSE f : f = [s \in SUBSET (1..n) |-> Next1(f, s)]
<1>1. /\ n \in Nat /\ r \in [1..n -> C] /\ Len(r) = n
      /\ \A i \in 1..n : /\ r[i].start_offset \in Nat /\ r[i].end_offset \in Nat
                         /\ r[i].start_offset < r[i].end_offset /\ r[i].data \in Seq(Byte)
  BY OrderedRows
<1>2. base \in Reads  BY DEF Reads
<1>3. \A k \in 1..n, a \in Reads : Op(a, r[k]) \in Reads  BY <1>1, VerifyRowType
<1>4. ReadRows(C, begin, end) = it[1..n]
  <2>1. DOMAIN r = 1..n  BY <1>1
  <2> QED  BY <2>1 DEF ReadRows, FoldLeft, MapThenFoldSet
<1> HIDE DEF Op
<1>5. F \in [(1..n) \X Reads -> Reads]  BY <1>3
<1>6. PICK f : Folded(f, n, Reads, base, F)
  <2> HIDE DEF F, base
  <2> QED  BY <1>1, <1>2, <1>5, FoldExists
<1>7. f = [s \in SUBSET (1..n) |-> Next1(f, s)]
  <2>1. ASSUME NEW s \in SUBSET (1..n)  PROVE f[s] = Next1(f, s)
    <3>1. CASE s = {}  BY <1>6, <3>1 DEF Folded
    <3>2. CASE s # {}
      <4>1. Max(s) \in 1..n  BY <1>1, <3>2, MaxOfIndices
      <4>2. s \ {Max(s)} \in SUBSET (1..n)  OBVIOUS
      <4>3. f[s \ {Max(s)}] \in Reads  BY <1>6, <4>2 DEF Folded
      <4>4. F[<<Max(s), f[s \ {Max(s)}]>>] = Op(f[s \ {Max(s)}], r[Max(s)])
        BY <4>1, <4>3
      <4> QED  BY <1>6, <3>2, <4>4 DEF Folded
    <3> QED  BY <3>1, <3>2
  <2> HIDE DEF Next1
  <2> QED  BY <1>6, <2>1 DEF Folded
<1>8. it = [s \in SUBSET (1..n) |-> Next1(it, s)]
  <2> HIDE DEF Next1
  <2> QED  BY <1>7
<1> HIDE DEF it
<1>9. FoldsWith(it, n, Reads, base, F)
  <2>1. \A s \in SUBSET (1..n) : s # {} => Max(s) \in 1..n  BY <1>1, MaxOfIndices
  <2>2. it[{}] = base  BY <1>8
  <2>3. \A s \in SUBSET (1..n) : s # {} => it[s] = Op(it[s \ {Max(s)}], r[Max(s)])  BY <1>8
  <2> QED  BY <2>1, <2>2, <2>3 DEF FoldsWith
<1>10. PICK at : Steps(at, it, n, Reads, base, F)
  <2> HIDE DEF F, base
  <2> QED  BY <1>1, <1>2, <1>5, <1>9, FoldSteps
<1>11. \A k \in 1..n : at[k] = Op(at[k - 1], r[k])
  <2>1. \A k \in 1..n : k - 1 \in 0..n  BY <1>1
  <2> QED  BY <1>10, <2>1 DEF Steps
<1> QED  BY <1>4, <1>10, <1>11 DEF Steps, Op

\* What the loop has behind the offset o of an archive without damage.
ReadTo(read, C, begin, end, o) ==
  /\ ~read.damaged /\ read.cursor = o /\ read.hashed = Whole(C, o)
  /\ read.out = BytesOf(C, begin, Min({end, o}))

\* One intact row of a contiguous table: its part of [begin, end) joins the rest.
LEMMA VerifyRowKeeps ==
  ASSUME NEW C, Table(C),
         Disjoint(C), NEW begin \in Nat, NEW end \in Nat, begin <= end,
         NEW c \in C, RowIntact(c), NEW a \in Reads,
         ReadTo(a, C, begin, end, c.start_offset), NEW b, b = VerifyRow(a, c, begin, end)
  PROVE  ReadTo(b, C, begin, end, c.end_offset)
<1> DEFINE s == c.start_offset
           e == c.end_offset
           lo == Max({begin, s})
           hi == Min({end, e})
           slice == Slice(c, lo - s, hi - s)
<1>1. s \in Nat /\ e \in Nat /\ s < e /\ Len(c.data) = e - s  BY DEF Table, ChunkRow, RowIntact
<1>2. /\ lo \in {begin, s} /\ begin <= lo /\ s <= lo
      /\ hi \in {end, e} /\ hi <= end /\ hi <= e
      /\ Min({end, s}) \in {end, s} /\ Min({end, s}) <= end /\ Min({end, s}) <= s
  BY <1>1, MaxOfTwo
<1>3. b = [cursor |-> e, hashed |-> a.hashed \o c.data, damaged |-> FALSE,
           out |-> IF InWindow(c, begin, end) THEN a.out \o slice ELSE a.out]
  BY <1>1 DEF VerifyRow, RowIntact, ReadTo
<1>4. a.hashed \o c.data = Whole(C, e)  BY <1>1, WholeExtends DEF ReadTo
<1>5. (IF InWindow(c, begin, end) THEN a.out \o slice ELSE a.out) = BytesOf(C, begin, hi)
  <2>1. CASE s < end /\ begin < e
    <3>1. lo \in Nat /\ hi \in Nat /\ lo <= hi  BY <1>1, <1>2, <2>1
    <3>2. slice = BytesOf(C, lo, hi)  BY <1>1, <1>2, <3>1, SliceOfRow
    <3>3. a.out = BytesOf(C, begin, lo)
      <4>1. CASE s <= begin
        <5>1. lo = begin /\ Min({end, s}) \in Nat /\ Min({end, s}) <= begin  BY <1>1, <1>2, <4>1
        <5> QED  BY <5>1, BytesOfNothing DEF ReadTo
      <4>2. CASE begin < s
        <5>1. lo = s /\ Min({end, s}) = s
          <6>1. \A m \in {end, s} : m <= end /\ m <= s => m = s  BY <1>1, <2>1
          <6> QED  BY <1>1, <1>2, <4>2, <6>1
        <5> QED  BY <5>1 DEF ReadTo
      <4> QED  BY <1>1, <4>1, <4>2
    <3>4. BytesOf(C, begin, lo) \o BytesOf(C, lo, hi) = BytesOf(C, begin, hi)
      BY <1>2, <3>1, BytesJoin
    <3>5. InWindow(c, begin, end)  BY <1>1, <2>1 DEF InWindow
    <3> QED  BY <3>2, <3>3, <3>4, <3>5
  <2>2. CASE ~(s < end)
    <3>1. Min({end, s}) = end /\ hi = end
      <4>1. \A m \in {end, s} : m <= end /\ m <= s => m = end  BY <1>1, <2>2
      <4>2. \A m \in {end, e} : m <= end /\ m <= e => m = end  BY <1>1, <2>2
      <4> QED  BY <1>2, <4>1, <4>2
    <3>2. ~InWindow(c, begin, end)  BY <2>2 DEF InWindow
    <3> QED  BY <3>1, <3>2 DEF ReadTo
  <2>3. CASE ~(begin < e)
    <3>1. /\ Min({end, s}) \in Nat /\ Min({end, s}) <= begin /\ hi \in Nat /\ hi <= begin
      BY <1>1, <1>2, <2>3
    <3>2. BytesOf(C, begin, Min({end, s})) = <<>> /\ BytesOf(C, begin, hi) = <<>>
      BY <3>1, BytesOfNothing
    <3>3. ~InWindow(c, begin, end)  BY <1>1, <2>3 DEF InWindow
    <3> QED  BY <3>2, <3>3 DEF ReadTo
  <2> QED  BY <2>1, <2>2, <2>3
<1> HIDE DEF slice
<1> QED  BY <1>3, <1>4, <1>5 DEF ReadTo

\* The loop over a contiguous table of intact rows.
LEMMA ReadContiguous ==
  ASSUME NEW C, Table(C), Contiguous(C), \A c \in C : RowIntact(c),
         NEW begin \in Nat, NEW end \in Nat, begin <= end
  PROVE  ReadTo(ReadRows(C, begin, end), C, begin, end, Cursor(C))
<1> DEFINE r == OrderedByStart(C)
           n == Cardinality(C)
<1>1. /\ n \in Nat /\ r \in [1..n -> C]
      /\ \A i \in 1..n : r[i].start_offset \in Nat /\ r[i].end_offset \in Nat
  BY OrderedRows
<1>2. \A i \in 1..n : r[i].start_offset = EndOf(r, i - 1)  BY ContiguousRows
<1>3. Cursor(C) = EndOf(r, n)  BY OrderedCursor
<1>4. PICK at \in [0..n -> Reads] :
           /\ at[0] = [cursor |-> 0, hashed |-> <<>>, damaged |-> FALSE, out |-> <<>>]
           /\ \A k \in 1..n : at[k] = VerifyRow(at[k - 1], r[k], begin, end)
           /\ ReadRows(C, begin, end) = at[n]
  BY ReadSteps
<1>5. Disjoint(C)  BY ContiguousCovers
<1> HIDE DEF r, n
<1> DEFINE Good(k) == ReadTo(at[k], C, begin, end, EndOf(r, k))
           T == {k \in 0..n : Good(k)}
<1>6. 0 \in T
  <2>1. Whole(C, 0) = <<>>  BY NothingTiled
  <2>2. Min({end, 0}) \in Nat /\ Min({end, 0}) <= begin
    <3>1. Min({end, 0}) \in {end, 0} /\ Min({end, 0}) <= 0  BY MaxOfTwo
    <3> QED  BY <3>1
  <2>3. BytesOf(C, begin, Min({end, 0})) = <<>>  BY <2>2, BytesOfNothing
  <2> QED  BY <1>1, <1>4, <2>1, <2>3 DEF EndOf, ReadTo
<1>7. ASSUME NEW k \in 0..(n - 1), k \in T  PROVE k + 1 \in T
  <2>1. k + 1 \in 1..n /\ (k + 1) - 1 = k /\ k + 1 \in 0..n /\ k + 1 # 0 /\ k \in 0..n
    BY <1>1
  <2>2. at[k + 1] = VerifyRow(at[k], r[k + 1], begin, end) /\ at[k] \in Reads  BY <1>4, <2>1
  <2>3. r[k + 1].start_offset = EndOf(r, k) /\ EndOf(r, k + 1) = r[k + 1].end_offset
    BY <1>2, <2>1 DEF EndOf
  <2>4. r[k + 1] \in C /\ RowIntact(r[k + 1])  BY <1>1, <2>1
  <2> DEFINE c == r[k + 1]
             a == at[k]
             b == at[k + 1]
  <2>5. ReadTo(a, C, begin, end, c.start_offset)  BY <1>7, <2>3
  <2>6. c \in C /\ RowIntact(c) /\ a \in Reads  BY <2>2, <2>4
  <2>7. ReadTo(b, C, begin, end, c.end_offset)
    <3>1. b = VerifyRow(a, c, begin, end)  BY <2>2
    <3> HIDE DEF a, b, c
    <3> QED  BY <1>5, <2>5, <2>6, <3>1, VerifyRowKeeps
  <2>8. Good(k + 1)  BY <2>3, <2>7
  <2> QED  BY <2>1, <2>8
<1>8. Good(n)
  <2> HIDE DEF T
  <2>1. 0..n \subseteq T  BY <1>1, <1>6, <1>7, CountingUp
  <2> QED  BY <1>1, <2>1 DEF T
<1> QED  BY <1>3, <1>4, <1>8

\* A table that is not contiguous, or has a row whose length or digest is not the
\* recorded one, is found damaged, wherever the range lies.
LEMMA ReadBroken ==
  ASSUME NEW C, Table(C), ~(Contiguous(C) /\ \A c \in C : RowIntact(c)),
         NEW begin \in Nat, NEW end \in Nat, begin <= end
  PROVE  ReadRows(C, begin, end).damaged
<1> DEFINE r == OrderedByStart(C)
           n == Cardinality(C)
<1>1. n \in Nat /\ \A c \in C : \E i \in 1..n : r[i] = c  BY OrderedRows
<1>2. PICK at \in [0..n -> Reads] :
           /\ at[0] = [cursor |-> 0, hashed |-> <<>>, damaged |-> FALSE, out |-> <<>>]
           /\ \A k \in 1..n : at[k] = VerifyRow(at[k - 1], r[k], begin, end)
           /\ ReadRows(C, begin, end) = at[n]
  BY ReadSteps
<1>3. PICK i \in 1..n : r[i].start_offset # EndOf(r, i - 1) \/ ~RowIntact(r[i])
  BY <1>1, ContiguousRows
<1> HIDE DEF r, n
<1> DEFINE Good(k) == at[k].damaged \/ (k < i /\ at[k].cursor = EndOf(r, k))
           T == {k \in 0..n : Good(k)}
<1>4. 0 \in T  BY <1>1, <1>2, <1>3 DEF EndOf
<1>5. ASSUME NEW k \in 0..(n - 1), k \in T  PROVE k + 1 \in T
  <2>1. k + 1 \in 1..n /\ (k + 1) - 1 = k /\ k + 1 \in 0..n /\ k + 1 # 0 /\ k \in 0..n
    BY <1>1
  <2>2. at[k + 1] = VerifyRow(at[k], r[k + 1], begin, end) /\ at[k] \in Reads
    BY <1>2, <2>1
  <2>3. at[k].damaged \/ r[k + 1].start_offset # at[k].cursor \/ ~RowIntact(r[k + 1]) =>
          at[k + 1].damaged
    BY <2>2 DEF VerifyRow, RowIntact, Reads
  <2>4. ~(at[k].damaged \/ r[k + 1].start_offset # at[k].cursor \/ ~RowIntact(r[k + 1])) =>
          at[k + 1].cursor = r[k + 1].end_offset
    BY <2>2 DEF VerifyRow, RowIntact
  <2>5. k + 1 = i /\ ~at[k].damaged =>
          r[k + 1].start_offset # at[k].cursor \/ ~RowIntact(r[k + 1])
    BY <1>3, <1>5, <2>1
  <2>6. k + 1 < i \/ k + 1 = i \/ ~(k < i)  BY <1>1, <2>1
  <2>7. Good(k + 1)  BY <1>5, <2>1, <2>3, <2>4, <2>5, <2>6 DEF EndOf
  <2> QED  BY <2>1, <2>7
<1>6. Good(n)
  <2> HIDE DEF T
  <2>1. 0..n \subseteq T  BY <1>1, <1>4, <1>5, CountingUp
  <2> QED  BY <1>1, <2>1 DEF T
<1>7. ~(n < i)  BY <1>1, <1>3
<1> QED  BY <1>2, <1>6, <1>7

\* A download of [begin, end) gives exactly those bytes of an archive that verifies as
\* a whole, and nothing of any other.
THEOREM ReadLoopVerifies ==
  ASSUME NEW C, Table(C), NEW total \in Nat, NEW whole_sha256,
         NEW begin \in Nat, NEW end \in Nat, begin <= end, end <= total
  PROVE  ReadLoop(C, total, whole_sha256, begin, end) =
           IF ArchiveVerifies(C, total, whole_sha256) THEN BytesOf(C, begin, end) ELSE None
<1> DEFINE read == ReadRows(C, begin, end)
<1>1. CASE Contiguous(C) /\ \A c \in C : RowIntact(c)
  <2>1. ReadTo(read, C, begin, end, Cursor(C))  BY <1>1, ReadContiguous
  <2>2. Cursor(C) = total => Min({end, Cursor(C)}) = end
    <3>1. Min({end, total}) \in {end, total} /\ Min({end, total}) <= end  BY MaxOfTwo
    <3> QED  BY <3>1
  <2> QED  BY <1>1, <2>1, <2>2 DEF ReadLoop, ArchiveVerifies, Complete, ReadTo
<1>2. CASE ~(Contiguous(C) /\ \A c \in C : RowIntact(c))
  <2>1. read.damaged  BY <1>2, ReadBroken
  <2> QED  BY <1>2, <2>1 DEF ReadLoop, ArchiveVerifies, Complete
<1> QED  BY <1>1, <1>2

-------------------------------------------------------------------------------
(***************************************************************************)
(* _archived_bytes.                                                        *)
(***************************************************************************)
Copies == [cursor : Nat, out : Seq(Byte), gap : BOOLEAN]

\* One row of _archived_bytes keeps the accumulator well typed.
LEMMA CopyRowType ==
  ASSUME NEW a \in Copies, NEW c, c.start_offset \in Nat, c.end_offset \in Nat,
         c.start_offset < c.end_offset, c.data \in Seq(Byte),
         Len(c.data) = c.end_offset - c.start_offset, NEW end \in Nat
  PROVE  CopyRow(a, c, end) \in Copies
<1> DEFINE s == c.start_offset
           stop == Min({c.end_offset, end})
           slice == Slice(c, a.cursor - s, stop - s)
<1>1. stop \in Nat /\ stop <= c.end_offset
  <2>1. stop \in {c.end_offset, end} /\ stop <= c.end_offset  BY MaxOfTwo
  <2> QED  BY <2>1
<1>2. s <= a.cursor => a.out \o slice \in Seq(Byte)
  <2> SUFFICES ASSUME s <= a.cursor  PROVE a.out \o slice \in Seq(Byte)  OBVIOUS
  <2> DEFINE x == c.data
             m == (a.cursor - s) + 1
             n == stop - s
  <2>1. x \in Seq(Byte) /\ m \in Int /\ n \in Int /\ 1 <= m /\ n <= Len(x)  BY <1>1 DEF Copies
  <2>2. SubSeq(x, m, n) \in Seq(Byte)
    <3> HIDE DEF x, m, n
    <3> QED  BY <2>1
  <2>3. slice \in Seq(Byte) /\ a.out \in Seq(Byte)  BY <2>2 DEF Slice, Copies
  <2> HIDE DEF slice
  <2> QED  BY <2>3
<1>3. CopyRow(a, c, end) =
        IF a.gap \/ a.cursor >= end THEN a
        ELSE IF s > a.cursor THEN [a EXCEPT !.gap = TRUE]
        ELSE [a EXCEPT !.out = @ \o slice, !.cursor = stop]
  BY DEF CopyRow
<1>4. [a EXCEPT !.gap = TRUE] \in Copies  BY DEF Copies
<1>5. s <= a.cursor => [a EXCEPT !.out = @ \o slice, !.cursor = stop] \in Copies
  <2> HIDE DEF slice, stop
  <2> QED  BY <1>1, <1>2 DEF Copies
<1>6. s > a.cursor \/ s <= a.cursor  BY DEF Copies
<1> HIDE DEF slice, stop, s
<1> QED  BY <1>3, <1>4, <1>5, <1>6

\* _archived_bytes, row by row.
LEMMA CopySteps ==
  ASSUME NEW C, NEW begin \in Nat, NEW end \in Nat, begin # end,
         NEW O, O = Overlapping(C, begin, end), Table(O), \A c \in O : RowIntact(c),
         NEW r, r = OrderedByStart(O), NEW n, n = Cardinality(O)
  PROVE  \E at \in [0..n -> Copies] :
           /\ at[0] = [cursor |-> begin, out |-> <<>>, gap |-> FALSE]
           /\ \A k \in 1..n : at[k] = CopyRow(at[k - 1], r[k], end)
           /\ ArchivedLoop(C, begin, end) =
                IF at[n].gap \/ at[n].cursor # end THEN None ELSE at[n].out
<1> DEFINE base == [cursor |-> begin, out |-> <<>>, gap |-> FALSE]
           Op(a, c) == CopyRow(a, c, end)
           F == [p \in (1..n) \X Copies |-> Op(p[2], r[p[1]])]
           Next1(f, s) == IF s = {} THEN base ELSE Op(f[s \ {Max(s)}], r[Max(s)])
           it == CHOOSE f : f = [s \in SUBSET (1..n) |-> Next1(f, s)]
<1>1. /\ n \in Nat /\ r \in [1..n -> O] /\ Len(r) = n
      /\ \A i \in 1..n : /\ r[i].start_offset \in Nat /\ r[i].end_offset \in Nat
                         /\ r[i].start_offset < r[i].end_offset /\ r[i].data \in Seq(Byte)
  BY OrderedRows
<1>2. base \in Copies  BY DEF Copies
<1>3. \A k \in 1..n, a \in Copies : Op(a, r[k]) \in Copies
  BY <1>1, CopyRowType DEF RowIntact
<1>4. ArchivedLoop(C, begin, end) =
        IF it[1..n].gap \/ it[1..n].cursor # end THEN None ELSE it[1..n].out
  <2>1. DOMAIN r = 1..n /\ OrderedByStart(Overlapping(C, begin, end)) = r  BY <1>1
  <2>2. FoldLeft(LAMBDA acc, c : CopyRow(acc, c, end), base,
                 OrderedByStart(Overlapping(C, begin, end))) = it[1..n]
    BY <2>1 DEF FoldLeft, MapThenFoldSet
  <2> HIDE DEF it
  <2> QED  BY <2>2 DEF ArchivedLoop
<1> HIDE DEF Op
<1>5. F \in [(1..n) \X Copies -> Copies]  BY <1>3
<1>6. PICK f : Folded(f, n, Copies, base, F)
  <2> HIDE DEF F, base
  <2> QED  BY <1>1, <1>2, <1>5, FoldExists
<1>7. f = [s \in SUBSET (1..n) |-> Next1(f, s)]
  <2>1. ASSUME NEW s \in SUBSET (1..n)  PROVE f[s] = Next1(f, s)
    <3>1. CASE s = {}  BY <1>6, <3>1 DEF Folded
    <3>2. CASE s # {}
      <4>1. Max(s) \in 1..n  BY <1>1, <3>2, MaxOfIndices
      <4>2. s \ {Max(s)} \in SUBSET (1..n)  OBVIOUS
      <4>3. f[s \ {Max(s)}] \in Copies  BY <1>6, <4>2 DEF Folded
      <4>4. F[<<Max(s), f[s \ {Max(s)}]>>] = Op(f[s \ {Max(s)}], r[Max(s)])
        BY <4>1, <4>3
      <4> QED  BY <1>6, <3>2, <4>4 DEF Folded
    <3> QED  BY <3>1, <3>2
  <2> HIDE DEF Next1
  <2> QED  BY <1>6, <2>1 DEF Folded
<1>8. it = [s \in SUBSET (1..n) |-> Next1(it, s)]
  <2> HIDE DEF Next1
  <2> QED  BY <1>7
<1> HIDE DEF it
<1>9. FoldsWith(it, n, Copies, base, F)
  <2>1. \A s \in SUBSET (1..n) : s # {} => Max(s) \in 1..n  BY <1>1, MaxOfIndices
  <2>2. it[{}] = base  BY <1>8
  <2>3. \A s \in SUBSET (1..n) : s # {} => it[s] = Op(it[s \ {Max(s)}], r[Max(s)])  BY <1>8
  <2> QED  BY <2>1, <2>2, <2>3 DEF FoldsWith
<1>10. PICK at : Steps(at, it, n, Copies, base, F)
  <2> HIDE DEF F, base
  <2> QED  BY <1>1, <1>2, <1>5, <1>9, FoldSteps
<1>11. \A k \in 1..n : at[k] = Op(at[k - 1], r[k])
  <2>1. \A k \in 1..n : k - 1 \in 0..n  BY <1>1
  <2> QED  BY <1>10, <2>1 DEF Steps
<1> QED  BY <1>4, <1>10, <1>11 DEF Steps, Op

\* What the loop has behind the offset o: the bytes of [begin, o), all archived.
CopiedTo(copy, C, begin, o) ==
  /\ ~copy.gap /\ copy.cursor = o /\ copy.out = BytesOf(C, begin, o)
  /\ \A p \in begin..(o - 1) : \E c \in C : Covers(c, p)

\* How far the first k of the rows r reach into [begin, end).
Reach(r, k, begin, end) == IF k = 0 THEN begin ELSE Min({r[k].end_offset, end})

\* Where the rows in the window leave a gap, no row at all has the byte.
LEMMA GapInTheWindow ==
  ASSUME NEW C, Table(C), Disjoint(C), NEW begin \in Nat, NEW end \in Nat,
         NEW O, O = Overlapping(C, begin, end),
         NEW r, r = OrderedByStart(O), NEW n, n = Cardinality(O), NEW k \in 0..n,
         NEW o \in Nat, o = Reach(r, k, begin, end), begin <= o, o < end,
         k = n \/ o < r[k + 1].start_offset,
         NEW d \in C, Covers(d, o)
  PROVE  FALSE
<1>0. Table(O) /\ O \in SUBSET C
  <2>1. O \in SUBSET C  BY DEF Overlapping
  <2>2. IsFiniteSet(O)  BY <2>1, FS_Subset DEF Table
  <2> QED  BY <2>1, <2>2 DEF Table
<1>1. /\ n \in Nat /\ r \in [1..n -> O]
      /\ \A i, j \in 1..n : i < j => r[i].start_offset < r[j].start_offset
      /\ \A c \in O : \E i \in 1..n : r[i] = c
      /\ \A i \in 1..n : /\ r[i].start_offset \in Nat /\ r[i].end_offset \in Nat
                         /\ r[i].start_offset < r[i].end_offset
  <2>0. Table(O)  BY <1>0
  <2>1. /\ n \in Nat /\ r \in [1..n -> O]
        /\ \A i, j \in 1..n : i < j => r[i].start_offset < r[j].start_offset
    BY <2>0, OrderedRows, ZenonT(60)
  <2>3. \A c \in O : \E i \in 1..n : r[i] = c  BY <2>0, OrderedSorts DEF Sorts
  <2>2. \A c \in O : /\ c.start_offset \in Nat /\ c.end_offset \in Nat
                     /\ c.start_offset < c.end_offset
    BY <1>0 DEF Table, ChunkRow
  <2> QED  BY <2>1, <2>2, <2>3
<1>2. d.start_offset \in Nat /\ d.end_offset \in Nat  BY DEF Table, ChunkRow
<1>3. d.start_offset <= o /\ o < d.end_offset  BY DEF Covers
<1>4. d \in O  BY <1>2, <1>3 DEF Overlapping
<1>5. PICK j \in 1..n : r[j] = d  BY <1>1, <1>4
<1>6. CASE k < j
  <2>1. k + 1 \in 1..n /\ k # n  BY <1>1, <1>6
  <2>2. k + 1 = j \/ r[k + 1].start_offset < r[j].start_offset  BY <1>1, <1>6, <2>1
  <2> QED  BY <1>1, <1>2, <1>3, <1>5, <2>1, <2>2
<1>7. CASE j <= k
  <2>1. k # 0 /\ k \in 1..n  BY <1>1, <1>7
  <2>2. o = r[k].end_offset
    <3>1. Min({r[k].end_offset, end}) \in {r[k].end_offset, end}  BY <1>1, <2>1, MaxOfTwo
    <3> QED  BY <2>1, <3>1 DEF Reach
  <2>3. j # k  BY <1>3, <1>5, <1>2, <2>2
  <2>4. r[j].start_offset < r[k].start_offset  BY <1>1, <1>7, <2>1, <2>3
  <2>5. r[j] \in C /\ r[k] \in C /\ r[j] # r[k]
    <3>1. r[j] \in O /\ r[k] \in O  BY <1>1, <2>1
    <3>2. O \subseteq C  BY DEF Overlapping
    <3>3. ~(r[k].start_offset < r[k].start_offset)  BY <1>1, <2>1
    <3> QED  BY <2>4, <3>1, <3>2, <3>3
  <2>6. r[j].end_offset <= r[k].start_offset \/ r[k].end_offset <= r[j].start_offset
    BY <2>5 DEF Disjoint
  <2>7. /\ r[j].end_offset = d.end_offset /\ r[j].end_offset \in Nat
        /\ r[k].start_offset \in Nat /\ r[k].end_offset \in Nat /\ r[j].start_offset \in Nat
        /\ r[k].start_offset < r[k].end_offset
    BY <1>1, <1>5, <2>1
  <2> QED  BY <1>3, <2>2, <2>4, <2>6, <2>7
<1> QED  BY <1>1, <1>6, <1>7

\* One row of the loop: it copies on, or there is a gap.
LEMMA CopyRowKeeps ==
  ASSUME NEW C, Table(C), Disjoint(C), NEW begin \in Nat, NEW end \in Nat,
         NEW c \in C, RowIntact(c), NEW a \in Copies, NEW o \in Nat, begin <= o, o < end,
         CopiedTo(a, C, begin, o), o < c.end_offset, NEW b, b = CopyRow(a, c, end)
  PROVE  /\ c.start_offset > o => b.gap
         /\ c.start_offset <= o => CopiedTo(b, C, begin, Min({c.end_offset, end}))
<1> DEFINE s == c.start_offset
           stop == Min({c.end_offset, end})
           slice == Slice(c, o - s, stop - s)
<1>1. s \in Nat /\ c.end_offset \in Nat /\ Len(c.data) = c.end_offset - s
  BY DEF Table, ChunkRow, RowIntact
<1>2. stop \in Nat /\ stop <= c.end_offset /\ stop <= end /\ o < stop
  <2>1. stop \in {c.end_offset, end} /\ stop <= c.end_offset /\ stop <= end
    BY <1>1, MaxOfTwo
  <2> QED  BY <1>1, <2>1
<1>3. ~a.gap /\ a.cursor = o /\ a.out = BytesOf(C, begin, o)  BY DEF CopiedTo
<1>4. ASSUME s > o  PROVE b.gap
  <2>1. b = [a EXCEPT !.gap = TRUE]  BY <1>1, <1>3, <1>4 DEF CopyRow
  <2> QED  BY <2>1 DEF Copies
<1>5. ASSUME s <= o  PROVE CopiedTo(b, C, begin, stop)
  <2>1. b = [a EXCEPT !.out = @ \o slice, !.cursor = stop]  BY <1>1, <1>3, <1>5 DEF CopyRow
  <2>2. slice = BytesOf(C, o, stop)  BY <1>1, <1>2, <1>5, SliceOfRow
  <2>3. BytesOf(C, begin, o) \o BytesOf(C, o, stop) = BytesOf(C, begin, stop)
    <3> HIDE DEF stop
    <3>1. o <= stop  BY <1>2
    <3> QED  BY <1>2, <3>1, BytesJoin
  <2>4. ~b.gap /\ b.cursor = stop /\ b.out = a.out \o slice
    <3> HIDE DEF slice, stop
    <3> QED  BY <1>3, <2>1 DEF Copies
  <2>5. ASSUME NEW p \in begin..(stop - 1)  PROVE \E d \in C : Covers(d, p)
    <3>1. CASE p < o
      <4>1. p \in begin..(o - 1)  BY <1>2, <3>1
      <4> QED  BY <4>1 DEF CopiedTo
    <3>2. CASE ~(p < o)
      <4>1. Covers(c, p)  BY <1>1, <1>2, <1>5, <3>2 DEF Covers
      <4> QED  BY <4>1
    <3> QED  BY <3>1, <3>2
  <2> QED  BY <1>3, <2>2, <2>3, <2>4, <2>5 DEF CopiedTo
<1> QED  BY <1>1, <1>4, <1>5

\* The loop gives the bytes of [begin, end) if they are all archived, whatever
\* boundaries they cross, and nothing if one is missing.
THEOREM ArchivedLoopCopies ==
  ASSUME NEW C, Table(C), Disjoint(C), \A c \in C : RowIntact(c),
         NEW begin \in Nat, NEW end \in Nat, begin <= end
  PROVE  ArchivedLoop(C, begin, end) = ArchivedBytes(C, begin, end)
<1>1. CASE begin = end
  <2>1. ArchivedLoop(C, begin, end) = <<>>  BY <1>1 DEF ArchivedLoop
  <2>2. begin..(end - 1) = {}  BY <1>1
  <2>3. BytesOf(C, begin, end) = <<>>  BY <1>1, BytesOfNothing
  <2> QED  BY <2>1, <2>2, <2>3 DEF ArchivedBytes
<1>2. CASE begin < end
  <2> DEFINE O == Overlapping(C, begin, end)
             r == OrderedByStart(O)
             n == Cardinality(O)
  <2>1. O \in SUBSET C /\ Table(O)
    <3>1. O \in SUBSET C  BY DEF Overlapping
    <3>2. IsFiniteSet(O)  BY <3>1, FS_Subset DEF Table
    <3> QED  BY <3>1, <3>2 DEF Table
  <2>2. \A c \in O : RowIntact(c)  BY <2>1
  <2>3. /\ n \in Nat /\ r \in [1..n -> O]
        /\ \A i, j \in 1..n : i < j => r[i].start_offset < r[j].start_offset
        /\ \A i \in 1..n : /\ r[i].start_offset \in Nat /\ r[i].end_offset \in Nat
                           /\ r[i].start_offset < r[i].end_offset
    BY <2>1, OrderedRows
  <2>4. PICK at \in [0..n -> Copies] :
           /\ at[0] = [cursor |-> begin, out |-> <<>>, gap |-> FALSE]
           /\ \A k \in 1..n : at[k] = CopyRow(at[k - 1], r[k], end)
           /\ ArchivedLoop(C, begin, end) =
                IF at[n].gap \/ at[n].cursor # end THEN None ELSE at[n].out
    <3>1. begin # end  BY <1>2
    <3> QED  BY <2>1, <2>2, <3>1, CopySteps
  <2> DEFINE Missing == \E o \in begin..(end - 1) : \A d \in C : ~Covers(d, o)
             To(k) == Reach(r, k, begin, end)
             Good(k) == \/ at[k].gap /\ Missing
                        \/ CopiedTo(at[k], C, begin, To(k))
             T == {k \in 0..n : Good(k)}
  <2>5. \A k \in 1..n : r[k] \in C /\ r[k].start_offset < end /\ begin < r[k].end_offset
    BY <2>1, <2>3 DEF Overlapping
  <2>6. ASSUME NEW k \in 0..n  PROVE To(k) \in Nat /\ begin <= To(k) /\ To(k) <= end
    <3>1. CASE k = 0  BY <1>2, <3>1 DEF Reach
    <3>2. CASE k # 0
      <4>1. k \in 1..n  BY <2>3, <3>2
      <4>2. /\ Min({r[k].end_offset, end}) \in {r[k].end_offset, end}
            /\ Min({r[k].end_offset, end}) <= end
        BY <2>3, <4>1, MaxOfTwo
      <4> QED  BY <1>2, <2>3, <2>5, <3>2, <4>1, <4>2 DEF Reach
    <3> QED  BY <3>1, <3>2
  <2>7. ASSUME NEW k \in 0..n, To(k) < end, k = n \/ To(k) < r[k + 1].start_offset
        PROVE  Missing
    <3>1. \A d \in C : ~Covers(d, To(k))  BY <2>6, <2>7, GapInTheWindow
    <3>2. To(k) \in begin..(end - 1)  BY <2>6, <2>7
    <3> HIDE DEF To
    <3> QED  BY <3>1, <3>2
  <2>8. ASSUME NEW k \in 0..(n - 1)  PROVE To(k) < end /\ To(k) < r[k + 1].end_offset
    <3>1. k + 1 \in 1..n  BY <2>3
    <3>2. CASE k = 0  BY <1>2, <2>5, <3>1, <3>2 DEF Reach
    <3>3. CASE k # 0
      <4>1. k \in 1..n  BY <2>3, <3>3
      <4>2. Min({r[k].end_offset, end}) <= r[k].end_offset  BY <2>3, <4>1, MaxOfTwo
      <4>3. r[k].start_offset < r[k + 1].start_offset  BY <2>3, <3>1, <4>1
      <4>4. r[k] # r[k + 1]  BY <2>3, <3>1, <4>1, <4>3
      <4>5. r[k].end_offset <= r[k + 1].start_offset \/ r[k + 1].end_offset <= r[k].start_offset
        BY <2>5, <3>1, <4>1, <4>4 DEF Disjoint
      <4>6. To(k) <= r[k].end_offset  BY <3>3, <4>2 DEF Reach
      <4>7. k \in 0..n  BY <2>3
      <4>8. To(k) \in Nat  BY <2>6, <4>7
      <4> HIDE DEF To, r
      <4> QED  BY <2>3, <2>5, <3>1, <4>1, <4>3, <4>5, <4>6, <4>8
    <3> QED  BY <3>2, <3>3
  <2>9. 0 \in T
    <3>1. BytesOf(C, begin, begin) = <<>>  BY BytesOfNothing
    <3>2. begin..(begin - 1) = {}  OBVIOUS
    <3>3. CopiedTo(at[0], C, begin, begin)  BY <2>4, <3>1, <3>2 DEF CopiedTo
    <3> QED  BY <2>3, <3>3 DEF Reach
  <2> HIDE DEF O, r, n
  <2>10. ASSUME NEW k \in 0..(n - 1), k \in T  PROVE k + 1 \in T
    <3>1. k + 1 \in 1..n /\ (k + 1) - 1 = k /\ k + 1 \in 0..n /\ k \in 0..n /\ k + 1 # 0 /\ k # n
      BY <2>3
    <3>2. at[k + 1] = CopyRow(at[k], r[k + 1], end) /\ at[k] \in Copies  BY <2>4, <3>1
    <3>3. CASE at[k].gap /\ Missing
      <4>1. at[k + 1] = at[k]  BY <3>2, <3>3 DEF CopyRow
      <4> QED  BY <3>1, <3>3, <4>1
    <3>4. CASE CopiedTo(at[k], C, begin, To(k))
      <4> DEFINE o == To(k)
                 c == r[k + 1]
                 a == at[k]
                 b == at[k + 1]
      <4>1. o \in Nat /\ begin <= o /\ o < end /\ o < c.end_offset  BY <2>6, <2>8, <3>1
      <4>2. c \in C /\ RowIntact(c) /\ c.start_offset \in Nat  BY <2>3, <2>5, <3>1
      <4>3. CopiedTo(a, C, begin, o)  BY <3>4
      <4>4. /\ c.start_offset > o => b.gap
            /\ c.start_offset <= o => CopiedTo(b, C, begin, Min({c.end_offset, end}))
        <5>1. b = CopyRow(a, c, end) /\ a \in Copies  BY <3>2
        <5> HIDE DEF a, b, c, o
        <5> QED  BY <4>1, <4>2, <4>3, <5>1, CopyRowKeeps
      <4>5. c.start_offset > o => Missing
        <5>1. c.start_offset > o => o < c.start_offset  BY <4>1, <4>2
        <5> HIDE DEF Missing
        <5> QED  BY <2>7, <3>1, <4>1, <5>1
      <4>6. Min({c.end_offset, end}) = To(k + 1)  BY <3>1 DEF Reach
      <4>7. c.start_offset > o \/ c.start_offset <= o  BY <4>1, <4>2
      <4>8. Good(k + 1)
        <5> HIDE DEF Missing, o, c, To
        <5> QED  BY <4>4, <4>5, <4>6, <4>7 DEF c
      <4> QED  BY <3>1, <4>8
    <3> QED  BY <2>10, <3>3, <3>4
  <2>11. Good(n)
    <3> HIDE DEF T
    <3>1. 0..n \subseteq T  BY <2>3, <2>9, <2>10, CountingUp
    <3> QED  BY <2>3, <3>1 DEF T
  <2>12. n \in 0..n  BY <2>3
  <2>13. CASE at[n].gap /\ Missing
    <3>1. ArchivedLoop(C, begin, end) = None  BY <2>4, <2>13
    <3> QED  BY <2>13, <3>1 DEF ArchivedBytes
  <2>14. CASE CopiedTo(at[n], C, begin, To(n))
    <3>1. CASE To(n) = end
      <4>1. ArchivedLoop(C, begin, end) = BytesOf(C, begin, end)
        BY <2>4, <2>14, <3>1 DEF CopiedTo
      <4>2. \A p \in begin..(end - 1) : \E c \in C : Covers(c, p)
        BY <2>14, <3>1 DEF CopiedTo
      <4> QED  BY <4>1, <4>2 DEF ArchivedBytes
    <3>2. CASE To(n) # end
      <4>1. To(n) < end  BY <2>6, <2>12, <3>2
      <4>2. Missing  BY <2>7, <2>12, <4>1
      <4>3. ArchivedLoop(C, begin, end) = None  BY <2>4, <2>14, <3>2 DEF CopiedTo
      <4> QED  BY <4>2, <4>3 DEF ArchivedBytes
    <3> QED  BY <3>1, <3>2
  <2> QED  BY <2>11, <2>13, <2>14
<1> QED  BY <1>1, <1>2

-------------------------------------------------------------------------------
(***************************************************************************)
(* compact_sealed: the buffer cut at range(0, total, target).              *)
(***************************************************************************)
\* Multiples of the target ascend.
LEMMA TimesGrows ==
  ASSUME NEW a \in Nat, NEW b \in Nat, a <= b, NEW t \in Nat
  PROVE  a * t \in Nat /\ b * t \in Nat /\ a * t <= b * t
<1> DEFINE d == b - a
<1>1. d \in Nat /\ b = a + d  OBVIOUS
<1> HIDE DEF d
<1>2. a * t \in Nat /\ d * t \in Nat  BY <1>1
<1>3. (a + d) * t = a * t + d * t  BY <1>1
<1> QED  BY <1>1, <1>2, <1>3

\* How many steps of `target` from off stay below n.
Pieces(n, off, target) ==
  CHOOSE m \in Nat : \A i \in Nat : i < m <=> off + i * target < n

\* There is such a number.
LEMMA PiecesCount ==
  ASSUME NEW n \in Nat, NEW off \in Nat, NEW target \in Nat \ {0}
  PROVE  /\ Pieces(n, off, target) \in Nat
         /\ \A i \in Nat : i < Pieces(n, off, target) <=> off + i * target < n
<1> DEFINE T == {m \in Nat : n <= off + m * target}
<1>1. n \in T
  <2>1. n * 1 <= n * target
    <3>1. 1 * n <= target * n  BY TimesGrows
    <3>2. 1 * n = n * 1 /\ target * n = n * target  OBVIOUS
    <3> QED  BY <3>1, <3>2
  <2>2. n * target \in Nat /\ n * 1 = n  OBVIOUS
  <2> QED  BY <2>1, <2>2
<1>2. PICK m \in T : \A j \in T : m <= j
  <2>1. T \subseteq Nat /\ T # {}  BY <1>1
  <2> HIDE DEF T
  <2> QED  BY <2>1, LeastNatural
<1>3. m \in Nat /\ n <= off + m * target  BY <1>2
<1>4. ASSUME NEW i \in Nat  PROVE i < m <=> off + i * target < n
  <2>1. i * target \in Nat /\ m * target \in Nat  BY <1>3
  <2>2. CASE i < m
    <3>1. i \notin T  BY <1>2, <1>3, <2>2
    <3>2. ~(n <= off + i * target)  BY <3>1
    <3> QED  BY <2>1, <2>2, <3>2
  <2>3. CASE m <= i
    <3>1. m * target <= i * target  BY <1>3, <2>3, TimesGrows
    <3> QED  BY <1>3, <2>1, <2>3, <3>1
  <2> QED  BY <1>3, <2>2, <2>3
<1>5. \E k \in Nat : \A i \in Nat : i < k <=> off + i * target < n  BY <1>3, <1>4
<1> QED  BY <1>5 DEF Pieces

\* One step further there is one piece less.
LEMMA PiecesNext ==
  ASSUME NEW n \in Nat, NEW off \in Nat, NEW target \in Nat \ {0}
  PROVE  /\ n <= off => Pieces(n, off, target) = 0
         /\ off < n => Pieces(n, off, target) = Pieces(n, off + target, target) + 1
<1> DEFINE m == Pieces(n, off, target)
           k == Pieces(n, off + target, target)
<1>1. m \in Nat /\ \A i \in Nat : i < m <=> off + i * target < n  BY PiecesCount
<1>2. k \in Nat /\ \A i \in Nat : i < k <=> (off + target) + i * target < n
  <2>1. off + target \in Nat  OBVIOUS
  <2> QED  BY <2>1, PiecesCount
<1> HIDE DEF m, k
<1>3. 0 < m <=> off < n
  <2>1. off + 0 * target = off  OBVIOUS
  <2> QED  BY <1>1, <2>1
<1>4. \A i \in Nat : i + 1 < m <=> i < k
  <2> TAKE i \in Nat
  <2>1. (i + 1) * target = i * target + target /\ i * target \in Nat /\ i + 1 \in Nat  OBVIOUS
  <2>2. off + (i + 1) * target = (off + target) + i * target  BY <2>1
  <2>3. i + 1 < m <=> off + (i + 1) * target < n  BY <1>1, <2>1
  <2>4. i < k <=> (off + target) + i * target < n  BY <1>2
  <2> QED  BY <2>2, <2>3, <2>4
<1>5. off < n => m = k + 1
  <2> SUFFICES ASSUME off < n  PROVE m = k + 1  OBVIOUS
  <2>1. m - 1 \in Nat  BY <1>1, <1>3
  <2>2. ~(k + 1 < m)  BY <1>2, <1>4
  <2>3. ~(m - 1 < k)
    <3>1. ~((m - 1) + 1 < m)  BY <1>1
    <3> QED  BY <1>4, <2>1, <3>1
  <2> QED  BY <1>1, <1>2, <2>1, <2>2, <2>3
<1>6. n <= off => m = 0  BY <1>1, <1>3
<1> QED  BY <1>5, <1>6 DEF m, k

\* The row that is cut at off.
CutAt(buffer, off, target) ==
  RowOf(off, SubSeq(buffer, off + 1, Min({off + target, Len(buffer)})))

\* The recursion of the cut, in closed form.
LEMMA CutClosedForm ==
  ASSUME NEW buffer, Len(buffer) \in Nat, NEW target \in Nat \ {0}
  PROVE  CutLoop(buffer, target) =
           [i \in 1..Pieces(Len(buffer), 0, target) |-> CutAt(buffer, (i - 1) * target, target)]
<1> DEFINE n == Len(buffer)
           Row(off) == CutAt(buffer, off, target)
           M(off) == Pieces(n, off, target)
           Body(f, off) == IF off >= n THEN <<>> ELSE <<Row(off)>> \o f[off + target]
           g == [off \in Nat |-> [i \in 1..M(off) |-> Row(off + (i - 1) * target)]]
           cut == CHOOSE f : f = [off \in Nat |-> Body(f, off)]
           T == {Row(off) : off \in Nat}
<1>1. CutLoop(buffer, target) = cut[0]  BY DEF CutLoop, CutAt
<1> HIDE DEF Row, M
<1>2. \A off \in Nat : /\ M(off) \in Nat /\ off + target \in Nat
                       /\ n <= off => M(off) = 0
                       /\ off < n => M(off) = M(off + target) + 1
  BY PiecesCount, PiecesNext DEF M
<1>3. ASSUME NEW off \in Nat  PROVE g[off] = Body(g, off)
  <2>1. CASE n <= off
    <3>1. M(off) = 0  BY <1>2, <2>1
    <3> QED  BY <2>1, <3>1
  <2>2. CASE off < n
    <3> DEFINE x == <<Row(off)>>
               y == g[off + target]
               z == x \o y
    <3>1. M(off) = M(off + target) + 1 /\ M(off + target) \in Nat /\ off + target \in Nat
      BY <1>2, <2>2
    <3>2. y = [i \in 1..M(off + target) |-> Row((off + target) + (i - 1) * target)]  BY <3>1
    <3>3. x \in Seq(T) /\ Len(x) = 1 /\ x[1] = Row(off)  OBVIOUS
    <3>4. y \in Seq(T) /\ Len(y) = M(off + target)
      <4>1. \A i \in 1..M(off + target) : (off + target) + (i - 1) * target \in Nat  BY <3>1
      <4>2. y \in [1..M(off + target) -> T]  BY <3>2, <4>1
      <4> HIDE DEF y, T
      <4> QED  BY <3>1, <4>2
    <3>5. /\ z \in Seq(T) /\ Len(z) = M(off)
          /\ \A i \in 1..Len(z) : z[i] = IF i <= Len(x) THEN x[i] ELSE y[i - Len(x)]
      <4>1. /\ z \in Seq(T) /\ Len(z) = Len(x) + Len(y)
            /\ \A i \in 1..Len(z) : z[i] = IF i <= Len(x) THEN x[i] ELSE y[i - Len(x)]
        <5>1. x \in Seq(T) /\ y \in Seq(T)  BY <3>3, <3>4
        <5> HIDE DEF x, y, T
        <5> QED  BY <5>1
      <4>2. Len(x) + Len(y) = M(off)
        <5> HIDE DEF x, y
        <5> QED  BY <3>1, <3>3, <3>4
      <4> HIDE DEF x, y, z, T
      <4> QED  BY <4>1, <4>2
    <3>6. z = [i \in 1..M(off) |-> z[i]]
      <4> HIDE DEF z, T
      <4> QED  BY <1>2, <3>5
    <3>7. \A i \in 1..M(off) : z[i] = Row(off + (i - 1) * target)
      <4> TAKE i \in 1..M(off)
      <4>1. CASE i = 1
        <5>1. off + (i - 1) * target = off  BY <4>1
        <5>2. z[i] = x[1]
          <6> HIDE DEF x, y, z, T
          <6> QED  BY <3>3, <3>5, <4>1
        <5> QED  BY <3>3, <5>1, <5>2
      <4>2. CASE i # 1
        <5>1. i - 1 \in 1..M(off + target) /\ ~(i <= 1)  BY <3>1, <4>2
        <5>2. z[i] = y[i - 1]
          <6> HIDE DEF x, y, z, T
          <6> QED  BY <3>3, <3>5, <5>1
        <5>3. y[i - 1] = Row((off + target) + ((i - 1) - 1) * target)
          <6> HIDE DEF y
          <6> QED  BY <3>2, <5>1
        <5>4. ((i - 1) - 1) * target = (i - 1) * target - target
              /\ (i - 1) * target \in Int
          BY <5>1
        <5>5. (off + target) + ((i - 1) - 1) * target = off + (i - 1) * target  BY <5>4
        <5> QED  BY <5>2, <5>3, <5>5
      <4> QED  BY <4>1, <4>2
    <3>8. g[off] = [i \in 1..M(off) |-> Row(off + (i - 1) * target)]  OBVIOUS
    <3>9. g[off] = z
      <4> HIDE DEF g, z
      <4> QED  BY <3>6, <3>7, <3>8
    <3>10. Body(g, off) = z
      <4> HIDE DEF g
      <4> QED  BY <2>2
    <3> QED  BY <3>9, <3>10
  <2> QED  BY <2>1, <2>2
<1>4. g = [off \in Nat |-> Body(g, off)]
  <2>1. g = [off \in Nat |-> g[off]]  OBVIOUS
  <2> HIDE DEF g, Body
  <2> QED  BY <1>3, <2>1
<1>5. cut = [off \in Nat |-> Body(cut, off)]
  <2> HIDE DEF g, Body
  <2> QED  BY <1>4
<1> HIDE DEF cut
<1>6. \A off \in Nat : cut[off] = Body(cut, off)  BY <1>5
<1> DEFINE Same == {k \in 0..n : \A off \in Nat : off + k >= n => cut[off] = g[off]}
<1>7. 0 \in Same
  <2>1. ASSUME NEW off \in Nat, off + 0 >= n  PROVE cut[off] = g[off]
    <3>1. cut[off] = <<>> /\ g[off] = <<>>
      <4>1. off >= n  BY <2>1
      <4> HIDE DEF g
      <4> QED  BY <4>1, <1>3, <1>6
    <3> QED  BY <3>1
  <2> HIDE DEF g
  <2> QED  BY <2>1
<1>8. ASSUME NEW k \in 0..(n - 1), k \in Same  PROVE k + 1 \in Same
  <2>1. ASSUME NEW off \in Nat, off + (k + 1) >= n  PROVE cut[off] = g[off]
    <3>1. off + target \in Nat /\ (off + target) + k >= n  BY <2>1
    <3>2. cut[off + target] = g[off + target]
      <4> HIDE DEF g
      <4> QED  BY <1>8, <3>1
    <3> HIDE DEF g
    <3> QED  BY <1>3, <1>6, <3>2
  <2> HIDE DEF g
  <2> QED  BY <2>1
<1>9. n \in Same
  <2> HIDE DEF Same
  <2>1. 0..n \subseteq Same  BY <1>7, <1>8, CountingUp
  <2> QED  BY <2>1
<1>10. cut[0] = g[0]
  <2> HIDE DEF g
  <2>1. 0 + n >= n  OBVIOUS
  <2> QED  BY <1>9, <2>1
<1>11. g[0] = [i \in 1..M(0) |-> Row(0 + (i - 1) * target)]  OBVIOUS
<1>12. \A i \in 1..M(0) : 0 + (i - 1) * target = (i - 1) * target
  <2>1. \A i \in 1..M(0) : (i - 1) * target \in Int  OBVIOUS
  <2> QED  BY <2>1
<1>13. g[0] = [i \in 1..M(0) |-> Row((i - 1) * target)]
  <2> HIDE DEF g
  <2> QED  BY <1>11, <1>12
<1> QED  BY <1>1, <1>10, <1>13 DEF M, Row

\* The rows that tile a package are a table.
LEMMA TilesTable ==
  ASSUME NEW C, NEW n \in Nat, Tiles(C, n)
  PROVE  /\ Table(C) /\ Disjoint(C) /\ \A c \in C : RowIntact(c)
         /\ Contiguous(C) /\ Cursor(C) = n
<1>1. C \subseteq ChunkRow /\ \A c \in C : c.start_offset < c.end_offset /\ RowIntact(c)
  BY DEF Tiles
<1>2. Disjoint(C)  BY DEF Tiles, Disjoint
<1>3. \A c, d \in C : c.start_offset = d.start_offset => c = d
  BY <1>1, <1>2 DEF Disjoint, ChunkRow
<1>4. IsFiniteSet(C) /\ Complete(C, n)  BY TilesFinite, TilesComplete
<1> QED  BY <1>1, <1>2, <1>3, <1>4 DEF Table, Complete

\* What the cut writes are the rows of Rechunked, in their order.
THEOREM CutLoopWritesThePlan ==
  ASSUME NEW buffer \in Blobs, NEW target \in Nat \ {0}
  PROVE  CutLoop(buffer, target) = OrderedByStart(Rechunked(buffer, Len(buffer), target))
<1> DEFINE n == Len(buffer)
           N == Rechunked(buffer, n, target)
           m == Pieces(n, 0, target)
           r == CutLoop(buffer, target)
           K == StartOf(N)
<1>1. n \in Nat  BY BlobIsSequence
<1>2. Table(N)  BY <1>1, RechunkedKeepsBytes, TilesTable
<1>3. /\ K \in [N -> Nat] /\ Sorts(OrderedByStart(N), Cardinality(N), N, K)
  BY <1>2, OrderedSorts
<1>4. m \in Nat /\ \A i \in Nat : i < m <=> 0 + i * target < n  BY <1>1, PiecesCount
<1>5. r = [i \in 1..m |-> CutAt(buffer, (i - 1) * target, target)]  BY <1>1, CutClosedForm
<1>6. \A c : c \in N <=> \E k \in 0..n : k * target < n /\ c = CutAt(buffer, k * target, target)
  <2> DEFINE Row(span) == RowOf(span[1], SubSeq(buffer, span[1] + 1, span[2]))
             SpanOf(off) == <<off, Min({off + target, n})>>
  <2>1. \A off : Row(SpanOf(off)) = CutAt(buffer, off, target)  BY DEF CutAt
  <2>2. N = {Row(span) : span \in PlannedSpans(n, target)}  BY DEF Rechunked
  <2>3. PlannedSpans(n, target) = {SpanOf(off) : off \in SpanStarts(n, target)}
    BY DEF PlannedSpans, SpanEnd
  <2>4. SpanStarts(n, target) = {k * target : k \in {j \in 0..n : j * target < n}}
    BY DEF SpanStarts
  <2> HIDE DEF N, n, Row, SpanOf
  <2>5. \A c : c \in N <=> \E off \in SpanStarts(n, target) : c = CutAt(buffer, off, target)
    BY <2>1, <2>2, <2>3
  <2> QED  BY <2>4, <2>5
<1>7. \A k \in Nat : k * target < n => k \in 0..n
  <2> TAKE k \in Nat
  <2>1. 1 * k <= target * k  BY TimesGrows
  <2>2. 1 * k = k /\ target * k = k * target /\ k * target \in Nat  OBVIOUS
  <2> QED  BY <1>1, <2>1, <2>2
<1> HIDE DEF N, m, r, n
<1>8. \A i \in 1..m : i - 1 \in Nat /\ i - 1 < m  BY <1>4
<1>9. \A i \in 1..m : r[i] \in N /\ r[i].start_offset = (i - 1) * target
  <2> TAKE i \in 1..m
  <2>1. (i - 1) * target \in Nat /\ (i - 1) * target < n
    <3>1. (i - 1) * target \in Nat  BY <1>8
    <3>2. 0 + (i - 1) * target = (i - 1) * target  BY <3>1
    <3> QED  BY <1>4, <1>8, <3>1, <3>2
  <2>2. r[i] = CutAt(buffer, (i - 1) * target, target)  BY <1>5
  <2>3. i - 1 \in 0..n  BY <1>7, <1>8, <2>1
  <2>4. r[i] \in N  BY <1>6, <2>1, <2>2, <2>3
  <2>5. \A off : CutAt(buffer, off, target).start_offset = off  BY DEF CutAt, RowOf
  <2> QED  BY <2>2, <2>4, <2>5
<1>10. r \in [1..m -> N]  BY <1>5, <1>9
<1>11. \A i, j \in 1..m : i < j => K[r[i]] < K[r[j]]
  <2> TAKE i \in 1..m, j \in 1..m
  <2> SUFFICES ASSUME i < j  PROVE K[r[i]] < K[r[j]]  OBVIOUS
  <2>1. i \in Nat /\ i - 1 \in Nat /\ j - 1 \in Nat /\ i <= j - 1  BY <1>8
  <2>2. i * target <= (j - 1) * target  BY <2>1, TimesGrows
  <2>3. i * target = (i - 1) * target + target  BY <2>1
  <2>4. (i - 1) * target \in Nat /\ (j - 1) * target \in Nat /\ i * target \in Nat  BY <2>1
  <2>5. (i - 1) * target < (j - 1) * target  BY <2>2, <2>3, <2>4
  <2>6. K[r[i]] = r[i].start_offset /\ K[r[j]] = r[j].start_offset  BY <1>9 DEF StartOf
  <2> QED  BY <1>9, <2>5, <2>6
<1>12. \A c \in N : \E i \in 1..m : r[i] = c
  <2> TAKE c \in N
  <2>1. PICK k \in 0..n : k * target < n /\ c = CutAt(buffer, k * target, target)  BY <1>6
  <2>2. k \in Nat /\ k * target \in Nat  BY <1>1, <2>1
  <2>3. 0 + k * target = k * target  BY <2>2
  <2>4. k < m  BY <1>4, <2>1, <2>2, <2>3
  <2>5. k + 1 \in 1..m /\ (k + 1) - 1 = k  BY <1>4, <2>2, <2>4
  <2>6. r[k + 1] = c  BY <1>5, <2>1, <2>5
  <2> QED  BY <2>5, <2>6
<1>13. Sorts(r, m, N, K)  BY <1>10, <1>11, <1>12 DEF Sorts
<1>14. r = OrderedByStart(N)
  <2> HIDE DEF K
  <2> QED  BY <1>3, <1>4, <1>13, SortedOnce
<1> QED  BY <1>14 DEF r, N, n

-------------------------------------------------------------------------------
(***************************************************************************)
(* _parse_single_range.                                                    *)
(***************************************************************************)
\* The Range headers of a request.
LEMMA RangeHeader ==
  ASSUME NEW headers \in RangeHeaders
  PROVE  \/ headers = <<>>
         \/ Len(headers) = 2 /\ headers # <<>>
         \/ /\ headers = <<headers[1]>> /\ Len(headers) = 1
            /\ headers[1].first \in Nat \cup {Absent, NotDigits, TooLong}
            /\ headers[1].last \in Nat \cup {Absent, NotDigits, TooLong}
<1> DEFINE plain == [unit |-> "bytes", comma |-> FALSE, dashes |-> 1, first |-> 0, last |-> 0]
           ranges == [unit : {"bytes"}, comma : {FALSE}, dashes : {1},
                      first : Boundaries, last : Boundaries]
           written == ranges \cup {[plain EXCEPT !.unit = "other"], [plain EXCEPT !.comma = TRUE],
                              [plain EXCEPT !.dashes = 0], [plain EXCEPT !.dashes = 2]}
<1>1. headers \in {<<>>, <<plain, plain>>} \cup {<<h>> : h \in written}  BY DEF RangeHeaders
<1>2. ASSUME NEW h \in written
      PROVE  /\ h.first \in Nat \cup {Absent, NotDigits, TooLong}
             /\ h.last \in Nat \cup {Absent, NotDigits, TooLong}
  <2>1. CASE h \in ranges
    <3>1. h.first \in Boundaries /\ h.last \in Boundaries  BY <2>1
    <3> QED  BY <3>1, RangeAssumption
  <2>2. CASE h \in {[plain EXCEPT !.unit = "other"], [plain EXCEPT !.comma = TRUE],
                    [plain EXCEPT !.dashes = 0], [plain EXCEPT !.dashes = 2]}
    <3>1. h.first = 0 /\ h.last = 0  BY <2>2
    <3> QED  BY <3>1
  <2> QED  BY <2>1, <2>2
<1> HIDE DEF plain, written
<1>3. CASE headers = <<plain, plain>>
  <2>1. Len(<<plain, plain>>) = 2 /\ <<plain, plain>> # <<>>  OBVIOUS
  <2> QED  BY <1>3, <2>1
<1>4. CASE \E h \in written : headers = <<h>>
  <2>1. PICK h \in written : headers = <<h>>  BY <1>4
  <2>2. headers[1] = h /\ Len(headers) = 1  BY <2>1
  <2> QED  BY <1>2, <2>1, <2>2
<1> QED  BY <1>1, <1>3, <1>4

\* What a span is: the offsets asked for, inside the package.
SpanOf(span, offsets, total) ==
  /\ span.begin \in Nat /\ span.end \in Nat
  /\ span.begin <= span.end /\ span.end <= total
  /\ offsets = span.begin..(span.end - 1)

\* bytes=-n: the last n bytes.
LEMMA SuffixIsRight ==
  ASSUME NEW n \in Nat, NEW total \in Nat
  PROVE  LET span == SuffixRange(n, total)
             asked == {o \in 0..(total - 1) : o + n >= total}
         IN  IF asked = {} THEN span = Refused("range_not_satisfiable")
             ELSE span.code = None /\ SpanOf(span, asked, total)
<1> DEFINE asked == {o \in 0..(total - 1) : o + n >= total}
           begin == Max({total - n, 0})
<1>1. CASE n = 0 \/ total = 0
  <2>1. asked = {}  BY <1>1
  <2>2. SuffixRange(n, total) = Refused("range_not_satisfiable")  BY <1>1 DEF SuffixRange
  <2> QED  BY <2>1, <2>2
<1>2. CASE n # 0 /\ total # 0
  <2>1. begin = IF n <= total THEN total - n ELSE 0
    <3>1. CASE n <= total  BY <3>1 DEF Max
    <3>2. CASE total <= n  BY <3>2 DEF Max
    <3> QED  BY <3>1, <3>2
  <2>2. total - 1 \in asked  BY <1>2
  <2> HIDE DEF begin
  <2>3. asked = begin..(total - 1)  BY <2>1
  <2>4. begin \in Nat /\ begin <= total  BY <2>1
  <2>5. SuffixRange(n, total) = Span(begin, total)  BY <1>2 DEF SuffixRange, begin
  <2> HIDE DEF asked
  <2>6. SpanOf(SuffixRange(n, total), asked, total) /\ SuffixRange(n, total).code = None
    BY <2>3, <2>4, <2>5 DEF SpanOf, Span
  <2>7. asked # {}  BY <2>2
  <2> QED  BY <2>6, <2>7 DEF asked
<1> QED  BY <1>1, <1>2

\* bytes=first- and bytes=first-last.
LEMMA OpenOrClosedIsRight ==
  ASSUME NEW first \in Nat, NEW last \in Nat \cup {Absent}, NEW total \in Nat
  PROVE  LET span == OpenOrClosedRange(first, last, total)
             asked == {o \in 0..(total - 1) : first <= o /\ (last # Absent => o <= last)}
         IN  IF last # Absent /\ last < first THEN span = Refused("invalid_range")
             ELSE IF asked = {} THEN span = Refused("range_not_satisfiable")
             ELSE span.code = None /\ SpanOf(span, asked, total)
<1> DEFINE span == OpenOrClosedRange(first, last, total)
           asked == {o \in 0..(total - 1) : first <= o /\ (last # Absent => o <= last)}
           end == IF last = Absent THEN total ELSE Min({last + 1, total})
<1>1. CASE last # Absent /\ last < first  BY <1>1 DEF OpenOrClosedRange
<1>2. CASE ~(last # Absent /\ last < first) /\ first >= total
  <2>1. asked = {}  BY <1>2
  <2>2. span = Refused("range_not_satisfiable")  BY <1>2 DEF OpenOrClosedRange
  <2> QED  BY <1>2, <2>1, <2>2
<1>3. CASE ~(last # Absent /\ last < first) /\ first < total
  <2>1. span = Span(first, end)
    <3>1. ~(first >= total)  BY <1>3
    <3> QED  BY <1>3, <3>1 DEF OpenOrClosedRange
  <2>2. last # Absent => /\ end \in {last + 1, total} /\ end <= last + 1 /\ end <= total
                         /\ last \in Nat
    <3> SUFFICES ASSUME last # Absent  PROVE /\ end \in {last + 1, total} /\ end <= last + 1
                                             /\ end <= total /\ last \in Nat
      OBVIOUS
    <3>1. last \in Nat /\ last + 1 \in Nat  OBVIOUS
    <3> QED  BY <3>1, MaxOfTwo
  <2>3. last = Absent => end = total  OBVIOUS
  <2> HIDE DEF end
  <2>4. end \in Nat /\ first <= end /\ end <= total  BY <1>3, <2>2, <2>3
  <2>5. asked = first..(end - 1)
    <3>1. CASE last = Absent  BY <2>3, <3>1
    <3>2. CASE last # Absent  BY <2>2, <3>2
    <3> QED  BY <3>1, <3>2
  <2>6. first \in asked  BY <1>3
  <2> HIDE DEF asked, span
  <2>7. span.code = None /\ SpanOf(span, asked, total)
    BY <2>1, <2>4, <2>5 DEF Span, SpanOf
  <2>8. asked # {}  BY <2>6
  <2> QED  BY <1>3, <2>7, <2>8 DEF asked, span
<1> QED  BY <1>1, <1>2, <1>3

\* What _parse_single_range makes of a header: the offsets it names, or the refusal
\* that it deserves, unless int() raises.
LEMMA ParsesRight ==
  ASSUME NEW h, NEW total \in Nat,
         h.first \in Nat \cup {Absent, NotDigits, TooLong},
         h.last \in Nat \cup {Absent, NotDigits, TooLong}
  PROVE  IF WellFormed(h) /\ ~Convertible(h)
         THEN ParseRange(h, total) = Refused("server_error")
         ELSE IF RightCode(<<h>>, total) = "partial_content"
         THEN /\ ParseRange(h, total).code = None
              /\ SpanOf(ParseRange(h, total), Asked(h, total), total)
         ELSE ParseRange(h, total) = Refused(RightCode(<<h>>, total))
<1> DEFINE right == RightCode(<<h>>, total)
           span == ParseRange(h, total)
<1>0. right = IF ~WellFormed(h) THEN "invalid_range"
              ELSE IF Reversed(h) THEN "invalid_range"
              ELSE IF Asked(h, total) = {} THEN "range_not_satisfiable"
              ELSE "partial_content"
  <2>1. <<h>> # <<>> /\ Len(<<h>>) = 1 /\ <<h>>[1] = h  OBVIOUS
  <2> QED  BY <2>1 DEF RightCode
<1>1. CASE ~WellFormed(h)  BY <1>0, <1>1 DEF ParseRange
<1>2. CASE WellFormed(h) /\ ~Convertible(h)  BY <1>0, <1>2 DEF ParseRange
<1>3. CASE WellFormed(h) /\ Convertible(h) /\ h.first = Absent
  <2>1. h.last \in Nat  BY <1>3 DEF WellFormed, Convertible
  <2>2. ~Reversed(h)  BY <1>3, RangeAssumption DEF Reversed
  <2>3. Asked(h, total) = {o \in 0..(total - 1) : o + h.last >= total}
    BY <1>3 DEF Asked, Convertible
  <2>4. span = SuffixRange(h.last, total)  BY <1>3 DEF ParseRange
  <2>5. IF Asked(h, total) = {} THEN span = Refused("range_not_satisfiable")
        ELSE span.code = None /\ SpanOf(span, Asked(h, total), total)
    BY <2>1, <2>3, <2>4, SuffixIsRight
  <2> QED  BY <1>0, <1>3, <2>2, <2>5
<1>4. CASE WellFormed(h) /\ Convertible(h) /\ h.first # Absent
  <2>1. h.first \in Nat /\ h.last \in Nat \cup {Absent}
    BY <1>4 DEF WellFormed, Convertible
  <2>a. h.first # TooLong /\ (h.last # Absent <=> h.last \in Nat)
    BY <2>1, RangeAssumption
  <2>2. Reversed(h) <=> h.last # Absent /\ h.last < h.first
    BY <2>1, <2>a DEF Reversed
  <2>3. Asked(h, total) =
          {o \in 0..(total - 1) : h.first <= o /\ (h.last # Absent => o <= h.last)}
    BY <1>4, <2>a DEF Asked
  <2>4. span = OpenOrClosedRange(h.first, h.last, total)  BY <1>4 DEF ParseRange
  <2>5. IF h.last # Absent /\ h.last < h.first THEN span = Refused("invalid_range")
        ELSE IF Asked(h, total) = {} THEN span = Refused("range_not_satisfiable")
        ELSE span.code = None /\ SpanOf(span, Asked(h, total), total)
    <3> DEFINE first == h.first
               last == h.last
               asked == {o \in 0..(total - 1) : first <= o /\ (last # Absent => o <= last)}
    <3>1. first \in Nat /\ last \in Nat \cup {Absent}  BY <2>1
    <3>2. LET s == OpenOrClosedRange(first, last, total)
          IN  IF last # Absent /\ last < first THEN s = Refused("invalid_range")
              ELSE IF asked = {} THEN s = Refused("range_not_satisfiable")
              ELSE s.code = None /\ SpanOf(s, asked, total)
      <4> HIDE DEF first, last
      <4> QED  BY <3>1, OpenOrClosedIsRight
    <3> QED  BY <2>3, <2>4, <3>2
  <2> QED  BY <1>0, <1>4, <2>2, <2>5
<1> QED  BY <1>1, <1>2, <1>3, <1>4

\* So a request has a span inside the package exactly if it deserves its bytes and
\* int() reads its boundaries.
THEOREM RequestedSpanIsRight ==
  ASSUME NEW headers \in RangeHeaders, Total \in Nat
  PROVE  LET right == RightCode(headers, Total)
             span == RequestedSpan(headers)
         IN  IF ~Legible(headers)
             THEN span = Refused("server_error") /\ span.code # None
             ELSE IF right \in {"ok", "partial_content"}
             THEN /\ right = IF headers = <<>> THEN "ok" ELSE "partial_content"
                  /\ span.code = None /\ SpanOf(span, AskedOffsets(headers), Total)
             ELSE span = Refused(right) /\ span.code # None
<1> DEFINE right == RightCode(headers, Total)
           span == RequestedSpan(headers)
<1>1. CASE headers = <<>>
  <2>1. right = "ok" /\ AskedOffsets(headers) = 0..(Total - 1)
    BY <1>1 DEF RightCode, AskedOffsets
  <2>2. span = Span(0, Total)
    <3>1. ~(Len(<<>>) > 1)  OBVIOUS
    <3> QED  BY <1>1, <3>1 DEF RequestedSpan
  <2>3. SpanOf(span, AskedOffsets(headers), Total) /\ span.code = None
    BY <2>1, <2>2 DEF SpanOf, Span
  <2>4. Legible(headers)
    <3>1. Len(<<>>) # 1  OBVIOUS
    <3> QED  BY <1>1, <3>1 DEF Legible
  <2> QED  BY <1>1, <2>1, <2>3, <2>4
<1>2. CASE Len(headers) = 2 /\ headers # <<>>
  <2>1. right = "invalid_range" /\ span = Refused("invalid_range")
    BY <1>2 DEF RightCode, RequestedSpan
  <2>2. Legible(headers)  BY <1>2 DEF Legible
  <2> QED  BY <2>1, <2>2, RangeAssumption DEF Refused
<1>3. CASE /\ headers = <<headers[1]>> /\ Len(headers) = 1
           /\ headers[1].first \in Nat \cup {Absent, NotDigits, TooLong}
           /\ headers[1].last \in Nat \cup {Absent, NotDigits, TooLong}
  <2> DEFINE h == headers[1]
  <2>1. headers # <<>> /\ ~(Len(headers) > 1)
    <3>1. headers = <<>> => Len(headers) = 0  OBVIOUS
    <3>2. Len(headers) = 1  BY <1>3
    <3> QED  BY <3>1, <3>2
  <2>2. span = ParseRange(h, Total) /\ AskedOffsets(headers) = Asked(h, Total)
    BY <2>1 DEF RequestedSpan, AskedOffsets
  <2>3. right = RightCode(<<h>>, Total)  BY <1>3
  <2>a. Legible(headers) <=> ~(WellFormed(h) /\ ~Convertible(h))  BY <1>3 DEF Legible
  <2>4. IF ~Legible(headers) THEN span = Refused("server_error")
        ELSE IF right = "partial_content"
        THEN span.code = None /\ SpanOf(span, AskedOffsets(headers), Total)
        ELSE span = Refused(right)
    BY <1>3, <2>2, <2>3, <2>a, ParsesRight
  <2>5. right \in {"invalid_range", "range_not_satisfiable", "partial_content"}
    BY <2>1 DEF RightCode
  <2>6. /\ right # "partial_content" => Refused(right).code # None
        /\ Refused("server_error").code # None
    BY <2>5, RangeAssumption DEF Refused
  <2> HIDE DEF right, span
  <2> QED  BY <2>1, <2>4, <2>5, <2>6 DEF right, span
<1> QED  BY <1>1, <1>2, <1>3, RangeHeader

-------------------------------------------------------------------------------
(***************************************************************************)
(* Archives.                                                               *)
(***************************************************************************)
\* An archive that verifies tiles its package.
LEMMA VerifiesTiles ==
  ASSUME NEW C, Table(C), NEW total \in Nat, NEW whole_sha256,
         ArchiveVerifies(C, total, whole_sha256)
  PROVE  Tiles(C, total)
<1>1. Contiguous(C) /\ Cursor(C) = total /\ \A c \in C : RowIntact(c)
  BY DEF ArchiveVerifies, Complete
<1>2. /\ Disjoint(C) /\ \A c \in C : c.end_offset <= total
      /\ \A o \in 0..(total - 1) : \E c \in C : Covers(c, o)
  BY <1>1, ContiguousCovers
<1> QED  BY <1>1, <1>2 DEF Table, Disjoint, Tiles

\* And has a byte for every offset, once.
LEMMA TilesPartition ==
  ASSUME NEW C, NEW n \in Nat, Tiles(C, n)
  PROVE  BytesPartition(C, n)
<1>1. \A c \in C : /\ c.start_offset \in Nat /\ c.end_offset \in Nat /\ c.end_offset <= n
                   /\ Len(c.data) = c.end_offset - c.start_offset
  BY DEF Tiles, ChunkRow, RowIntact
<1>2. ASSUME NEW c \in C, NEW o  PROVE o \in Extent(c) <=> o \in Int /\ Covers(c, o)
  <2>1. c.start_offset + Len(c.data) - 1 = c.end_offset - 1  BY <1>1
  <2> QED  BY <1>1, <2>1 DEF Extent, Covers
<1>3. ASSUME NEW o \in UNION {Extent(c) : c \in C}  PROVE o \in 0..(n - 1)
  <2>1. PICK c \in C : o \in Extent(c)  BY <1>3
  <2>2. o \in Int /\ Covers(c, o)  BY <1>2, <2>1
  <2> QED  BY <1>1, <2>2 DEF Covers
<1>4. ASSUME NEW o \in 0..(n - 1)  PROVE o \in UNION {Extent(c) : c \in C}
  <2>1. PICK c \in C : Covers(c, o)  BY DEF Tiles
  <2>2. o \in Extent(c)  BY <1>2, <2>1
  <2> QED  BY <2>2
<1>5. ASSUME NEW c \in C, NEW d \in C, c # d  PROVE Extent(c) \cap Extent(d) = {}
  <2> SUFFICES ASSUME NEW o, o \in Extent(c), o \in Extent(d)  PROVE FALSE  OBVIOUS
  <2>1. o \in Int /\ Covers(c, o) /\ Covers(d, o)  BY <1>2
  <2>2. o \in Nat  BY <1>1, <2>1 DEF Covers
  <2> QED  BY <1>5, <2>1, <2>2, CoveredOnce
<1> QED  BY <1>3, <1>4, <1>5 DEF BytesPartition

\* The chunks of an upload tile the package, with its bytes, wherever they were cut.
LEMMA UploadedTiles ==
  ASSUME NEW x \in Blobs, NEW starts \in SUBSET (0..(Len(x) - 1)), x # <<>> => 0 \in starts
  PROVE  /\ Tiles(Uploaded(x, starts), Len(x))
         /\ Whole(Uploaded(x, starts), Len(x)) = x
<1> DEFINE n == Len(x)
           Ends(a) == {b \in starts \cup {n} : b > a}
           next(a) == Min(Ends(a))
           C == Uploaded(x, starts)
           Row(a) == RowOf(a, SubSeq(x, a + 1, next(a)))
<1>1. n \in 0..MaxBytes /\ n \in Nat /\ x \in [1..n -> Byte]
  <2>1. x \in Seq(Byte) /\ n \in 0..MaxBytes /\ x \in [1..n -> Byte]  BY BlobIsSequence
  <2> QED  BY <2>1, MaxBytesAssumption
<1>2. ASSUME NEW a \in starts
      PROVE  /\ a \in Nat /\ next(a) \in starts \cup {n} /\ next(a) \in Nat
             /\ a < next(a) /\ next(a) <= n
             /\ \A b \in starts : a < b => next(a) <= b
  <2>1. a \in Nat /\ a < n  BY <1>1
  <2>2. Ends(a) \subseteq Nat /\ n \in Ends(a)
    <3>1. starts \subseteq Nat /\ n \in Nat /\ n > a  BY <1>1, <2>1
    <3> HIDE DEF n
    <3> QED  BY <3>1
  <2>3. PICK m \in Ends(a) : \A b \in Ends(a) : m <= b
    <3> HIDE DEF Ends
    <3> QED  BY <2>2, LeastNatural
  <2>4. next(a) \in Ends(a) /\ \A b \in Ends(a) : next(a) <= b
    <3> HIDE DEF Ends
    <3> QED  BY <2>3 DEF Min
  <2> HIDE DEF next
  <2>5. \A b \in starts : a < b => b \in Ends(a)  BY <2>1
  <2> QED  BY <2>1, <2>2, <2>4, <2>5
<1>3. \A c : c \in C <=> \E a \in starts : c = Row(a)  BY DEF Uploaded
<1> HIDE DEF next, C, n
<1>4. ASSUME NEW a \in starts
      PROVE  /\ Row(a) \in ChunkRow /\ RowIntact(Row(a))
             /\ Row(a).start_offset = a /\ Row(a).end_offset = next(a)
             /\ \A i \in 1..(next(a) - a) : Row(a).data[i] = x[a + i]
  <2> DEFINE d == SubSeq(x, a + 1, next(a))
  <2>1. d \in Blobs /\ Len(d) = next(a) - a /\ \A i \in 1..(next(a) - a) : d[i] = x[a + i]
    <3>1. a \in Nat /\ next(a) \in Nat /\ a <= next(a) /\ next(a) <= Len(x)
      BY <1>2 DEF n
    <3> QED  BY <3>1, SliceIsBlob
  <2> HIDE DEF d
  <2>2. Sha256(d) \in Digests /\ a \in Nat /\ a + Len(d) = next(a) /\ next(a) \in Nat
    BY <1>2, <2>1, Sha256Assumption
  <2>3. Row(a) = RowOf(a, d)  BY DEF d
  <2> HIDE DEF Row
  <2>4. /\ Row(a).start_offset = a /\ Row(a).end_offset = next(a) /\ Row(a).data = d
        /\ Row(a).sha256 = Sha256(d) /\ Row(a) \in ChunkRow
    BY <2>1, <2>2, <2>3 DEF RowOf, ChunkRow
  <2> QED  BY <2>1, <2>2, <2>4 DEF RowIntact
<1> HIDE DEF Row
<1>5. ASSUME NEW c \in C
      PROVE  /\ c \in ChunkRow /\ c.start_offset < c.end_offset /\ c.end_offset <= n
             /\ RowIntact(c)
  BY <1>2, <1>3, <1>4
<1>6. ASSUME NEW o \in 0..(n - 1)  PROVE \E c \in C : Covers(c, o)
  <2>1. 0 \in starts
    <3>1. n # 0  BY <1>1
    <3>2. x # <<>>  BY <3>1 DEF n
    <3> QED  BY <3>2
  <2> DEFINE T == {o - a : a \in {b \in starts : b <= o}}
  <2>2. T \subseteq Nat  BY <1>1
  <2>3. T # {}  BY <2>1
  <2>4. PICK m \in T : \A k \in T : m <= k
    <3> HIDE DEF T
    <3> QED  BY <2>2, <2>3, LeastNatural
  <2>5. PICK a \in starts : a <= o /\ m = o - a  BY <2>4
  <2>6. \A b \in starts : b <= o => b <= a
    <3> TAKE b \in starts
    <3> SUFFICES ASSUME b <= o  PROVE b <= a  OBVIOUS
    <3>1. o - b \in T  OBVIOUS
    <3>2. o - a <= o - b  BY <2>4, <2>5, <3>1
    <3> QED  BY <1>1, <3>2
  <2>7. o < next(a)
    <3>1. next(a) \in starts /\ next(a) <= o => next(a) <= a  BY <2>6
    <3> QED  BY <1>1, <1>2, <2>5, <3>1
  <2>8. Row(a) \in C /\ Covers(Row(a), o)  BY <1>3, <1>4, <2>5, <2>7 DEF Covers
  <2> QED  BY <2>8
<1>7. ASSUME NEW c \in C, NEW d \in C, c # d
      PROVE  c.end_offset <= d.start_offset \/ d.end_offset <= c.start_offset
  <2>1. PICK a \in starts : c = Row(a)  BY <1>3
  <2>2. PICK b \in starts : d = Row(b)  BY <1>3
  <2>3. a < b \/ b < a  BY <1>2, <1>7, <2>1, <2>2
  <2> QED  BY <1>2, <1>4, <2>1, <2>2, <2>3
<1>8. Tiles(C, n)  BY <1>5, <1>6, <1>7 DEF Tiles
<1>9. ASSUME NEW o \in 0..(n - 1)  PROVE ByteAt(C, o) = x[o + 1]
  <2>1. PICK c \in C : Covers(c, o)  BY <1>6
  <2>2. PICK a \in starts : c = Row(a)  BY <1>3, <2>1
  <2>3. o \in Nat  OBVIOUS
  <2>4. ByteAt(C, o) = c.data[o - c.start_offset + 1]  BY <1>1, <1>8, <2>1, <2>3, ByteOfRow
  <2>5. a <= o /\ o < next(a) /\ c.start_offset = a  BY <1>4, <2>1, <2>2 DEF Covers
  <2>6. o - a + 1 \in 1..(next(a) - a) /\ a + (o - a + 1) = o + 1  BY <1>2, <2>5
  <2> QED  BY <1>4, <2>2, <2>4, <2>5, <2>6
<1>10. Whole(C, n) = x
  <2>1. Whole(C, n) = [i \in 1..n |-> ByteAt(C, i - 1)]
    <3>1. n - 0 = n /\ \A i \in Nat : 0 + i - 1 = i - 1  BY <1>1
    <3> QED  BY <1>1, <3>1 DEF Whole, BytesOf
  <2>2. \A i \in 1..n : ByteAt(C, i - 1) = x[i]
    <3> TAKE i \in 1..n
    <3>1. i - 1 \in 0..(n - 1) /\ (i - 1) + 1 = i  BY <1>1
    <3> QED  BY <1>9, <3>1
  <2>3. x = [i \in 1..n |-> x[i]]  BY <1>1
  <2> QED  BY <2>1, <2>2, <2>3
<1> QED  BY <1>8, <1>10 DEF C, n

-------------------------------------------------------------------------------
(***************************************************************************)
(* compact_sealed.                                                         *)
(***************************************************************************)
\* The SELECT behind the flush gives the objects of the session; where the table has
\* what was inserted, these are its rows in their order.
LEMMA ReselectedIsOrdered ==
  ASSUME NEW plan, NEW table, IsFiniteSet(DOMAIN table),
         \A k \in DOMAIN table : k \in DOMAIN plan => table[k] = plan[k],
         \A j, k \in DOMAIN table : table[j].start_offset = table[k].start_offset => j = k,
         NEW C, C = {table[k] : k \in DOMAIN table}, Table(C)
  PROVE  Reselected(table, plan) = OrderedByStart(C)
<1> DEFINE D == DOMAIN table
           n == Cardinality(D)
           K == [k \in D |-> table[k].start_offset]
           before(k) == {j \in D : table[j].start_offset < table[k].start_offset}
           nth(i) == CHOOSE k \in D : Cardinality(before(k)) = i - 1
           at == [i \in 1..n |-> nth(i)]
           rows == Reselected(table, plan)
<1>1. \A k \in D : table[k] \in C /\ table[k].start_offset \in Nat  BY DEF Table, ChunkRow
<1>2. K \in [D -> Nat] /\ \A x, y \in D : K[x] = K[y] => x = y  BY <1>1
<1>3. \A k \in D : before(k) = Before(D, K, k)  BY DEF Before
<1>4. rows = [i \in 1..n |-> IF nth(i) \in DOMAIN plan THEN plan[nth(i)] ELSE table[nth(i)]]
  BY DEF Reselected
<1>5. IsFiniteSet(D)  OBVIOUS
<1> HIDE DEF D, K, before
<1>6. /\ n \in Nat
      /\ \A i \in 1..n : \E k \in D : Cardinality(Before(D, K, k)) = i - 1
  BY <1>2, <1>5, Ranks
<1>7. \A i \in 1..n : nth(i) \in D /\ Cardinality(Before(D, K, nth(i))) = i - 1
  BY <1>3, <1>6
<1> HIDE DEF nth
<1>8. at \in [1..n -> D] /\ \A i \in 1..n : at[i] = nth(i)  BY <1>7
<1> HIDE DEF at
<1>9. Sorts(at, n, D, K)
  <2>1. \A i \in 1..n : Cardinality(Before(D, K, at[i])) = i - 1  BY <1>7, <1>8
  <2> QED  BY <1>2, <1>5, <1>8, <2>1, RankSorts
<1>10. \A i \in 1..n : rows[i] = table[at[i]]
  <2> TAKE i \in 1..n
  <2>1. rows[i] = IF nth(i) \in DOMAIN plan THEN plan[nth(i)] ELSE table[nth(i)]  BY <1>4
  <2> QED  BY <1>7, <1>8, <2>1 DEF D
<1> HIDE DEF rows
<1>11. rows \in [1..n -> C]
  <2>1. rows = [i \in 1..n |-> rows[i]]  BY <1>4
  <2>2. \A i \in 1..n : rows[i] \in C  BY <1>1, <1>8, <1>10
  <2> QED  BY <2>1, <2>2
<1>12. \A k \in D : K[k] = table[k].start_offset  BY DEF K
<1>13. \A i \in 1..n : StartOf(C)[rows[i]] = K[at[i]]
  BY <1>8, <1>10, <1>11, <1>12 DEF StartOf
<1>14. Sorts(rows, n, C, StartOf(C))
  <2>1. \A i, j \in 1..n : i < j => StartOf(C)[rows[i]] < StartOf(C)[rows[j]]
    BY <1>9, <1>13 DEF Sorts
  <2>2. ASSUME NEW c \in C  PROVE \E i \in 1..n : rows[i] = c
    <3>1. PICK k \in D : c = table[k]  BY DEF D
    <3>2. PICK i \in 1..n : at[i] = k  BY <1>9, <3>1 DEF Sorts
    <3> QED  BY <1>10, <3>1, <3>2
  <2> QED  BY <1>11, <2>1, <2>2 DEF Sorts
<1>15. StartOf(C) \in [C -> Nat] /\ Sorts(OrderedByStart(C), Cardinality(C), C, StartOf(C))
  BY OrderedSorts
<1>16. rows = OrderedByStart(C)  BY <1>6, <1>14, <1>15, SortedOnce
<1> QED  BY <1>16 DEF rows

\* The bytes that the re-verification hashes.
LEMMA ConcatContiguous ==
  ASSUME NEW C, Table(C), Contiguous(C), \A c \in C : Len(c.data) = c.end_offset - c.start_offset
  PROVE  FoldLeft(LAMBDA hashed, c : hashed \o c.data, <<>>, OrderedByStart(C))
           = Whole(C, Cursor(C))
<1> DEFINE r == OrderedByStart(C)
           n == Cardinality(C)
           Acc == Seq(Byte)
           base == <<>>
           Op(a, c) == a \o c.data
           F == [p \in (1..n) \X Acc |-> Op(p[2], r[p[1]])]
           Next1(f, s) == IF s = {} THEN base ELSE Op(f[s \ {Max(s)}], r[Max(s)])
           it == CHOOSE f : f = [s \in SUBSET (1..n) |-> Next1(f, s)]
<1>1. /\ n \in Nat /\ r \in [1..n -> C] /\ Len(r) = n
      /\ \A i \in 1..n : /\ r[i].start_offset \in Nat /\ r[i].end_offset \in Nat
                         /\ r[i].data \in Seq(Byte)
  BY OrderedRows
<1>2. base \in Acc  OBVIOUS
<1>3. \A k \in 1..n, a \in Acc : Op(a, r[k]) \in Acc
  <2> TAKE k \in 1..n, a \in Acc
  <2>1. r[k].data \in Seq(Byte) /\ a \in Seq(Byte)  BY <1>1
  <2> HIDE DEF r
  <2> QED  BY <2>1
<1>4. FoldLeft(LAMBDA hashed, c : hashed \o c.data, <<>>, OrderedByStart(C)) = it[1..n]
  <2>1. DOMAIN r = 1..n  BY <1>1
  <2> QED  BY <2>1 DEF FoldLeft, MapThenFoldSet
<1>5. \A i \in 1..n : Op(Whole(C, r[i].start_offset), r[i]) = Whole(C, r[i].end_offset)
  BY <1>1, ContiguousCovers, WholeExtends
<1>6. \A i \in 1..n : r[i].start_offset = EndOf(r, i - 1)  BY ContiguousRows
<1>7. Cursor(C) = EndOf(r, n)  BY OrderedCursor
<1> HIDE DEF Op, Acc, base, r, n
<1>8. F \in [(1..n) \X Acc -> Acc]  BY <1>3
<1>9. PICK f : Folded(f, n, Acc, base, F)
  <2> HIDE DEF F
  <2> QED  BY <1>1, <1>2, <1>8, FoldExists
<1>10. f = [s \in SUBSET (1..n) |-> Next1(f, s)]
  <2>1. ASSUME NEW s \in SUBSET (1..n)  PROVE f[s] = Next1(f, s)
    <3>1. CASE s = {}  BY <1>9, <3>1 DEF Folded
    <3>2. CASE s # {}
      <4>1. Max(s) \in 1..n  BY <1>1, <3>2, MaxOfIndices
      <4>2. s \ {Max(s)} \in SUBSET (1..n)  OBVIOUS
      <4>3. f[s \ {Max(s)}] \in Acc  BY <1>9, <4>2 DEF Folded
      <4>4. F[<<Max(s), f[s \ {Max(s)}]>>] = Op(f[s \ {Max(s)}], r[Max(s)])
        BY <4>1, <4>3
      <4> QED  BY <1>9, <3>2, <4>4 DEF Folded
    <3> QED  BY <3>1, <3>2
  <2> HIDE DEF Next1
  <2> QED  BY <1>9, <2>1 DEF Folded
<1>11. it = [s \in SUBSET (1..n) |-> Next1(it, s)]
  <2> HIDE DEF Next1
  <2> QED  BY <1>10
<1> HIDE DEF it
<1>12. FoldsWith(it, n, Acc, base, F)
  <2>1. \A s \in SUBSET (1..n) : s # {} => Max(s) \in 1..n  BY <1>1, MaxOfIndices
  <2>2. it[{}] = base  BY <1>11
  <2>3. \A s \in SUBSET (1..n) : s # {} => it[s] = Op(it[s \ {Max(s)}], r[Max(s)])  BY <1>11
  <2> QED  BY <2>1, <2>2, <2>3 DEF FoldsWith
<1>13. PICK at : Steps(at, it, n, Acc, base, F)
  <2> HIDE DEF F
  <2> QED  BY <1>1, <1>2, <1>8, <1>12, FoldSteps
<1> DEFINE T == {k \in 0..n : at[k] = Whole(C, EndOf(r, k))}
<1>14. 0 \in T
  <2>1. Whole(C, 0) = <<>>  BY NothingTiled
  <2> QED  BY <1>1, <1>13, <2>1 DEF Steps, EndOf, base
<1>15. ASSUME NEW k \in 0..(n - 1), k \in T  PROVE k + 1 \in T
  <2>1. k + 1 \in 1..n /\ (k + 1) - 1 = k /\ k + 1 \in 0..n /\ k \in 0..n /\ k + 1 # 0
    BY <1>1
  <2>2. at[k] \in Acc /\ at[k + 1] = F[<<k + 1, at[k]>>]  BY <1>13, <2>1 DEF Steps
  <2>3. at[k + 1] = Op(at[k], r[k + 1])  BY <2>1, <2>2
  <2>4. at[k] = Whole(C, r[k + 1].start_offset)  BY <1>6, <1>15, <2>1
  <2>5. EndOf(r, k + 1) = r[k + 1].end_offset  BY <2>1 DEF EndOf
  <2>6. at[k + 1] = Whole(C, EndOf(r, k + 1))  BY <1>5, <2>1, <2>3, <2>4, <2>5
  <2> QED  BY <2>1, <2>6
<1>16. n \in T
  <2> HIDE DEF T
  <2>1. 0..n \subseteq T  BY <1>1, <1>14, <1>15, CountingUp
  <2> QED  BY <1>1, <2>1
<1>17. it[1..n] = Whole(C, Cursor(C))  BY <1>7, <1>13, <1>16 DEF Steps
<1> QED  BY <1>4, <1>17

-------------------------------------------------------------------------------
(***************************************************************************)
(* The invariant.                                                          *)
(***************************************************************************)
\* In every table the loops compute what the definitions of ChunkLayout say.
LEMMA LoopsAgree ==
  ASSUME RowsAreATable
  PROVE  FinalizeAgrees /\ ArchivedBytesAgree /\ CompactionAgrees
<1>1. Table(chunks) /\ Offsets \subseteq Nat
  BY MaxBytesAssumption DEF RowsAreATable, Offsets
<1>2. FinalizeAgrees  BY <1>1, FinalizeComputesDigest DEF FinalizeAgrees
<1>3. ArchivedBytesAgree
  <2> SUFFICES ASSUME Disjoint(chunks), \A c \in chunks : RowIntact(c),
                      NEW begin \in Offsets, NEW end \in Offsets, begin <= end
               PROVE  ArchivedLoop(chunks, begin, end) = ArchivedBytes(chunks, begin, end)
    BY DEF ArchivedBytesAgree
  <2> QED  BY <1>1, ArchivedLoopCopies
<1>4. CompactionAgrees
  <2> SUFFICES ASSUME NEW total \in Offsets, Tiles(chunks, total),
                      NEW target \in 1..(MaxBytes + 1), NEW buffer, buffer = Whole(chunks, total)
               PROVE  CutLoop(buffer, target) = OrderedByStart(Rechunked(buffer, total, target))
    BY DEF CompactionAgrees
  <2>1. total \in 0..MaxBytes /\ total \in 0..total  BY <1>1 DEF Offsets
  <2>2. buffer \in Blobs /\ Len(buffer) = total  BY <2>1, WholeIsBlob
  <2>3. target \in Nat \ {0}  BY MaxBytesAssumption
  <2> QED  BY <2>2, <2>3, CutLoopWritesThePlan
<1> QED  BY <1>2, <1>3, <1>4

\* The length of the package.
LEMMA PackageLength ==
  ASSUME package \in Blobs
  PROVE  Total \in Nat /\ Total \in 0..MaxBytes /\ (Total = 0 <=> package = <<>>)
<1>1. package \in Seq(Byte) /\ Len(package) \in 0..MaxBytes  BY BlobIsSequence
<1> QED  BY <1>1, MaxBytesAssumption DEF Total

\* A package as it was uploaded.
LEMMA InitHolds == Init => ArchiveInv
<1> SUFFICES ASSUME Init  PROVE ArchiveInv  OBVIOUS
<1>1. package \in Blobs  BY ArchiveAssumption DEF Init
<1>2. Total \in Nat /\ (Total = 0 <=> package = <<>>)  BY <1>1, PackageLength
<1>3. PICK starts \in SUBSET (0..(Total - 1)) :
        /\ package # <<>> => 0 \in starts
        /\ chunks = Uploaded(package, starts)
  BY DEF Init
<1>4. Tiles(chunks, Total) /\ Whole(chunks, Total) = package
  BY <1>1, <1>3, UploadedTiles DEF Total
<1>5. Table(chunks)  BY <1>2, <1>4, TilesTable
<1>6. package = <<>> => chunks = {}
  <2> SUFFICES ASSUME package = <<>>  PROVE chunks = {}  OBVIOUS
  <2>1. starts = {}  BY <1>2
  <2> QED  BY <1>3, <2>1 DEF Uploaded
<1>7. RowsAreATable  BY <1>1, <1>5, <1>6 DEF RowsAreATable, Init
<1>8. RowsHoldThePackage  BY <1>2, <1>4, TilesPartition DEF RowsHoldThePackage
<1> QED  BY <1>7, <1>8 DEF Init, ArchiveInv, ReaderHasItsSpan, RefusesTheDamaged, AnswersTheHeader

\* What a download answers, from the rows that are there by then: the bytes that were
\* asked for, or nothing.
LEMMA FetchAnswers ==
  ASSUME ArchiveInv, Fetch
  PROVE  \E headers \in RangeHeaders :
           /\ RightCode(headers, Total) \in {"ok", "partial_content"}
           /\ RightCode(headers, Total) = IF headers = <<>> THEN "ok" ELSE "partial_content"
           /\ \E span :
                /\ SpanOf(span, AskedOffsets(headers), Total)
                /\ reply' = IF ArchiveVerifies(chunks, Total, Digest)
                            THEN Reply(headers, RightCode(headers, Total), span,
                                       BytesOf(chunks, span.begin, span.end))
                            ELSE Reply(headers, "sealed_integrity_error", span, <<>>)
<1>1. reader # None /\ package \in Blobs /\ Table(chunks)
  BY DEF Fetch, ArchiveInv, RowsAreATable
<1>2. PICK headers \in RangeHeaders :
        /\ reader = [headers |-> headers, span |-> RequestedSpan(headers)]
        /\ RequestedSpan(headers).code = None
  BY <1>1 DEF ArchiveInv, ReaderHasItsSpan
<1>3. Total \in Nat /\ Total \in 0..MaxBytes  BY <1>1, PackageLength
<1> DEFINE right == RightCode(headers, Total)
           span == RequestedSpan(headers)
<1>4. /\ right \in {"ok", "partial_content"}
      /\ right = IF headers = <<>> THEN "ok" ELSE "partial_content"
      /\ SpanOf(span, AskedOffsets(headers), Total)
  BY <1>2, <1>3, RequestedSpanIsRight
<1>5. reader.headers = headers /\ reader.span = span  BY <1>2
<1> HIDE DEF right, span
<1> DEFINE body == ReadLoop(chunks, Total, Digest, span.begin, span.end)
<1>6. span.begin \in Nat /\ span.end \in Nat /\ span.begin <= span.end /\ span.end <= Total
  BY <1>4 DEF SpanOf
<1>7. body = IF ArchiveVerifies(chunks, Total, Digest)
             THEN BytesOf(chunks, span.begin, span.end) ELSE None
  BY <1>1, <1>3, <1>6, ReadLoopVerifies
<1>8. ArchiveVerifies(chunks, Total, Digest) => BytesOf(chunks, span.begin, span.end) # None
  <2> SUFFICES ASSUME ArchiveVerifies(chunks, Total, Digest)
               PROVE  BytesOf(chunks, span.begin, span.end) # None
    OBVIOUS
  <2>1. Tiles(chunks, Total)  BY <1>1, <1>3, VerifiesTiles
  <2>2. Whole(chunks, Total) \in Blobs /\ Len(Whole(chunks, Total)) = Total
    <3>1. Total \in 0..Total  BY <1>3
    <3> QED  BY <1>3, <2>1, <3>1, WholeIsBlob
  <2>3. BytesOf(chunks, span.begin, span.end)
          = SubSeq(Whole(chunks, Total), span.begin + 1, span.end)
    BY <1>3, <1>6, <2>1, BytesOfWhole
  <2>4. BytesOf(chunks, span.begin, span.end) \in Blobs  BY <1>6, <2>2, <2>3, SliceIsBlob
  <2> QED  BY <2>4, NoneAssumption
<1>9. reply' = IF body = None
               THEN Reply(headers, "sealed_integrity_error", span, <<>>)
               ELSE Reply(headers, IF headers = <<>> THEN "ok" ELSE "partial_content", span, body)
  BY <1>5 DEF Fetch
<1> HIDE DEF body
<1>10. reply' = IF ArchiveVerifies(chunks, Total, Digest)
                THEN Reply(headers, right, span, BytesOf(chunks, span.begin, span.end))
                ELSE Reply(headers, "sealed_integrity_error", span, <<>>)
  BY <1>4, <1>7, <1>8, <1>9
<1> QED  BY <1>4, <1>10 DEF right

\* The rows of an archive that storage left alone verify.
LEMMA UndamagedVerifies ==
  ASSUME RowsAreATable, RowsHoldThePackage, damages = 0, ~misstored
  PROVE  /\ Tiles(chunks, Total) /\ Whole(chunks, Total) = package
         /\ ArchiveVerifies(chunks, Total, Digest)
<1>1. Tiles(chunks, Total) /\ Whole(chunks, Total) = package  BY DEF RowsHoldThePackage
<1>2. Total \in Nat  BY PackageLength DEF RowsAreATable
<1>3. ArchiveVerifies(chunks, Total, Sha256(package))  BY <1>1, <1>2, TilesVerify
<1> QED  BY <1>1, <1>3 DEF Digest

\* A download changes no row, and its answer is right.
LEMMA FetchKeeps == ArchiveInv /\ Fetch => ArchiveInv'
<1> SUFFICES ASSUME ArchiveInv, Fetch  PROVE ArchiveInv'  OBVIOUS
<1>1. UNCHANGED <<package, chunks, damages, misstored>> /\ reader' = None  BY DEF Fetch
<1>2. Total' = Total  BY <1>1 DEF Total
<1>3. RowsAreATable'  BY <1>1 DEF ArchiveInv, RowsAreATable
<1>4. RowsHoldThePackage'  BY <1>1, <1>2 DEF ArchiveInv, RowsHoldThePackage
<1>5. ReaderHasItsSpan'  BY <1>1 DEF ReaderHasItsSpan
<1>6. PICK headers \in RangeHeaders :
        /\ RightCode(headers, Total) \in {"ok", "partial_content"}
        /\ \E span :
             reply' = IF ArchiveVerifies(chunks, Total, Digest)
                      THEN Reply(headers, RightCode(headers, Total), span,
                                 BytesOf(chunks, span.begin, span.end))
                      ELSE Reply(headers, "sealed_integrity_error", span, <<>>)
  BY FetchAnswers
<1>7. PICK span :
        /\ RightCode(headers, Total) \in {"ok", "partial_content"}
        /\ reply' = IF ArchiveVerifies(chunks, Total, Digest)
                    THEN Reply(headers, RightCode(headers, Total), span,
                               BytesOf(chunks, span.begin, span.end))
                    ELSE Reply(headers, "sealed_integrity_error", span, <<>>)
  BY <1>6
<1>8. reply'.kind = "content" /\ reply'.headers = headers
  BY <1>7 DEF Reply
<1>9. RefusesTheDamaged'  BY <1>8 DEF RefusesTheDamaged
<1>10. damages \in Nat /\ misstored \in BOOLEAN  BY DEF ArchiveInv, RowsAreATable
<1>11. AnswersTheHeader'
  <2>1. CASE ArchiveVerifies(chunks, Total, Digest)
    <3>1. reply'.code = RightCode(headers, Total)  BY <1>7, <2>1 DEF Reply
    <3> QED  BY <1>2, <1>7, <1>8, <3>1 DEF AnswersTheHeader
  <2>2. CASE ~ArchiveVerifies(chunks, Total, Digest)
    <3>1. reply'.code = "sealed_integrity_error"  BY <1>7, <2>2 DEF Reply
    <3>2. damages > 0 \/ misstored  BY <1>10, <2>2, UndamagedVerifies DEF ArchiveInv
    <3> QED  BY <1>1, <1>2, <1>7, <1>8, <3>1, <3>2 DEF AnswersTheHeader
  <2> QED  BY <2>1, <2>2
<1> QED  BY <1>3, <1>4, <1>5, <1>9, <1>11 DEF ArchiveInv

\* A request is refused as it deserves, or remembers the span it asked for.
LEMMA GetKeeps ==
  ASSUME ArchiveInv, NEW headers \in RangeHeaders, Get(headers)
  PROVE  ArchiveInv'
<1>1. UNCHANGED <<package, chunks, damages, misstored>>  BY DEF Get
<1>2. Total' = Total /\ Total \in Nat  BY <1>1, PackageLength DEF Total, ArchiveInv, RowsAreATable
<1>3. RowsAreATable'  BY <1>1 DEF ArchiveInv, RowsAreATable
<1>4. RowsHoldThePackage'  BY <1>1, <1>2 DEF ArchiveInv, RowsHoldThePackage
<1> DEFINE right == RightCode(headers, Total)
           span == RequestedSpan(headers)
<1>5. IF ~Legible(headers) THEN span = Refused("server_error") /\ span.code # None
      ELSE IF right \in {"ok", "partial_content"} THEN span.code = None
      ELSE span = Refused(right) /\ span.code # None
  BY <1>2, RequestedSpanIsRight
<1>6. span' = span  BY <1>2 DEF RequestedSpan
<1>7. IF span.code # None THEN reply' = Reply(headers, span.code, span, <<>>) /\ reader' = None
      ELSE reader' = [headers |-> headers, span |-> span] /\ reply' = None
  BY DEF Get
<1>8. right \in {"ok", "partial_content", "invalid_range", "range_not_satisfiable"}
  BY DEF RightCode
<1>9. ReaderHasItsSpan'
  <2> HIDE DEF right
  <2>1. CASE span.code # None  BY <1>7, <2>1 DEF ReaderHasItsSpan
  <2>2. CASE span.code = None
    <3>1. reader' = [headers |-> headers, span |-> span']  BY <1>6, <1>7, <2>2
    <3>2. span'.code = None  BY <1>6, <2>2
    <3> QED  BY <3>1, <3>2 DEF ReaderHasItsSpan
  <2> QED  BY <2>1, <2>2
<1>10. RefusesTheDamaged' /\ AnswersTheHeader'
  <2>1. CASE span.code = None  BY <1>7, <2>1 DEF RefusesTheDamaged, AnswersTheHeader
  <2>2. CASE span.code # None
    <3> HIDE DEF right, span
    <3>1. reply'.kind = "content" /\ reply'.headers = headers /\ reply'.code = span.code
      BY <1>7, <2>2 DEF Reply
    <3>2. span.code # "sealed_integrity_error" /\ (Legible(headers) => span.code = right)
      BY <1>5, <1>8, <2>2 DEF Refused
    <3>3. RightCode(headers, Total') = right  BY <1>2 DEF right
    <3> QED  BY <3>1, <3>2, <3>3 DEF RefusesTheDamaged, AnswersTheHeader
  <2> QED  BY <2>1, <2>2
<1> QED  BY <1>3, <1>4, <1>9, <1>10 DEF ArchiveInv

-------------------------------------------------------------------------------
(***************************************************************************)
(* Storage.                                                                *)
(***************************************************************************)
\* A byte string with one byte altered.
LEMMA FlippedBlob ==
  ASSUME NEW x \in Blobs, NEW d \in Flips(x)
  PROVE  d \in Blobs /\ Len(d) = Len(x) /\ Len(d) > 0
<1>1. x \in [1..Len(x) -> Byte] /\ Len(x) \in 0..MaxBytes /\ Len(x) \in Nat
  BY BlobIsSequence, MaxBytesAssumption
<1>2. PICK i \in DOMAIN x, b \in Byte : d = [x EXCEPT ![i] = b]  BY DEF Flips
<1>3. i \in 1..Len(x)  BY <1>1, <1>2
<1>4. d \in [1..Len(x) -> Byte]  BY <1>1, <1>2
<1>5. d \in Blobs /\ Len(d) = Len(x)  BY <1>1, <1>4, FunctionIsBlob
<1> QED  BY <1>1, <1>3, <1>5

\* A row of a byte string.
LEMMA RowOfBlob ==
  ASSUME NEW o \in Nat, NEW d \in Blobs, Len(d) > 0
  PROVE  /\ RowOf(o, d) \in ChunkRow
         /\ RowOf(o, d).start_offset = o /\ RowOf(o, d).end_offset = o + Len(d)
         /\ RowOf(o, d).data = d /\ RowOf(o, d).sha256 = Sha256(d)
         /\ o < o + Len(d)
<1>1. Len(d) \in Nat /\ Sha256(d) \in Digests
  BY BlobIsSequence, Sha256Assumption, MaxBytesAssumption
<1> QED  BY <1>1 DEF RowOf, ChunkRow

\* A row with one byte, where the package has one.
LEMMA RowOfByte ==
  ASSUME package \in Blobs, package # <<>>, NEW o \in Nat, NEW b \in Byte
  PROVE  /\ <<b>> \in Blobs /\ Len(<<b>>) = 1
         /\ RowOf(o, <<b>>) \in ChunkRow
         /\ RowOf(o, <<b>>).start_offset = o /\ RowOf(o, <<b>>).end_offset = o + 1
         /\ RowOf(o, <<b>>).data = <<b>> /\ RowOf(o, <<b>>).sha256 = Sha256(<<b>>)
<1>1. 1 \in 0..MaxBytes
  <2>1. Total \in 0..MaxBytes /\ Total # 0  BY PackageLength
  <2> QED  BY <2>1, MaxBytesAssumption
<1>2. <<b>> \in [1..1 -> Byte]  OBVIOUS
<1>3. <<b>> \in Blobs /\ Len(<<b>>) = 1  BY <1>1, <1>2, FunctionIsBlob
<1> DEFINE x == <<b>>
<1> HIDE DEF x
<1>4. x \in Blobs /\ Len(x) = 1  BY <1>3 DEF x
<1>5. Len(x) > 0  BY <1>4
<1>6. /\ RowOf(o, x) \in ChunkRow
      /\ RowOf(o, x).start_offset = o /\ RowOf(o, x).end_offset = o + Len(x)
      /\ RowOf(o, x).data = x /\ RowOf(o, x).sha256 = Sha256(x)
  BY <1>4, <1>5, RowOfBlob
<1> QED  BY <1>4, <1>6 DEF x

\* A row in the place of another.
LEMMA ReplacedRow ==
  ASSUME NEW C, Table(C), NEW c \in C, NEW d \in ChunkRow,
         d.start_offset = c.start_offset, d.start_offset < d.end_offset
  PROVE  Table((C \ {c}) \cup {d})
<1> DEFINE D == (C \ {c}) \cup {d}
<1>1. IsFiniteSet(D)
  <2>1. IsFiniteSet(C \ {c})  BY FS_Difference DEF Table
  <2> QED  BY <2>1, FS_AddElement
<1>2. D \subseteq ChunkRow /\ \A e \in D : e.start_offset < e.end_offset  BY DEF Table
<1>3. \A e, f \in D : e.start_offset = f.start_offset => e = f  BY DEF Table
<1> QED  BY <1>1, <1>2, <1>3 DEF Table

\* A row at an offset where none starts.
LEMMA AlienRow ==
  ASSUME NEW C, Table(C), NEW d \in ChunkRow,
         \A c \in C : c.start_offset # d.start_offset, d.start_offset < d.end_offset
  PROVE  Table(C \cup {d})
<1> DEFINE D == C \cup {d}
<1>1. IsFiniteSet(D)  BY FS_AddElement DEF Table
<1>2. D \subseteq ChunkRow /\ \A e \in D : e.start_offset < e.end_offset  BY DEF Table
<1>3. \A e, f \in D : e.start_offset = f.start_offset => e = f  BY DEF Table
<1> QED  BY <1>1, <1>2, <1>3 DEF Table

\* Storage takes no row out of the table's constraints.
LEMMA DamagedTable ==
  ASSUME package \in Blobs, package # <<>>, Table(chunks),
         NEW c \in chunks, NEW rows \in Damages(c)
  PROVE  Table((chunks \ {c}) \cup rows)
<1>1. /\ c \in ChunkRow /\ c.start_offset \in Nat /\ c.end_offset \in Nat
      /\ c.data \in Blobs /\ c.sha256 \in Digests /\ c.start_offset < c.end_offset
  BY DEF Table, ChunkRow
<1>2. CASE rows = {}
  <2>1. (chunks \ {c}) \cup rows = chunks \ {c}  BY <1>2
  <2>2. IsFiniteSet(chunks \ {c})  BY FS_Difference DEF Table
  <2> QED  BY <2>1, <2>2 DEF Table
<1>3. CASE \E d \in Flips(c.data) : rows = {[c EXCEPT !.data = d]}
  <2>1. PICK d \in Flips(c.data) : rows = {[c EXCEPT !.data = d]}  BY <1>3
  <2>2. d \in Blobs  BY <1>1, FlippedBlob
  <2> DEFINE e == [c EXCEPT !.data = d]
  <2>3. e \in ChunkRow /\ e.start_offset = c.start_offset /\ e.end_offset = c.end_offset
    BY <1>1, <2>2 DEF ChunkRow
  <2> HIDE DEF e
  <2>4. rows = {e}  BY <2>1 DEF e
  <2> QED  BY <1>1, <2>3, <2>4, ReplacedRow
<1>4. CASE \E d \in Flips(c.data) : rows = {[c EXCEPT !.sha256 = Sha256(d)]}
  <2>1. PICK d \in Flips(c.data) : rows = {[c EXCEPT !.sha256 = Sha256(d)]}  BY <1>4
  <2>2. Sha256(d) \in Digests  BY <1>1, FlippedBlob, Sha256Assumption
  <2> DEFINE e == [c EXCEPT !.sha256 = Sha256(d)]
  <2>3. e \in ChunkRow /\ e.start_offset = c.start_offset /\ e.end_offset = c.end_offset
    BY <1>1, <2>2 DEF ChunkRow
  <2> HIDE DEF e
  <2>4. rows = {e}  BY <2>1 DEF e
  <2> QED  BY <1>1, <2>3, <2>4, ReplacedRow
<1>5. CASE \E d \in Flips(c.data) : rows = {RowOf(c.start_offset, d)}
  <2>1. PICK d \in Flips(c.data) : rows = {RowOf(c.start_offset, d)}  BY <1>5
  <2>2. d \in Blobs /\ Len(d) > 0  BY <1>1, FlippedBlob
  <2> DEFINE e == RowOf(c.start_offset, d)
  <2>3. e \in ChunkRow /\ e.start_offset = c.start_offset /\ e.start_offset < e.end_offset
    BY <1>1, <2>2, RowOfBlob
  <2> HIDE DEF e
  <2>4. rows = {e}  BY <2>1 DEF e
  <2> QED  BY <2>3, <2>4, ReplacedRow
<1>6. CASE c.data # <<>> /\ rows = {[c EXCEPT !.data = Tail(@)]}
  <2>1. Tail(c.data) \in Blobs
    <3>1. /\ c.data \in Seq(Byte) /\ Len(c.data) \in Nat /\ Len(c.data) \in 0..MaxBytes
          /\ c.data \in [1..Len(c.data) -> Byte]
      BY <1>1, BlobIsSequence, MaxBytesAssumption
    <3>2. Len(c.data) # 0  BY <1>6, <3>1
    <3>3. Len(c.data) - 1 \in 0..MaxBytes  BY <3>1, <3>2, MaxBytesAssumption
    <3>4. Tail(c.data) \in [1..(Len(c.data) - 1) -> Byte]
      <4> DEFINE x == c.data
      <4>1. x \in Seq(Byte) /\ x # <<>> /\ Len(x) \in Nat  BY <1>6, <3>1
      <4> HIDE DEF x
      <4>2. Tail(x) \in Seq(Byte) /\ Len(Tail(x)) = Len(x) - 1  BY <4>1
      <4> DEFINE y == Tail(x)
      <4> HIDE DEF y
      <4>3. y \in [1..Len(y) -> Byte]
        <5>1. y \in Seq(Byte)  BY <4>2 DEF y
        <5> QED  BY <5>1
      <4> QED  BY <4>2, <4>3 DEF x, y
    <3> QED  BY <3>3, <3>4, FunctionIsBlob
  <2> DEFINE d == Tail(c.data)
             e == [c EXCEPT !.data = d]
  <2>2. d \in Blobs /\ rows = {e}  BY <1>6, <2>1
  <2> HIDE DEF d
  <2>3. e \in ChunkRow /\ e.start_offset = c.start_offset /\ e.end_offset = c.end_offset
    BY <1>1, <2>2 DEF ChunkRow
  <2> HIDE DEF e
  <2> QED  BY <1>1, <2>2, <2>3, ReplacedRow
<1>7. CASE rows = {[c EXCEPT !.end_offset = @ + 1]}
  <2> DEFINE e == [c EXCEPT !.end_offset = @ + 1]
  <2>1. e \in ChunkRow /\ e.start_offset = c.start_offset /\ e.start_offset < e.end_offset
    BY <1>1 DEF ChunkRow
  <2> HIDE DEF e
  <2>2. rows = {e}  BY <1>7 DEF e
  <2> QED  BY <2>1, <2>2, ReplacedRow
<1>8. CASE \E o \in (0..Total) \ {d.start_offset : d \in chunks}, b \in Byte :
             rows = {c, RowOf(o, <<b>>)}
  <2>1. PICK o \in (0..Total) \ {d.start_offset : d \in chunks}, b \in Byte :
          rows = {c, RowOf(o, <<b>>)}
    BY <1>8
  <2>2. o \in Nat /\ \A d \in chunks : d.start_offset # o  BY PackageLength, <2>1
  <2> DEFINE e == RowOf(o, <<b>>)
  <2>3. e \in ChunkRow /\ e.start_offset = o /\ e.start_offset < e.end_offset
    BY <2>2, RowOfByte
  <2> HIDE DEF e
  <2>4. (chunks \ {c}) \cup rows = chunks \cup {e}  BY <2>1 DEF e
  <2> QED  BY <2>2, <2>3, <2>4, AlienRow
<1> QED  BY <1>2, <1>3, <1>4, <1>5, <1>6, <1>7, <1>8 DEF Damages

\* Storage alters a row: the rows remain a table.
LEMMA DamageKeeps == ArchiveInv /\ Damage => ArchiveInv'
<1> SUFFICES ASSUME ArchiveInv, Damage  PROVE ArchiveInv'  OBVIOUS
<1>1. UNCHANGED <<package, misstored, reader>> /\ reply' = None /\ damages' = damages + 1
  BY DEF Damage
<1>2. /\ package \in Blobs /\ Table(chunks) /\ (package = <<>> => chunks = {})
      /\ damages \in Nat /\ misstored \in BOOLEAN
  BY DEF ArchiveInv, RowsAreATable
<1>3. PICK c \in chunks : \E rows \in Damages(c) : chunks' = (chunks \ {c}) \cup rows
  BY DEF Damage
<1>4. package # <<>>  BY <1>2
<1>5. Table(chunks')  BY <1>2, <1>3, <1>4, DamagedTable
<1>6. damages' \in Nat /\ damages' # 0  BY <1>1, <1>2
<1>7. RowsAreATable'  BY <1>1, <1>2, <1>4, <1>5, <1>6 DEF RowsAreATable
<1>8. RowsHoldThePackage'  BY <1>6 DEF RowsHoldThePackage
<1>9. Total' = Total  BY <1>1 DEF Total
<1>10. \A headers : RequestedSpan(headers)' = RequestedSpan(headers)  BY <1>9 DEF RequestedSpan
<1>11. ReaderHasItsSpan'  BY <1>1, <1>10 DEF ArchiveInv, ReaderHasItsSpan
<1>12. RefusesTheDamaged' /\ AnswersTheHeader'
  BY <1>1 DEF RefusesTheDamaged, AnswersTheHeader
<1> QED  BY <1>7, <1>8, <1>11, <1>12 DEF ArchiveInv

-------------------------------------------------------------------------------
(***************************************************************************)
(* Compactions.                                                            *)
(***************************************************************************)
\* What a compaction gathers is a package of the same length.
LEMMA GatheredBlob ==
  ASSUME package \in Blobs, Table(chunks), Gathered(WalkRows(chunks)),
         NEW buffer, buffer = WalkRows(chunks).hashed
  PROVE  buffer \in Blobs /\ Len(buffer) = Total /\ Sha256(buffer) = Digest
<1>1. Len(buffer) = Total /\ Sha256(buffer) = Digest  BY DEF Gathered
<1>2. WalkRows(chunks) \in Walks
  <2> DEFINE r == OrderedByStart(chunks)
             n == Cardinality(chunks)
  <2>1. n \in Nat  BY OrderedRows
  <2>2. PICK at \in [0..n -> Walks] : WalkRows(chunks) = at[n]  BY WalkSteps
  <2> HIDE DEF n
  <2> QED  BY <2>1, <2>2
<1>3. buffer \in Seq(Byte)  BY <1>2 DEF Walks
<1>4. Total \in 0..MaxBytes  BY PackageLength
<1>5. buffer \in [1..Len(buffer) -> Byte]  BY <1>3
<1>6. buffer \in [1..Total -> Byte]  BY <1>1, <1>5
<1> QED  BY <1>1, <1>4, <1>6, FunctionIsBlob

\* Rows that hold the package are gathered, and give it.
LEMMA UndamagedIsGathered ==
  ASSUME RowsAreATable, RowsHoldThePackage, damages = 0, ~misstored
  PROVE  Gathered(WalkRows(chunks)) /\ WalkRows(chunks).hashed = package
<1>1. Tiles(chunks, Total) /\ Whole(chunks, Total) = package  BY UndamagedVerifies
<1>2. Total \in Nat  BY PackageLength DEF RowsAreATable
<1>3. /\ Table(chunks) /\ Contiguous(chunks) /\ Cursor(chunks) = Total
      /\ \A c \in chunks : RowIntact(c)
  BY <1>1, <1>2, TilesTable
<1>4. \A c \in chunks : Len(c.data) = c.end_offset - c.start_offset  BY <1>3 DEF RowIntact
<1>5. /\ ~WalkRows(chunks).broken /\ WalkRows(chunks).cursor = Total
      /\ WalkRows(chunks).hashed = package
  BY <1>1, <1>3, <1>4, WalkContiguous
<1>6. Len(package) = Total /\ Sha256(package) = Digest  BY DEF Total, Digest
<1> QED  BY <1>5, <1>6 DEF Gathered

\* A compaction that rewrites no row.
LEMMA ReplyKeeps ==
  ASSUME ArchiveInv, NEW code, CompactReply(code),
         UNCHANGED <<package, chunks, damages, misstored, reader>>,
         damages = 0 /\ ~misstored => code = "compacted"
  PROVE  ArchiveInv'
<1>1. reply'.kind = "compaction" /\ reply'.code = code  BY DEF CompactReply
<1>2. Total' = Total  BY DEF Total
<1>3. \A headers : RequestedSpan(headers)' = RequestedSpan(headers)  BY <1>2 DEF RequestedSpan
<1>4. RowsAreATable' /\ RowsHoldThePackage'
  BY <1>2 DEF ArchiveInv, RowsAreATable, RowsHoldThePackage
<1>5. ReaderHasItsSpan'  BY <1>3 DEF ArchiveInv, ReaderHasItsSpan
<1>6. RefusesTheDamaged' /\ AnswersTheHeader'
  BY <1>1 DEF RefusesTheDamaged, AnswersTheHeader
<1> QED  BY <1>4, <1>5, <1>6 DEF ArchiveInv

\* A compaction refuses what it cannot gather, which storage altered.
LEMMA RefuseKeeps == ArchiveInv /\ Refuse => ArchiveInv'
<1> SUFFICES ASSUME ArchiveInv, Refuse  PROVE ArchiveInv'  OBVIOUS
<1>1. damages = 0 /\ ~misstored => Gathered(WalkRows(chunks))
  BY UndamagedIsGathered DEF ArchiveInv
<1>2. ~(damages = 0 /\ ~misstored)  BY <1>1 DEF Refuse
<1> QED  BY <1>2, ReplyKeeps DEF Refuse

\* A compaction that finds the rows as planned.
LEMMA LeaveAsPlannedKeeps ==
  ASSUME ArchiveInv, NEW target \in Targets, LeaveAsPlanned(target)
  PROVE  ArchiveInv'
BY ReplyKeeps DEF LeaveAsPlanned

\* A plan of the rows N, in their order.
PlanOf(plan, N, n) ==
  /\ Table(N) /\ plan = OrderedByStart(N)
  /\ n \in Nat /\ plan \in [1..n -> N] /\ DOMAIN plan = 1..n /\ Len(plan) = n
  /\ \A i, j \in 1..n : plan[i].start_offset = plan[j].start_offset => i = j
  /\ N = {plan[k] : k \in 1..n}

\* What the cut plans.
LEMMA PlanRows ==
  ASSUME NEW buffer \in Blobs, NEW target \in Nat \ {0},
         NEW plan, plan = CutLoop(buffer, target),
         NEW N, N = Rechunked(buffer, Len(buffer), target),
         NEW n, n = Cardinality(N)
  PROVE  /\ PlanOf(plan, N, n) /\ Tiles(N, Len(buffer)) /\ Whole(N, Len(buffer)) = buffer
         /\ \A c \in N : c.end_offset - c.start_offset <= target
<1>1. plan = OrderedByStart(N)  BY CutLoopWritesThePlan
<1>2. Len(buffer) \in Nat  BY BlobIsSequence, MaxBytesAssumption
<1>3. /\ Tiles(N, Len(buffer)) /\ Whole(N, Len(buffer)) = buffer
      /\ \A c \in N : c.end_offset - c.start_offset <= target
  BY RechunkedKeepsBytes
<1>4. Table(N)  BY <1>2, <1>3, TilesTable
<1>5. /\ n \in Nat /\ plan \in [1..n -> N] /\ Len(plan) = n
      /\ \A i, j \in 1..n : i < j => plan[i].start_offset < plan[j].start_offset
      /\ \A c \in N : \E i \in 1..n : plan[i] = c
      /\ \A i \in 1..n : plan[i].start_offset \in Nat
  BY <1>1, <1>4, OrderedRows
<1>6. N = {plan[k] : k \in 1..n}  BY <1>5
<1>7. \A i, j \in 1..n : plan[i].start_offset = plan[j].start_offset => i = j
  <2> TAKE i, j \in 1..n
  <2>1. i < j \/ j < i \/ i = j  BY <1>5
  <2> QED  BY <1>5, <2>1
<1> QED  BY <1>1, <1>3, <1>4, <1>5, <1>6, <1>7 DEF PlanOf

\* Rows that pass the walk and its totals are contiguous up to the declared length.
LEMMA PassingRows ==
  ASSUME NEW C, Table(C), NEW rows, rows = OrderedByStart(C), NEW target,
         WalkPasses(rows, target), TotalsPass(rows)
  PROVE  Contiguous(C) /\ Cursor(C) = Total
<1> DEFINE n == Cardinality(C)
<1>1. n \in Nat /\ rows \in [1..n -> C] /\ Len(rows) = n  BY OrderedRows
<1>2. rows # <<>> /\ rows[Len(rows)].end_offset = Total  BY DEF TotalsPass
<1>3. n # 0
  <2> SUFFICES ASSUME n = 0  PROVE FALSE  OBVIOUS
  <2>1. rows \in Seq(C)  BY OrderedRows
  <2> HIDE DEF n
  <2> QED  BY <1>1, <1>2, <2>1
<1>4. \A i \in 1..n : rows[i].start_offset = EndOf(rows, i - 1)
  <2> TAKE i \in 1..n
  <2>1. i \in DOMAIN rows  BY <1>1
  <2>2. rows[i].start_offset = IF i = 1 THEN 0 ELSE rows[i - 1].end_offset
    BY <2>1 DEF WalkPasses
  <2>3. i - 1 = 0 <=> i = 1  BY <1>1
  <2> QED  BY <2>2, <2>3 DEF EndOf
<1>5. Contiguous(C)  BY <1>4, ContiguousRows
<1>6. Cursor(C) = EndOf(rows, n)  BY OrderedCursor
<1> HIDE DEF n
<1> QED  BY <1>1, <1>2, <1>3, <1>5, <1>6 DEF EndOf

\* The rows of the plan pass.
LEMMA PlanPasses ==
  ASSUME NEW buffer \in Blobs, buffer # <<>>, Len(buffer) = Total, Sha256(buffer) = Digest,
         NEW target \in Nat \ {0}, NEW plan, plan = CutLoop(buffer, target)
  PROVE  /\ Reselected(plan, plan) = plan
         /\ WalkPasses(plan, target) /\ TotalsPass(plan)
<1> DEFINE N == Rechunked(buffer, Len(buffer), target)
           n == Cardinality(N)
<1>1. /\ PlanOf(plan, N, n) /\ Tiles(N, Len(buffer)) /\ Whole(N, Len(buffer)) = buffer
      /\ \A c \in N : c.end_offset - c.start_offset <= target
  BY PlanRows
<1> USE DEF PlanOf
<1>2. Total \in Nat /\ Total # 0
  <2>1. buffer \in Seq(Byte) /\ Len(buffer) \in 0..MaxBytes  BY BlobIsSequence
  <2> QED  BY <2>1, MaxBytesAssumption
<1> HIDE DEF N, n
<1>3. Contiguous(N) /\ Cursor(N) = Total /\ \A c \in N : RowIntact(c)
  BY <1>1, <1>2, TilesTable
<1>4. n # 0
  <2>1. 0 \in 0..(Total - 1)  BY <1>2
  <2>2. PICK c \in N : Covers(c, 0)  BY <1>1, <2>1 DEF Tiles
  <2> QED  BY <1>1, <2>2
<1>5. Reselected(plan, plan) = plan
  <2>1. IsFiniteSet(DOMAIN plan)  BY <1>1, FS_Interval
  <2>2. N = {plan[k] : k \in DOMAIN plan}  BY <1>1
  <2>3. \A k \in DOMAIN plan : k \in DOMAIN plan => plan[k] = plan[k]  OBVIOUS
  <2>4. \A j, k \in DOMAIN plan : plan[j].start_offset = plan[k].start_offset => j = k  BY <1>1
  <2>5. Table(N)  BY <1>1
  <2>6. Reselected(plan, plan) = OrderedByStart(N)
    BY <2>1, <2>2, <2>3, <2>4, <2>5, ReselectedIsOrdered
  <2> QED  BY <1>1, <2>6
<1>6. WalkPasses(plan, target)
  <2> SUFFICES ASSUME NEW i \in 1..n
               PROVE  /\ plan[i].start_offset = IF i = 1 THEN 0 ELSE plan[i - 1].end_offset
                      /\ WithinTarget(plan[i], target)
                      /\ Sha256(plan[i].data) = plan[i].sha256
    BY <1>1 DEF WalkPasses
  <2>1. plan[i] \in N  BY <1>1
  <2>2. WithinTarget(plan[i], target) /\ Sha256(plan[i].data) = plan[i].sha256
    BY <1>1, <1>3, <2>1 DEF WithinTarget, RowIntact
  <2>3. plan[i].start_offset = EndOf(plan, i - 1)  BY <1>1, <1>3, ContiguousRows DEF n
  <2>4. i - 1 = 0 <=> i = 1  BY <1>1
  <2> QED  BY <2>2, <2>3, <2>4 DEF EndOf
<1>7. TotalsPass(plan)
  <2>1. plan # <<>>  BY <1>1, <1>4
  <2>2. Cursor(N) = EndOf(plan, n)  BY <1>1, OrderedCursor DEF n
  <2>3. plan[Len(plan)].end_offset = Total  BY <1>1, <1>3, <1>4, <2>2 DEF EndOf
  <2>4. \A c \in N : Len(c.data) = c.end_offset - c.start_offset  BY <1>3 DEF RowIntact
  <2>5. FoldLeft(LAMBDA hashed, c : hashed \o c.data, <<>>, OrderedByStart(N)) = Whole(N, Cursor(N))
    BY <1>1, <1>3, <2>4, ConcatContiguous
  <2>6. FoldLeft(LAMBDA hashed, c : hashed \o c.data, <<>>, plan) = buffer
    BY <1>1, <1>3, <2>5
  <2> QED  BY <2>1, <2>3, <2>6 DEF TotalsPass
<1> QED  BY <1>5, <1>6, <1>7

\* A row in the place of another, with as many bytes.
LEMMA ReplacedExtent ==
  ASSUME NEW C, NEW total, BytesPartition(C, total), NEW c \in C, NEW d, Extent(d) = Extent(c)
  PROVE  BytesPartition((C \ {c}) \cup {d}, total)
<1> DEFINE D == (C \ {c}) \cup {d}
<1>1. UNION {Extent(e) : e \in D} = UNION {Extent(e) : e \in C}
  <2>1. ASSUME NEW o \in UNION {Extent(e) : e \in D}  PROVE o \in UNION {Extent(e) : e \in C}
    <3>1. PICK e \in D : o \in Extent(e)  BY <2>1
    <3>2. \E f \in C : Extent(e) = Extent(f)  OBVIOUS
    <3> QED  BY <3>1, <3>2
  <2>2. ASSUME NEW o \in UNION {Extent(e) : e \in C}  PROVE o \in UNION {Extent(e) : e \in D}
    <3>1. PICK e \in C : o \in Extent(e)  BY <2>2
    <3>2. \E f \in D : Extent(e) = Extent(f)  OBVIOUS
    <3> QED  BY <3>1, <3>2
  <2> QED  BY <2>1, <2>2
<1>2. \A e, f \in D : e # f => Extent(e) \cap Extent(f) = {}  BY DEF BytesPartition
<1> QED  BY <1>1, <1>2 DEF BytesPartition

\* A row that storage altered: one like it, with as many bytes.
LikeRow(row, c) ==
  /\ row \in ChunkRow /\ row.start_offset = c.start_offset /\ row.start_offset < row.end_offset
  /\ Extent(row) = Extent(c)

\* What storage makes of the rows of a plan: one altered, one lost, or an alien.
AlteredRow(table, plan, n) ==
  \E k \in 1..n : \E row : LikeRow(row, plan[k]) /\ table = [plan EXCEPT ![k] = row]

LostRow(table, plan, n) == \E k \in 1..n : table = [j \in (1..n) \ {k} |-> plan[j]]

GainedRow(table, plan, n) ==
  \E o \in 0..Total, b \in Byte :
    /\ \A k \in 1..n : plan[k].start_offset # o
    /\ table = [j \in {0} \cup 1..n |-> IF j = 0 THEN RowOf(o, <<b>>) ELSE plan[j]]

\* Storage does one of these.
LEMMA StoredRows ==
  ASSUME NEW N, Table(N), NEW n \in Nat, NEW plan \in [1..n -> N], NEW table \in Stored(plan)
  PROVE  AlteredRow(table, plan, n) \/ LostRow(table, plan, n) \/ GainedRow(table, plan, n)
<1>1. DOMAIN plan = 1..n  OBVIOUS
<1> DEFINE OneAltered == \E k \in DOMAIN plan : \E row \in Altered(plan[k]) : table = [plan EXCEPT ![k] = row]
           OneLost == \E k \in DOMAIN plan : table = [j \in (DOMAIN plan) \ {k} |-> plan[j]]
           OneAlien == \E alien \in Aliens(plan) :
             table = [j \in {0} \cup DOMAIN plan |-> IF j = 0 THEN alien ELSE plan[j]]
<1>2. OneAltered \/ OneLost \/ OneAlien
  <2> DEFINE S1 == UNION {{[plan EXCEPT ![k] = row] : row \in Altered(plan[k])} : k \in DOMAIN plan}
             S2 == {[j \in (DOMAIN plan) \ {k} |-> plan[j]] : k \in DOMAIN plan}
             S3 == {[j \in {0} \cup DOMAIN plan |-> IF j = 0 THEN alien ELSE plan[j]] :
                      alien \in Aliens(plan)}
  <2>1. Stored(plan) = (S1 \cup S2) \cup S3  BY DEF Stored
  <2>2. table \in S1 => OneAltered  OBVIOUS
  <2>3. table \in S2 => OneLost  OBVIOUS
  <2>4. table \in S3 => OneAlien  OBVIOUS
  <2> HIDE DEF S1, S2, S3, OneAltered, OneLost, OneAlien
  <2> QED  BY <2>1, <2>2, <2>3, <2>4
<1>3. ASSUME NEW k \in 1..n, NEW row \in Altered(plan[k])  PROVE LikeRow(row, plan[k])
  <2> DEFINE c == plan[k]
  <2>1. /\ c \in ChunkRow /\ c.start_offset \in Nat /\ c.end_offset \in Nat
        /\ c.data \in Blobs /\ c.start_offset < c.end_offset
    <3>1. c \in N  OBVIOUS
    <3> QED  BY <3>1 DEF Table, ChunkRow
  <2> HIDE DEF c
  <2>8. row \in Altered(c)  BY DEF c
  <2>2. CASE \E d \in Flips(c.data) : row = [c EXCEPT !.data = d]
    <3>1. PICK d \in Flips(c.data) : row = [c EXCEPT !.data = d]  BY <2>2
    <3>2. d \in Blobs /\ Len(d) = Len(c.data)  BY <2>1, FlippedBlob
    <3>3. row \in ChunkRow /\ row.start_offset = c.start_offset /\ row.end_offset = c.end_offset
          /\ row.data = d
      BY <2>1, <3>1, <3>2 DEF ChunkRow
    <3>4. Extent(row) = Extent(c)  BY <3>2, <3>3 DEF Extent
    <3> QED  BY <2>1, <3>3, <3>4 DEF LikeRow, c
  <2>3. CASE \E d \in Flips(c.data) : row = RowOf(c.start_offset, d)
    <3>1. PICK d \in Flips(c.data) : row = RowOf(c.start_offset, d)  BY <2>3
    <3>2. d \in Blobs /\ Len(d) > 0  BY <2>1, FlippedBlob
    <3>3. row \in ChunkRow /\ row.start_offset = c.start_offset /\ row.data = d
          /\ row.start_offset < row.end_offset
      <4> DEFINE o == c.start_offset
      <4>1. o \in Nat  BY <2>1
      <4>2. c.start_offset = o  OBVIOUS
      <4> HIDE DEF o
      <4>3. /\ RowOf(o, d) \in ChunkRow
            /\ RowOf(o, d).start_offset = o /\ RowOf(o, d).end_offset = o + Len(d)
            /\ RowOf(o, d).data = d /\ o < o + Len(d)
        BY <3>2, <4>1, RowOfBlob
      <4>4. row = RowOf(o, d)  BY <3>1, <4>2
      <4> QED  BY <4>2, <4>3, <4>4
    <3>4. Len(d) = Len(c.data)  BY <2>1, FlippedBlob
    <3>5. Extent(row) = Extent(c)  BY <3>3, <3>4 DEF Extent
    <3> QED  BY <3>3, <3>5 DEF LikeRow, c
  <2>4. CASE row = [c EXCEPT !.end_offset = @ + 1]
    <3>1. row \in ChunkRow /\ row.start_offset = c.start_offset /\ row.data = c.data
          /\ row.start_offset < row.end_offset
      BY <2>1, <2>4 DEF ChunkRow
    <3>2. Extent(row) = Extent(c)  BY <3>1 DEF Extent
    <3> QED  BY <3>1, <3>2 DEF LikeRow, c
  <2> QED  BY <2>2, <2>3, <2>4, <2>8 DEF Altered
<1>4. CASE OneAltered
  <2>0. PICK k \in DOMAIN plan : \E row \in Altered(plan[k]) : table = [plan EXCEPT ![k] = row]
    BY <1>4
  <2>1. PICK row \in Altered(plan[k]) : table = [plan EXCEPT ![k] = row]  BY <2>0
  <2>2. k \in 1..n  BY <1>1
  <2>3. LikeRow(row, plan[k])  BY <1>3, <2>2
  <2> QED  BY <2>1, <2>2, <2>3 DEF AlteredRow
<1>5. CASE OneLost  BY <1>1, <1>5 DEF LostRow
<1>6. CASE OneAlien
  <2>1. PICK alien \in Aliens(plan) :
          table = [j \in {0} \cup DOMAIN plan |-> IF j = 0 THEN alien ELSE plan[j]]
    BY <1>6
  <2>2. PICK o \in (0..Total) \ {plan[k].start_offset : k \in DOMAIN plan}, b \in Byte :
          alien = RowOf(o, <<b>>)
    BY DEF Aliens
  <2>3. \A k \in 1..n : plan[k].start_offset # o  BY <1>1
  <2> QED  BY <1>1, <2>1, <2>2, <2>3 DEF GainedRow
<1> HIDE DEF OneAltered, OneLost, OneAlien
<1> QED  BY <1>2, <1>4, <1>5, <1>6

\* A rewrite that lost a row does not pass.
LEMMA LostRowFails ==
  ASSUME NEW N, Total \in Nat, Tiles(N, Total),
         NEW n, NEW plan, PlanOf(plan, N, n),
         NEW table, LostRow(table, plan, n),
         NEW target, WalkPasses(Reselected(table, plan), target), TotalsPass(Reselected(table, plan))
  PROVE  FALSE
<1>b. n \in Nat  BY DEF PlanOf
<1>a. /\ Table(N)
      /\ n \in Nat /\ plan \in [1..n -> N] /\ DOMAIN plan = 1..n /\ Len(plan) = n
      /\ \A i, j \in 1..n : plan[i].start_offset = plan[j].start_offset => i = j
      /\ N = {plan[k] : k \in 1..n}
  BY DEF PlanOf
<1>0. PICK k \in 1..n : table = [j \in (1..n) \ {k} |-> plan[j]]  BY DEF LostRow
<1> DEFINE D == (1..n) \ {k}
           C == {table[j] : j \in DOMAIN table}
           c == plan[k]
<1>1. DOMAIN table = D /\ \A j \in D : table[j] = plan[j] /\ j \in 1..n  BY <1>0
<1>2. C \subseteq N /\ c \notin C /\ c \in N
  <2>1. c \in N  BY <1>a
  <2>2. \A j \in D : plan[j] \in N  BY <1>a
  <2>3. \A j \in D : plan[j] # c  BY <1>a
  <2>4. \A d \in C : d \in N /\ d # c
    <3> SUFFICES ASSUME NEW j \in D  PROVE table[j] \in N /\ table[j] # c  BY <1>1
    <3> QED  BY <1>1, <2>2, <2>3
  <2> HIDE DEF C
  <2> QED  BY <2>1, <2>4
<1>3. IsFiniteSet(DOMAIN table)
  <2>1. IsFiniteSet(1..n)  BY <1>b, FS_Interval
  <2>2. IsFiniteSet(D)  BY <2>1, FS_Difference
  <2> HIDE DEF D
  <2> QED  BY <1>1, <2>2
<1>4. Table(C)
  <2>1. IsFiniteSet(C)  BY <1>2, <1>a, FS_Subset DEF Table
  <2> QED  BY <1>2, <1>a, <2>1 DEF Table
<1>5. Reselected(table, plan) = OrderedByStart(C)
  <2>1. \A j \in DOMAIN table : j \in DOMAIN plan => table[j] = plan[j]  BY <1>1, <1>a
  <2>2. \A i, j \in DOMAIN table : table[i].start_offset = table[j].start_offset => i = j
    BY <1>1, <1>a
  <2> HIDE DEF C
  <2>3. C = {table[j] : j \in DOMAIN table}  BY DEF C
  <2> QED  BY <1>3, <1>4, <2>1, <2>2, <2>3, ReselectedIsOrdered
<1> HIDE DEF C, c
<1>6. Contiguous(C) /\ Cursor(C) = Total  BY <1>4, <1>5, PassingRows
<1>7. \A o \in 0..(Total - 1) : \E d \in C : Covers(d, o)  BY <1>4, <1>6, ContiguousCovers
<1>8. c.start_offset \in Nat /\ c.start_offset < c.end_offset /\ c.end_offset <= Total
      /\ c.end_offset \in Nat
  BY <1>2 DEF Tiles, ChunkRow
<1>9. PICK d \in C : Covers(d, c.start_offset)
  <2>1. c.start_offset \in 0..(Total - 1)  BY <1>8
  <2> QED  BY <1>7, <2>1
<1>10. Covers(c, c.start_offset)  BY <1>8 DEF Covers
<1>11. c = d  BY <1>2, <1>8, <1>9, <1>10, <1>a, CoveredOnce, ZenonT(60)
<1> QED  BY <1>2, <1>9, <1>11

\* Nor does one that brought up an alien row.
LEMMA GainedRowFails ==
  ASSUME package \in Blobs, package # <<>>, NEW N, Total \in Nat, Tiles(N, Total),
         NEW n, NEW plan, PlanOf(plan, N, n),
         NEW table, GainedRow(table, plan, n),
         NEW target, WalkPasses(Reselected(table, plan), target), TotalsPass(Reselected(table, plan))
  PROVE  FALSE
<1>b. n \in Nat  BY DEF PlanOf
<1>a. /\ Table(N)
      /\ n \in Nat /\ plan \in [1..n -> N] /\ DOMAIN plan = 1..n /\ Len(plan) = n
      /\ \A i, j \in 1..n : plan[i].start_offset = plan[j].start_offset => i = j
      /\ N = {plan[k] : k \in 1..n}
  BY DEF PlanOf
<1>0. PICK o \in 0..Total, b \in Byte :
        /\ \A k \in 1..n : plan[k].start_offset # o
        /\ table = [j \in {0} \cup 1..n |-> IF j = 0 THEN RowOf(o, <<b>>) ELSE plan[j]]
  BY DEF GainedRow
<1> DEFINE e == RowOf(o, <<b>>)
           C == {table[j] : j \in DOMAIN table}
<1>1. /\ e \in ChunkRow /\ e.start_offset = o /\ e.end_offset = o + 1 /\ o \in Nat
      /\ e.start_offset < e.end_offset
  <2>1. o \in Nat  OBVIOUS
  <2>2. e \in ChunkRow /\ e.start_offset = o /\ e.end_offset = o + 1  BY <2>1, RowOfByte
  <2> HIDE DEF e
  <2> QED  BY <2>1, <2>2
<1>2. table = [j \in {0} \cup 1..n |-> IF j = 0 THEN e ELSE plan[j]]  BY <1>0
<1> HIDE DEF e
<1>3. DOMAIN table = {0} \cup 1..n /\ table[0] = e /\ \A j \in 1..n : table[j] = plan[j]
  BY <1>2
<1>c. N = {plan[k] : k \in 1..n}  BY DEF PlanOf
<1>4. C = N \cup {e}
  <2>1. \A x \in C : x \in N \cup {e}  BY <1>3, <1>c
  <2>2. \A x \in N \cup {e} : x \in C  BY <1>3, <1>c
  <2> QED  BY <2>1, <2>2
<1>5. \A c \in N : c.start_offset # e.start_offset  BY <1>0, <1>1, <1>c
<1> HIDE DEF C
<1>6. Table(C)
  <2>1. Table(N \cup {e})  BY <1>1, <1>5, <1>a, AlienRow
  <2> QED  BY <1>4, <2>1
<1>7. IsFiniteSet(DOMAIN table)
  <2>1. IsFiniteSet(1..n)  BY <1>b, FS_Interval
  <2>2. IsFiniteSet((1..n) \cup {0})  BY <2>1, FS_AddElement
  <2>3. DOMAIN table = (1..n) \cup {0}  BY <1>3
  <2> QED  BY <2>2, <2>3
<1>8. Reselected(table, plan) = OrderedByStart(C)
  <2>1. \A j \in DOMAIN table : j \in DOMAIN plan => table[j] = plan[j]  BY <1>3, <1>a
  <2>2. \A i, j \in DOMAIN table : table[i].start_offset = table[j].start_offset => i = j
    BY <1>0, <1>1, <1>3, <1>a
  <2>3. C = {table[j] : j \in DOMAIN table}  BY DEF C
  <2> QED  BY <1>6, <1>7, <2>1, <2>2, <2>3, ReselectedIsOrdered
<1>9. Contiguous(C) /\ Cursor(C) = Total  BY <1>6, <1>8, PassingRows
<1>10. Disjoint(C) /\ \A c \in C : c.end_offset <= Total  BY <1>6, <1>9, ContiguousCovers
<1>11. o \in 0..(Total - 1)  BY <1>1, <1>4, <1>10
<1>12. PICK c \in N : Covers(c, o)  BY <1>11 DEF Tiles
<1>13. c # e /\ c.start_offset \in Nat /\ c.end_offset \in Nat  BY <1>1, <1>5 DEF Tiles, ChunkRow
<1>14. c.end_offset <= e.start_offset \/ e.end_offset <= c.start_offset
  BY <1>4, <1>10, <1>13 DEF Disjoint
<1> QED  BY <1>1, <1>12, <1>13, <1>14 DEF Covers

\* The rows of a rewrite that is committed though storage altered them: they still have
\* a byte for every offset.
LEMMA RewrittenRows ==
  ASSUME package \in Blobs, package # <<>>,
         NEW buffer \in Blobs, Len(buffer) = Total,
         NEW target \in Nat \ {0}, NEW plan, plan = CutLoop(buffer, target),
         NEW table, table \in Stored(plan),
         WalkPasses(Reselected(table, plan), target), TotalsPass(Reselected(table, plan)),
         NEW C, C = {table[k] : k \in DOMAIN table}
  PROVE  Table(C) /\ BytesPartition(C, Total)
<1> DEFINE N == Rechunked(buffer, Len(buffer), target)
           n == Cardinality(N)
<1>1. Total \in Nat  BY PackageLength
<1>2. PlanOf(plan, N, n) /\ Tiles(N, Len(buffer))  BY PlanRows
<1> HIDE DEF N, n
<1>3. Tiles(N, Total)  BY <1>2
<1>4. AlteredRow(table, plan, n) \/ LostRow(table, plan, n) \/ GainedRow(table, plan, n)
  BY <1>2, StoredRows DEF PlanOf
<1>5. ~LostRow(table, plan, n)  BY <1>1, <1>2, <1>3, LostRowFails
<1>6. ~GainedRow(table, plan, n)  BY <1>1, <1>2, <1>3, GainedRowFails
<1>7. PICK k \in 1..n : \E row : LikeRow(row, plan[k]) /\ table = [plan EXCEPT ![k] = row]
  BY <1>4, <1>5, <1>6 DEF AlteredRow
<1>8. PICK row : LikeRow(row, plan[k]) /\ table = [plan EXCEPT ![k] = row]  BY <1>7
<1>a. /\ Table(N) /\ plan = OrderedByStart(N)
      /\ n \in Nat /\ plan \in [1..n -> N] /\ DOMAIN plan = 1..n /\ Len(plan) = n
      /\ \A i, j \in 1..n : plan[i].start_offset = plan[j].start_offset => i = j
      /\ N = {plan[j] : j \in 1..n}
  BY <1>2 DEF PlanOf
<1> DEFINE c == plan[k]
           D == (N \ {c}) \cup {row}
<1>9. c \in N  BY <1>a
<1>10. C = D
  <2>1. DOMAIN table = 1..n /\ table[k] = row /\ \A j \in 1..n : j # k => table[j] = plan[j]
    BY <1>a, <1>8
  <2>2. \A j \in 1..n : j # k => plan[j] # c  BY <1>a
  <2>3. C = {table[j] : j \in 1..n}  BY <2>1
  <2>4. \A d \in C : d \in D
    <3> SUFFICES ASSUME NEW j \in 1..n  PROVE table[j] \in D  BY <2>3
    <3>1. CASE j = k  BY <2>1, <3>1
    <3>2. CASE j # k  BY <1>a, <2>1, <2>2, <3>2
    <3> QED  BY <3>1, <3>2
  <2>5. \A d \in D : d \in C
    <3>1. row \in C  BY <2>1, <2>3
    <3>2. ASSUME NEW j \in 1..n, plan[j] # c  PROVE plan[j] \in C
      BY <2>1, <2>3, <3>2
    <3>3. \A d \in N : d # c => d \in C
      <4> SUFFICES ASSUME NEW d \in N, d # c  PROVE d \in C  OBVIOUS
      <4>1. PICK j \in 1..n : d = plan[j]  BY <1>a
      <4> QED  BY <3>2, <4>1
    <3> HIDE DEF c
    <3> QED  BY <3>1, <3>3
  <2> HIDE DEF D
  <2> QED  BY <2>4, <2>5
<1>11. /\ row \in ChunkRow /\ row.start_offset = c.start_offset
       /\ row.start_offset < row.end_offset /\ Extent(row) = Extent(c)
  BY <1>8 DEF LikeRow
<1> HIDE DEF c
<1>12. Table(D)  BY <1>a, <1>9, <1>11, ReplacedRow
<1>13. BytesPartition(N, Total)  BY <1>1, <1>3, TilesPartition
<1>14. BytesPartition(D, Total)  BY <1>9, <1>11, <1>13, ReplacedExtent
<1> HIDE DEF D
<1> QED  BY <1>10, <1>12, <1>14

\* An archive without bytes is as planned.
LEMMA NothingToRewrite ==
  ASSUME RowsAreATable, NEW target \in Targets, Rewrite(target)
  PROVE  package # <<>>
<1> SUFFICES ASSUME package = <<>>  PROVE FALSE  OBVIOUS
<1> DEFINE buffer == WalkRows(chunks).hashed
           plan == CutLoop(buffer, target)
           N == Rechunked(buffer, Len(buffer), target)
           n == Cardinality(N)
<1>1. package \in Blobs /\ Table(chunks) /\ chunks = {}  BY DEF RowsAreATable
<1>2. Gathered(WalkRows(chunks)) /\ LayoutOf(OrderedByStart(chunks)) # LayoutOf(plan)
  BY DEF Rewrite
<1>3. Total = 0  BY <1>1, PackageLength
<1>4. buffer \in Blobs /\ Len(buffer) = 0  BY <1>1, <1>2, <1>3, GatheredBlob
<1>5. target \in Nat \ {0}  BY ArchiveAssumption
<1> HIDE DEF buffer
<1>6. PlanOf(plan, N, n) /\ Tiles(N, Len(buffer))  BY <1>4, <1>5, PlanRows
<1> HIDE DEF N, n, plan
<1>7. N = {}
  <2>1. Tiles(N, 0)  BY <1>4, <1>6
  <2>2. \A c \in N : c.start_offset \in Nat /\ c.end_offset \in Nat /\ c.start_offset < c.end_offset /\ c.end_offset <= 0
    BY <2>1 DEF Tiles, ChunkRow
  <2>3. \A c \in N : FALSE  BY <2>2
  <2> QED  BY <2>3
<1>8. OrderedByStart(chunks) = plan  BY <1>1, <1>6, <1>7 DEF PlanOf
<1> QED  BY <1>2, <1>8

\* What changes in the rows of a rewrite keeps the rest.
LEMMA RewriteKeepsRest ==
  ASSUME ArchiveInv, NEW code, CompactReply(code), UNCHANGED <<package, damages, reader>>,
         misstored' \in BOOLEAN, package # <<>>, Table(chunks'),
         damages = 0 => BytesPartition(chunks', Total),
         damages = 0 /\ ~misstored' =>
           Tiles(chunks', Total) /\ Whole(chunks', Total) = package /\ code = "compacted"
  PROVE  ArchiveInv'
<1>1. reply'.kind = "compaction" /\ reply'.code = code  BY DEF CompactReply
<1>2. Total' = Total  BY DEF Total
<1>3. \A headers : RequestedSpan(headers)' = RequestedSpan(headers)  BY <1>2 DEF RequestedSpan
<1>4. RowsAreATable'  BY DEF ArchiveInv, RowsAreATable
<1>5. RowsHoldThePackage'  BY <1>2 DEF RowsHoldThePackage
<1>6. ReaderHasItsSpan'  BY <1>3 DEF ArchiveInv, ReaderHasItsSpan
<1>7. RefusesTheDamaged' /\ AnswersTheHeader'
  BY <1>1 DEF RefusesTheDamaged, AnswersTheHeader
<1> QED  BY <1>4, <1>5, <1>6, <1>7 DEF ArchiveInv

\* A compaction that rewrites: the rows of the plan, or a table with the same extents, or
\* none at all.
LEMMA RewriteKeeps ==
  ASSUME ArchiveInv, NEW target \in Targets, Rewrite(target)
  PROVE  ArchiveInv'
<1> DEFINE buffer == WalkRows(chunks).hashed
           plan == CutLoop(buffer, target)
           N == Rechunked(buffer, Len(buffer), target)
           n == Cardinality(N)
<1>1. /\ package \in Blobs /\ Table(chunks) /\ damages \in Nat /\ misstored \in BOOLEAN
      /\ RowsAreATable /\ RowsHoldThePackage
  BY DEF ArchiveInv, RowsAreATable
<1>2. package # <<>>  BY <1>1, NothingToRewrite
<1>3. target \in Nat \ {0}  BY ArchiveAssumption
<1>4. Gathered(WalkRows(chunks)) /\ UNCHANGED <<package, damages, reader>>  BY DEF Rewrite
<1>5. PICK table \in {plan} \cup (IF misstored THEN {} ELSE Stored(plan)) :
        /\ misstored' = (misstored \/ table # plan)
        /\ LET rows == Reselected(table, plan)
           IN  IF WalkPasses(rows, target) /\ TotalsPass(rows)
               THEN CompactReply("compacted") /\ chunks' = {table[k] : k \in DOMAIN table}
               ELSE CompactReply("compaction_integrity_error") /\ UNCHANGED chunks
  BY DEF Rewrite
<1>6. buffer \in Blobs /\ Len(buffer) = Total /\ Sha256(buffer) = Digest
  BY <1>1, <1>4, GatheredBlob
<1>7. damages = 0 /\ ~misstored => buffer = package  BY <1>1, UndamagedIsGathered
<1>8. Total \in Nat /\ Total # 0  BY <1>1, <1>2, PackageLength
<1> HIDE DEF buffer
<1>9. buffer # <<>>  BY <1>6, <1>8
<1>10. misstored' \in BOOLEAN  BY <1>1, <1>5
<1>11. damages = 0 => BytesPartition(chunks, Total)  BY <1>1 DEF RowsHoldThePackage
<1>12. CASE table = plan
  <2>1. Reselected(plan, plan) = plan /\ WalkPasses(plan, target) /\ TotalsPass(plan)
    BY <1>3, <1>6, <1>9, PlanPasses
  <2>2. PlanOf(plan, N, n) /\ Tiles(N, Len(buffer)) /\ Whole(N, Len(buffer)) = buffer
    BY <1>3, <1>6, PlanRows
  <2> HIDE DEF N, n, plan
  <2>3. CompactReply("compacted") /\ chunks' = {plan[k] : k \in DOMAIN plan}
    BY <1>5, <1>12, <2>1
  <2>4. chunks' = N /\ Table(N)  BY <2>2, <2>3 DEF PlanOf
  <2>5. Tiles(N, Total) /\ Whole(N, Total) = buffer  BY <1>6, <2>2
  <2>6. BytesPartition(N, Total)  BY <1>8, <2>5, TilesPartition
  <2>7. damages = 0 /\ ~misstored' => Whole(N, Total) = package  BY <1>5, <1>7, <2>5
  <2> QED  BY <1>2, <1>4, <1>10, <2>3, <2>4, <2>5, <2>6, <2>7, RewriteKeepsRest
<1>13. CASE table # plan
  <2> HIDE DEF plan
  <2>1. misstored' = TRUE /\ table \in Stored(plan)  BY <1>5, <1>13
  <2> DEFINE rows == Reselected(table, plan)
             C == {table[k] : k \in DOMAIN table}
  <2>2. CASE WalkPasses(rows, target) /\ TotalsPass(rows)
    <3>1. CompactReply("compacted") /\ chunks' = C  BY <1>5, <2>2
    <3>2. Table(C) /\ BytesPartition(C, Total)
      <4>1. plan = CutLoop(buffer, target)  BY DEF plan
      <4> HIDE DEF C
      <4>2. C = {table[k] : k \in DOMAIN table}  BY DEF C
      <4> QED  BY <1>1, <1>2, <1>3, <1>6, <2>1, <2>2, <4>1, <4>2, RewrittenRows
    <3> HIDE DEF C
    <3> QED  BY <1>2, <1>4, <1>10, <2>1, <3>1, <3>2, RewriteKeepsRest
  <2>3. CASE ~(WalkPasses(rows, target) /\ TotalsPass(rows))
    <3>1. CompactReply("compaction_integrity_error") /\ chunks' = chunks  BY <1>5, <2>3
    <3> QED  BY <1>1, <1>2, <1>4, <1>10, <1>11, <2>1, <3>1, RewriteKeepsRest
  <2> QED  BY <2>2, <2>3
<1> QED  BY <1>12, <1>13

\* A step that changes nothing.
LEMMA StutterKeeps == ArchiveInv /\ UNCHANGED vars => ArchiveInv'
<1> SUFFICES ASSUME ArchiveInv, UNCHANGED vars  PROVE ArchiveInv'  OBVIOUS
<1>1. UNCHANGED <<package, chunks, damages, misstored, reader, reply>>  BY DEF vars
<1>2. Total' = Total  BY <1>1 DEF Total
<1>3. \A headers : RequestedSpan(headers)' = RequestedSpan(headers)  BY <1>2 DEF RequestedSpan
<1>4. RowsAreATable' /\ RowsHoldThePackage'
  BY <1>1, <1>2 DEF ArchiveInv, RowsAreATable, RowsHoldThePackage
<1>5. ReaderHasItsSpan'  BY <1>1, <1>3 DEF ArchiveInv, ReaderHasItsSpan
<1>6. RefusesTheDamaged' /\ AnswersTheHeader'
  BY <1>1, <1>2 DEF ArchiveInv, RefusesTheDamaged, AnswersTheHeader
<1> QED  BY <1>4, <1>5, <1>6 DEF ArchiveInv

\* The invariant of the archive.
THEOREM ArchiveInvHolds == Spec => []ArchiveInv
<1>1. ArchiveInv /\ [Next]_vars => ArchiveInv'
  <2> SUFFICES ASSUME ArchiveInv, [Next]_vars  PROVE ArchiveInv'  OBVIOUS
  <2>1. CASE \E headers \in RangeHeaders : Get(headers)  BY <2>1, GetKeeps
  <2>2. CASE Fetch  BY <2>2, FetchKeeps
  <2>3. CASE Damage  BY <2>3, DamageKeeps
  <2>4. CASE Refuse  BY <2>4, RefuseKeeps
  <2>5. CASE \E target \in Targets : Rewrite(target)  BY <2>5, RewriteKeeps
  <2>6. CASE \E target \in Targets : LeaveAsPlanned(target)  BY <2>6, LeaveAsPlannedKeeps
  <2>7. CASE UNCHANGED vars  BY <2>7, StutterKeeps
  <2> QED  BY <2>1, <2>2, <2>3, <2>4, <2>5, <2>6, <2>7 DEF Next
<1> QED  BY <1>1, InitHolds, PTL DEF Spec

-------------------------------------------------------------------------------
(***************************************************************************)
(* What follows from it.                                                   *)
(***************************************************************************)
\* Every request is answered as its header asks, and a package that storage did not
\* damage is never refused as damaged: whatever the layout, and whatever compactions
\* come between the statements of a read.  Boundaries of more digits than int()
\* converts are the exception that OutsideIsUnsatisfiable is about.
THEOREM RequestsAnswered == Spec => []AnswersTheHeader
<1>1. ArchiveInv => AnswersTheHeader  BY DEF ArchiveInv
<1> QED  BY <1>1, ArchiveInvHolds, PTL

\* A compaction that lost a row, or gained one, is never committed: unless rows were
\* altered at rest, the archive has one byte for every offset, and a compaction is
\* refused only if storage altered what one wrote.
THEOREM CompactionsCommitThePlan == Spec => []CommitsThePlannedRows
<1>1. ArchiveInv => CommitsThePlannedRows
  BY DEF ArchiveInv, RowsHoldThePackage, BytesPartition, RefusesTheDamaged, CommitsThePlannedRows
<1> QED  BY <1>1, ArchiveInvHolds, PTL

\* Whatever storage did to the rows, finalization computes the digest that
\* ComputedDigest defines.
THEOREM FinalizationsAgree == Spec => []FinalizeAgrees
<1>1. ArchiveInv => FinalizeAgrees  BY LoopsAgree DEF ArchiveInv
<1> QED  BY <1>1, ArchiveInvHolds, PTL

\* The bytes that the replay rule compares are those that ArchivedBytes defines.
THEOREM ReplaysCompareArchivedBytes == Spec => []ArchivedBytesAgree
<1>1. ArchiveInv => ArchivedBytesAgree  BY LoopsAgree DEF ArchiveInv
<1> QED  BY <1>1, ArchiveInvHolds, PTL

\* Compaction of an archive that verifies writes the rows of Rechunked, in order.
THEOREM CompactionsRechunk == Spec => []CompactionAgrees
<1>1. ArchiveInv => CompactionAgrees  BY LoopsAgree DEF ArchiveInv
<1> QED  BY <1>1, ArchiveInvHolds, PTL

(***************************************************************************)
(* The bytes that leave.  The server knows the sealed package by its       *)
(* digest alone, so this holds as far as no other byte string has it.      *)
(***************************************************************************)
NoSecondPreimage ==
  \A p \in Packages : \A x \in Blobs : Sha256(x) = Sha256(p) => x = p

\* A step that is not a download's releases nothing.
LEMMA OnlyFetchReleases ==
  ASSUME ArchiveInv, ReleasesSealedBytes, [Next]_vars, ~Fetch
  PROVE  ReleasesSealedBytes'
<1>1. CASE \E headers \in RangeHeaders : Get(headers)
  <2>1. PICK headers \in RangeHeaders : Get(headers)  BY <1>1
  <2> DEFINE right == RightCode(headers, Total)
             span == RequestedSpan(headers)
  <2>2. Total \in Nat  BY PackageLength DEF ArchiveInv, RowsAreATable
  <2>3. IF ~Legible(headers) THEN span = Refused("server_error") /\ span.code # None
        ELSE IF right \in {"ok", "partial_content"} THEN span.code = None
        ELSE span = Refused(right) /\ span.code # None
    BY <2>2, RequestedSpanIsRight
  <2>4. IF span.code # None THEN reply' = Reply(headers, span.code, span, <<>>) ELSE reply' = None
    BY <2>1 DEF Get
  <2> HIDE DEF right, span
  <2>5. reply' # None => reply'.code \notin {"ok", "partial_content"}
    BY <2>3, <2>4 DEF Reply, Refused
  <2> QED  BY <2>5 DEF ReleasesSealedBytes
<1>2. CASE Damage  BY <1>2 DEF Damage, ReleasesSealedBytes
<1>3. CASE Refuse  BY <1>3 DEF Refuse, CompactReply, ReleasesSealedBytes
<1>4. CASE \E target \in Targets : Rewrite(target)
  <2>1. PICK target \in Targets : Rewrite(target)  BY <1>4
  <2>2. \E code : CompactReply(code)  BY <2>1 DEF Rewrite
  <2> QED  BY <2>2 DEF CompactReply, ReleasesSealedBytes
<1>5. CASE \E target \in Targets : LeaveAsPlanned(target)
  BY <1>5 DEF LeaveAsPlanned, CompactReply, ReleasesSealedBytes
<1>6. CASE UNCHANGED vars
  <2>1. UNCHANGED <<package, chunks, reply>>  BY <1>6 DEF vars
  <2>2. Total' = Total /\ Digest' = Digest  BY <2>1 DEF Total, Digest
  <2>3. \A headers : AskedOffsets(headers)' = AskedOffsets(headers)  BY <2>2 DEF AskedOffsets
  <2> QED  BY <2>1, <2>2, <2>3 DEF ReleasesSealedBytes
<1> QED  BY <1>1, <1>2, <1>3, <1>4, <1>5, <1>6 DEF Next

\* A download releases the bytes of the package that has the digest.
LEMMA FetchReleases ==
  ASSUME NoSecondPreimage, package \in Packages, ArchiveInv, Fetch
  PROVE  ReleasesSealedBytes'
<1>1. UNCHANGED <<package, chunks>>  BY DEF Fetch
<1>2. Total' = Total /\ Digest' = Digest  BY <1>1 DEF Total, Digest
<1>3. PICK headers \in RangeHeaders :
        \E span :
          /\ SpanOf(span, AskedOffsets(headers), Total)
          /\ reply' = IF ArchiveVerifies(chunks, Total, Digest)
                      THEN Reply(headers, RightCode(headers, Total), span,
                                 BytesOf(chunks, span.begin, span.end))
                      ELSE Reply(headers, "sealed_integrity_error", span, <<>>)
  BY FetchAnswers
<1>4. PICK span :
        /\ SpanOf(span, AskedOffsets(headers), Total)
        /\ reply' = IF ArchiveVerifies(chunks, Total, Digest)
                    THEN Reply(headers, RightCode(headers, Total), span,
                               BytesOf(chunks, span.begin, span.end))
                    ELSE Reply(headers, "sealed_integrity_error", span, <<>>)
  BY <1>3
<1>5. CASE ~ArchiveVerifies(chunks, Total, Digest)
  <2>1. reply'.code = "sealed_integrity_error"  BY <1>4, <1>5 DEF Reply
  <2> QED  BY <2>1 DEF ReleasesSealedBytes
<1>6. CASE ArchiveVerifies(chunks, Total, Digest)
  <2>1. /\ reply'.headers = headers /\ reply'.begin = span.begin /\ reply'.end = span.end
        /\ reply'.body = BytesOf(chunks, span.begin, span.end)
    BY <1>4, <1>6 DEF Reply
  <2>2. Total \in Nat /\ Total \in 0..MaxBytes /\ Table(chunks)
    BY PackageLength DEF ArchiveInv, RowsAreATable
  <2>3. Tiles(chunks, Total)  BY <1>6, <2>2, VerifiesTiles
  <2>4. Whole(chunks, Total) \in Blobs
    <3>1. Total \in 0..Total  BY <2>2
    <3> QED  BY <2>2, <2>3, <3>1, WholeIsBlob
  <2>5. Sha256(Whole(chunks, Total)) = Sha256(package)
    BY <1>6 DEF ArchiveVerifies, Digest
  <2>6. Whole(chunks, Total) = package  BY <2>4, <2>5 DEF NoSecondPreimage
  <2>7. /\ span.begin \in Nat /\ span.end \in Nat /\ span.begin <= span.end /\ span.end <= Total
        /\ AskedOffsets(headers) = span.begin..(span.end - 1)
    BY <1>4 DEF SpanOf
  <2>8. BytesOf(chunks, span.begin, span.end) = SubSeq(package, span.begin + 1, span.end)
    BY <2>2, <2>3, <2>6, <2>7, BytesOfWhole
  <2>9. AskedOffsets(headers)' = AskedOffsets(headers)  BY <1>2 DEF AskedOffsets
  <2> QED  BY <1>1, <1>2, <1>6, <2>1, <2>7, <2>8, <2>9 DEF ReleasesSealedBytes
<1> QED  BY <1>5, <1>6

\* The bytes that leave are exactly the sealed bytes that were asked for, whatever the
\* layout, and none leave an archive that does not verify as a whole: whatever storage
\* altered, at rest or in what a compaction wrote.
THEOREM DownloadsAreSealedBytes ==
  ASSUME NoSecondPreimage
  PROVE  Spec => []ReleasesSealedBytes
<1> DEFINE Inv == ArchiveInv /\ package \in Packages /\ ReleasesSealedBytes
<1>1. Init => Inv
  <2>1. Init => package \in Packages /\ ReleasesSealedBytes  BY DEF Init, ReleasesSealedBytes
  <2> QED  BY <2>1, InitHolds
<1>2. Inv /\ ArchiveInv' /\ [Next]_vars => Inv'
  <2> SUFFICES ASSUME Inv, ArchiveInv', [Next]_vars  PROVE Inv'  OBVIOUS
  <2>1. package' = package
    BY DEF Next, vars, Get, Fetch, Damage, Refuse, Rewrite, LeaveAsPlanned
  <2>2. ReleasesSealedBytes'
    <3>1. CASE Fetch  BY <3>1, FetchReleases
    <3>2. CASE ~Fetch  BY <3>2, OnlyFetchReleases
    <3> QED  BY <3>1, <3>2
  <2> QED  BY <2>1, <2>2
<1>3. Inv => ReleasesSealedBytes  OBVIOUS
<1> HIDE DEF Inv
<1> QED  BY <1>1, <1>2, <1>3, ArchiveInvHolds, PTL DEF Spec
===============================================================================
