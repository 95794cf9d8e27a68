--------------------------- MODULE AlgorithmsProofs ---------------------------
(***************************************************************************)
(* What the algorithms compute, for measurements of any size and content:  *)
(* comparisons, marginal gains, the rows of a report, and composites.      *)
(***************************************************************************)
EXTENDS MCAlgorithms, FiniteSetTheorems, SequenceTheorems, WellFoundedInduction, TLAPS

-----------------------------------------------------------------------------
(* Numbers and finite sets *)

\* The order of the natural numbers as a set of pairs.
Below == {pair \in Nat \X Nat : pair[1] < pair[2]}

\* A set of natural numbers that is not empty has a least element.
LEMMA LeastNumber ==
    ASSUME NEW T \in SUBSET Nat, T # {} PROVE \E n \in T : \A m \in T : n <= m
<1>1. OpToRel(<, Nat) = Below
  BY Zenon DEF OpToRel, Below
<1>2. IsWellFoundedOn(Below, Nat)
  BY <1>1, NatLessThanWellFounded, Zenon
<1>3. PICK n \in T : \A m \in T : <<m, n>> \notin Below
  BY <1>2, WFMin, Zenon
<1>4. ASSUME NEW m \in T PROVE n <= m
  <2>1. <<m, n>> \in Nat \X Nat /\ m \in Nat /\ n \in Nat
    OBVIOUS
  <2>2. m < n => <<m, n>> \in Below
    BY <2>1 DEF Below
  <2> QED
    BY <1>3, <2>1, <2>2
<1> QED
  BY <1>4

\* Induction: a set that has zero and every successor has every number.
LEMMA Induction ==
    ASSUME NEW T \in SUBSET Nat, 0 \in T, \A n \in T : n + 1 \in T PROVE T = Nat
<1> SUFFICES ASSUME T # Nat PROVE FALSE
  OBVIOUS
<1>1. Nat \ T \in SUBSET Nat /\ Nat \ T # {}
  OBVIOUS
<1>2. PICK n \in Nat \ T : \A m \in Nat \ T : n <= m
  BY <1>1, LeastNumber
<1>3. n - 1 \in Nat
  BY <1>2
<1>4. n - 1 \in T
  BY <1>2, <1>3
<1> QED
  BY <1>2, <1>3, <1>4

\* How many positions a sequence has.
LEMMA PositionCount ==
    ASSUME NEW n \in Nat PROVE IsFiniteSet(1..n) /\ Cardinality(1..n) = n
<1>1. 1 \in Int /\ n \in Int
  OBVIOUS
<1>2. IsFiniteSet(1..n) /\ Cardinality(1..n) = IF 1 > n THEN 0 ELSE n - 1 + 1
  BY <1>1, FS_Interval
<1> QED
  BY <1>2

\* A finite set of integers that is not empty has a greatest element.
LEMMA GreatestInteger ==
    ASSUME NEW T \in SUBSET Int, T # {}, IsFiniteSet(T) PROVE \E n \in T : \A m \in T : n >= m
<1> DEFINE Bounded(W) == \E n \in W : \A m \in W : n >= m
           Sizes == {n \in Nat : \A W \in SUBSET Int :
                       IsFiniteSet(W) /\ Cardinality(W) = n + 1 => Bounded(W)}
<1>1. 0 \in Sizes
  <2> SUFFICES ASSUME NEW W \in SUBSET Int, IsFiniteSet(W), Cardinality(W) = 0 + 1
               PROVE Bounded(W)
    OBVIOUS
  <2>1. W # {}
    BY FS_EmptySet
  <2>2. PICK x \in W : TRUE
    BY <2>1
  <2>3. IsFiniteSet(W \ {x}) /\ Cardinality(W \ {x}) = 0
    BY FS_RemoveElement
  <2>4. W \ {x} = {}
    BY <2>3, FS_EmptySet
  <2> QED
    BY <2>2, <2>4
<1>2. ASSUME NEW n \in Sizes PROVE n + 1 \in Sizes
  <2> SUFFICES ASSUME NEW W \in SUBSET Int, IsFiniteSet(W), Cardinality(W) = n + 1 + 1
               PROVE Bounded(W)
    OBVIOUS
  <2>1. W # {}
    BY FS_EmptySet
  <2>2. PICK x \in W : TRUE
    BY <2>1
  <2>3. IsFiniteSet(W \ {x}) /\ Cardinality(W \ {x}) = n + 1
    BY FS_RemoveElement
  <2>4. Bounded(W \ {x})
    BY <2>3
  <2> QED
    BY <2>2, <2>4
<1>3. Sizes = Nat
  <2>1. Sizes \in SUBSET Nat
    OBVIOUS
  <2> HIDE DEF Sizes
  <2> QED
    BY <1>1, <1>2, <2>1, Induction
<1>4. Cardinality(T) \in Nat /\ Cardinality(T) # 0
  BY FS_EmptySet, FS_CardinalityType
<1>5. Cardinality(T) - 1 \in Sizes
  BY <1>3, <1>4
<1> QED
  BY <1>4, <1>5

\* The values of a function on a finite set are finitely many.
LEMMA FiniteImage ==
    ASSUME NEW S, IsFiniteSet(S), NEW T, NEW f \in [S -> T] PROVE IsFiniteSet({f[x] : x \in S})
<1> DEFINE image == {f[x] : x \in S}
<1>1. f \in [S -> image]
  OBVIOUS
<1>2. f \in Surjection(S, image)
  BY <1>1 DEF Surjection
<1> HIDE DEF image
<1>3. IsFiniteSet(image)
  BY <1>2, FS_Surjection
<1> QED
  BY <1>3 DEF image

-----------------------------------------------------------------------------
(* Orders *)

\* Tuples are compared as numbers are.
LEMMA LessOrders ==
    ASSUME NEW n \in Nat, NEW s \in [1..n -> Int], NEW t \in [1..n -> Int], NEW u \in [1..n -> Int]
    PROVE /\ ~Less(s, s)
          /\ s # t => Less(s, t) \/ Less(t, s)
          /\ Less(s, t) /\ Less(t, u) => Less(s, u)
<1>1. ~Less(s, s)
  BY DEF Less
<1>2. ASSUME s # t PROVE Less(s, t) \/ Less(t, s)
  <2> DEFINE differ == {i \in 1..n : s[i] # t[i]}
  <2>1. differ # {} /\ differ \in SUBSET Nat
    <3>1. \E i \in 1..n : s[i] # t[i]
      BY <1>2
    <3>2. differ # {}
      BY <3>1
    <3>3. differ \in SUBSET Nat
      OBVIOUS
    <3> QED
      BY <3>2, <3>3
  <2>2. PICK i \in differ : \A j \in differ : i <= j
    BY <2>1, LeastNumber
  <2>3. \A j \in 1..(i - 1) : s[j] = t[j] /\ t[j] = s[j]
    BY <2>2
  <2>4. s[i] < t[i] \/ t[i] < s[i]
    BY <2>2
  <2> QED
    BY <2>2, <2>3, <2>4 DEF Less
<1>3. ASSUME Less(s, t), Less(t, u) PROVE Less(s, u)
  <2>1. PICK i \in 1..n : s[i] < t[i] /\ \A j \in 1..(i - 1) : s[j] = t[j]
    BY <1>3 DEF Less
  <2>2. PICK k \in 1..n : t[k] < u[k] /\ \A j \in 1..(k - 1) : t[j] = u[j]
    BY <1>3 DEF Less
  <2>3. CASE i <= k
    <3>1. s[i] < u[i]
      <4>1. CASE i = k
        BY <2>1, <2>2, <4>1
      <4>2. CASE i < k
        <5>1. t[i] = u[i]
          BY <2>2, <4>2
        <5> QED
          BY <2>1, <5>1
      <4> QED
        BY <2>3, <4>1, <4>2
    <3>2. \A j \in 1..(i - 1) : s[j] = u[j]
      BY <2>1, <2>2, <2>3
    <3> QED
      BY <3>1, <3>2 DEF Less
  <2>4. CASE k < i
    <3>1. s[k] = t[k]
      BY <2>1, <2>4
    <3>2. s[k] < u[k] /\ \A j \in 1..(k - 1) : s[j] = u[j]
      BY <2>1, <2>2, <2>4, <3>1
    <3> QED
      BY <3>2 DEF Less
  <2> QED
    BY <2>3, <2>4
<1> QED
  BY <1>1, <1>2, <1>3

\* The elements of S by ascending key, each of them once.
SortedBy(S, key, all) ==
    /\ all \in Seq(S) /\ Len(all) = Cardinality(S)
    /\ \A x \in S : \E i \in DOMAIN all : all[i] = x
    /\ \A i, j \in DOMAIN all : i < j => Less(key[all[i]], key[all[j]])

\* sort_by of src/query.rs and the ORDER BY of src/storage.rs, for any finite
\* set whose elements have different keys: everything is there once, and in
\* order.
THEOREM EverythingInOrder ==
    ASSUME NEW S, IsFiniteSet(S), NEW n \in Nat, NEW key \in [S -> [1..n -> Int]],
           \A x, y \in S : key[x] = key[y] => x = y
    PROVE SortedBy(S, key, InOrder(S, key))
<1> DEFINE before(x) == {y \in S : Less(key[y], key[x])}
           size == Cardinality(S)
           rank == [x \in S |-> Cardinality(before(x)) + 1]
           all == InOrder(S, key)
<1>1. all = [i \in 1..size |-> CHOOSE x \in S : Cardinality(before(x)) = i - 1]
  BY DEF InOrder
<1>2. size \in Nat /\ IsFiniteSet(1..size) /\ Cardinality(1..size) = size
  BY FS_CardinalityType, PositionCount
<1>3. ASSUME NEW x \in S
      PROVE /\ IsFiniteSet(before(x)) /\ Cardinality(before(x)) \in Nat
            /\ x \notin before(x) /\ before(x) \subseteq S
  <2>1. before(x) \in SUBSET S
    OBVIOUS
  <2>2. ~Less(key[x], key[x])
    BY LessOrders
  <2>3. IsFiniteSet(before(x))
    BY <2>1, FS_Subset
  <2>4. x \notin before(x)
    BY <2>2
  <2> QED
    BY <2>1, <2>3, <2>4, FS_CardinalityType
<1>4. ASSUME NEW x \in S PROVE rank[x] \in 1..size
  <2> DEFINE low == before(x)
  <2>1. IsFiniteSet(low) /\ Cardinality(low) \in Nat /\ x \notin low /\ low \in SUBSET S
    BY <1>3
  <2> HIDE DEF low
  <2>2. Cardinality(low) <= size /\ Cardinality(low) # size
    BY <2>1, FS_Subset
  <2>3. Cardinality(low) + 1 \in 1..size
    BY <1>2, <2>1, <2>2
  <2> QED
    BY <2>3 DEF low
<1>5. ASSUME NEW x \in S, NEW y \in S, Less(key[x], key[y]) PROVE rank[x] < rank[y]
  <2> DEFINE low == before(x)
             high == before(y)
  <2>1. low \subseteq high
    <3> SUFFICES ASSUME NEW z \in S, Less(key[z], key[x]) PROVE Less(key[z], key[y])
      OBVIOUS
    <3> QED
      BY <1>5, LessOrders
  <2>2. x \in high
    BY <1>5
  <2>3. /\ IsFiniteSet(high) /\ x \notin low /\ Cardinality(low) \in Nat
        /\ Cardinality(high) \in Nat
    BY <1>3
  <2>4. rank[x] = Cardinality(low) + 1 /\ rank[y] = Cardinality(high) + 1
    OBVIOUS
  <2> HIDE DEF low, high, rank
  <2>5. Cardinality(low) <= Cardinality(high) /\ Cardinality(low) # Cardinality(high)
    BY <2>1, <2>2, <2>3, FS_Subset
  <2> QED
    BY <2>3, <2>4, <2>5
<1>6. ASSUME NEW x \in S, NEW y \in S, rank[x] = rank[y] PROVE x = y
  <2> SUFFICES ASSUME x # y PROVE FALSE
    OBVIOUS
  <2>1. key[x] # key[y]
    OBVIOUS
  <2>2. Less(key[x], key[y]) \/ Less(key[y], key[x])
    BY <2>1, LessOrders
  <2>3. rank[x] \in Int /\ rank[y] \in Int
    BY <1>2, <1>4
  <2> HIDE DEF rank
  <2> QED
    BY <1>5, <1>6, <2>2, <2>3
<1>7. rank \in [S -> 1..size]
  BY <1>4
<1>8. \A x \in S : rank[x] = Cardinality(before(x)) + 1
  OBVIOUS
<1> HIDE DEF rank
<1>9. rank \in Injection(S, 1..size)
  BY <1>6, <1>7 DEF Injection, IsInjective
<1>10. rank \in Surjection(S, 1..size)
  BY <1>2, <1>9, FS_Injection
<1>11. ASSUME NEW i \in 1..size PROVE all[i] \in S /\ rank[all[i]] = i
  <2>1. PICK x \in S : rank[x] = i
    BY <1>10 DEF Surjection
  <2>2. \A y \in S : /\ Cardinality(before(y)) \in Nat
                     /\ rank[y] = Cardinality(before(y)) + 1
    BY <1>3, <1>8
  <2> HIDE DEF before, all
  <2>3. Cardinality(before(x)) = i - 1
    BY <2>1, <2>2
  <2>4. all[i] = CHOOSE y \in S : Cardinality(before(y)) = i - 1
    BY <1>1
  <2>5. all[i] \in S /\ Cardinality(before(all[i])) = i - 1
    BY <2>3, <2>4
  <2> QED
    BY <2>2, <2>5
<1>12. DOMAIN all = 1..size /\ all = [i \in 1..size |-> all[i]]
  BY <1>1
<1> HIDE DEF all
<1>13. all \in Seq(S) /\ Len(all) = size
  <2>1. all \in [1..size -> S]
    BY <1>11, <1>12
  <2> QED
    BY <1>2, <2>1
<1>14. ASSUME NEW x \in S PROVE \E i \in DOMAIN all : all[i] = x
  <2>1. rank[x] \in 1..size
    BY <1>7
  <2>2. all[rank[x]] \in S /\ rank[all[rank[x]]] = rank[x]
    BY <1>11, <2>1
  <2> QED
    BY <1>6, <1>12, <2>1, <2>2
<1>15. ASSUME NEW i \in DOMAIN all, NEW j \in DOMAIN all, i < j
       PROVE Less(key[all[i]], key[all[j]])
  <2>1. all[i] \in S /\ all[j] \in S /\ rank[all[i]] = i /\ rank[all[j]] = j
    BY <1>11, <1>12
  <2>2. i \in Int /\ j \in Int
    BY <1>2, <1>12
  <2>3. all[i] # all[j]
    BY <1>15, <2>1, <2>2
  <2>4. ~Less(key[all[j]], key[all[i]])
    BY <1>5, <1>15, <2>1, <2>2
  <2>5. key[all[i]] # key[all[j]] /\ key[all[i]] \in [1..n -> Int] /\ key[all[j]] \in [1..n -> Int]
    BY <2>1, <2>3
  <2> QED
    BY <2>4, <2>5, LessOrders
<1> QED
  BY <1>13, <1>14, <1>15 DEF SortedBy, all

\* A finite set of tuples that is not empty has a least one.
LEMMA LeastTuple ==
    ASSUME NEW n \in Nat, NEW S \in SUBSET [1..n -> Int], IsFiniteSet(S), S # {}
    PROVE \E s \in S : \A t \in S : s = t \/ Less(s, t)
<1> DEFINE key == [s \in S |-> s]
           all == InOrder(S, key)
<1>1. key \in [S -> [1..n -> Int]] /\ \A s, t \in S : key[s] = key[t] => s = t
  OBVIOUS
<1>2. \A s \in S : key[s] = s
  OBVIOUS
<1> HIDE DEF key, all
<1>3. SortedBy(S, key, all)
  BY <1>1, EverythingInOrder DEF all
<1>4. PICK x \in S : TRUE
  OBVIOUS
<1>5. PICK i \in DOMAIN all : all[i] = x
  BY <1>3, <1>4 DEF SortedBy
<1>6. 1 \in DOMAIN all /\ all[1] \in S
  BY <1>3, <1>5 DEF SortedBy
<1>7. ASSUME NEW t \in S PROVE all[1] = t \/ Less(all[1], t)
  <2>1. PICK j \in DOMAIN all : all[j] = t
    BY <1>3 DEF SortedBy
  <2>2. j = 1 \/ 1 < j
    BY <1>3, <2>1 DEF SortedBy
  <2>3. 1 < j => Less(key[all[1]], key[all[j]])
    BY <1>3, <1>6, <2>1 DEF SortedBy
  <2> QED
    BY <1>2, <1>6, <2>1, <2>2, <2>3
<1> QED
  BY <1>6, <1>7

-----------------------------------------------------------------------------
(* Sequences *)

\* What a part of a sequence has.
LEMMA Part ==
    ASSUME NEW S, NEW all \in Seq(S), NEW from \in Nat, NEW to \in Nat, from <= to, to <= Len(all)
    PROVE LET part == SubSeq(all, from + 1, to)
          IN /\ part \in Seq(S) /\ Len(part) = to - from /\ DOMAIN part = 1..(to - from)
             /\ \A i \in 1..(to - from) : part[i] = all[from + i] /\ from + i \in DOMAIN all
  OBVIOUS

\* A sequence that has the first items of another is a prefix of it.
LEMMA FirstItems ==
    ASSUME NEW S, NEW T, NEW s \in Seq(S), NEW t \in Seq(T), Len(s) <= Len(t),
           \A i \in DOMAIN s : s[i] = t[i]
    PROVE IsPrefix(s, t) /\ (Len(s) = Len(t) => s = t)
<1>1. SubSeq(s, 1, Len(s)) = SubSeq(t, 1, Len(s))
  OBVIOUS
<1>2. Len(s) = Len(t) => s = t
  OBVIOUS
<1> QED
  BY <1>1, <1>2 DEF IsPrefix

\* A sum over the first n numbers of a sequence.
LEMMA SumOneByOne ==
    ASSUME NEW size, NEW len \in Nat
    PROVE LET bytes[n \in 0..len] == IF n = 0 THEN 0 ELSE bytes[n - 1] + size[n]
          IN bytes[0] = 0 /\ \A n \in 1..len : bytes[n] = bytes[n - 1] + size[n]
<1> DEFINE Step(f, n) == IF n = 0 THEN 0 ELSE f[n - 1] + size[n]
           Solves(f, m) == f = [n \in 0..m |-> Step(f, n)]
           Lengths == {m \in Nat : \E f : Solves(f, m)}
           bytes == CHOOSE f : Solves(f, len)
<1>1. 0 \in Lengths
  <2> DEFINE f == [n \in 0..0 |-> 0]
  <2>1. Solves(f, 0)
    OBVIOUS
  <2> QED
    BY <2>1
<1>2. ASSUME NEW m \in Lengths PROVE m + 1 \in Lengths
  <2>1. PICK f : Solves(f, m)
    OBVIOUS
  <2> DEFINE g == [n \in 0..(m + 1) |-> IF n = m + 1 THEN f[m] + size[m + 1] ELSE f[n]]
  <2>2. \A n \in 0..m : g[n] = f[n]
    OBVIOUS
  <2>3. ASSUME NEW n \in 0..(m + 1) PROVE g[n] = Step(g, n)
    <3>1. CASE n = m + 1
      BY <2>2, <3>1
    <3>2. CASE n # m + 1
      <4>1. n \in 0..m /\ (n # 0 => n - 1 \in 0..m)
        BY <3>2
      <4>2. g[n] = f[n] /\ f[n] = Step(f, n)
        BY <2>1, <2>2, <4>1
      <4>3. n # 0 => g[n - 1] = f[n - 1]
        BY <2>2, <4>1
      <4> HIDE DEF g
      <4> QED
        BY <4>2, <4>3
    <3> QED
      BY <3>1, <3>2
  <2>4. g = [n \in 0..(m + 1) |-> g[n]]
    OBVIOUS
  <2> HIDE DEF g
  <2>5. Solves(g, m + 1)
    BY <2>3, <2>4
  <2>6. m + 1 \in Nat
    OBVIOUS
  <2> HIDE DEF Solves
  <2> QED
    BY <2>5, <2>6
<1>3. Lengths = Nat
  <2>1. Lengths \in SUBSET Nat
    OBVIOUS
  <2> HIDE DEF Lengths
  <2> QED
    BY <1>1, <1>2, <2>1, Induction
<1>4. \E f : Solves(f, len)
  BY <1>3
<1> HIDE DEF Lengths
<1>5. Solves(bytes, len)
  <2> HIDE DEF Solves
  <2> QED
    BY <1>4
<1> HIDE DEF bytes
<1>6. bytes[0] = 0
  BY <1>5
<1>7. \A n \in 1..len : bytes[n] = bytes[n - 1] + size[n]
  BY <1>5
<1> QED
  BY <1>6, <1>7 DEF bytes

\* t has one item more than s, at position i.
Shifted(i, m) == IF m < i THEN m ELSE m + 1
OneMore(s, t, i) ==
    /\ i \in DOMAIN t /\ Len(t) = Len(s) + 1
    /\ \A m \in DOMAIN s : t[Shifted(i, m)] = s[m]

\* The positions of the items that both have.
LEMMA ShiftedPositions ==
    ASSUME NEW S, NEW s \in Seq(S), NEW t \in Seq(S), NEW i, OneMore(s, t, i)
    PROVE /\ i \in 1..Len(t) /\ Len(s) \in Nat /\ Len(t) \in Nat /\ Len(t) = Len(s) + 1
          /\ \A m \in DOMAIN s : Shifted(i, m) \in DOMAIN t /\ Shifted(i, m) # i
          /\ \A m, n \in DOMAIN s : (m < n) <=> (Shifted(i, m) < Shifted(i, n))
          /\ \A m, n \in DOMAIN s : (m <= n) <=> (Shifted(i, m) <= Shifted(i, n))
          /\ \A n \in DOMAIN t \ {i} : \E m \in DOMAIN s : n = Shifted(i, m)
<1>1. ASSUME NEW n \in DOMAIN t \ {i} PROVE \E m \in DOMAIN s : n = Shifted(i, m)
  <2>1. CASE n < i
    BY <2>1 DEF OneMore, Shifted
  <2>2. CASE n > i
    <3>1. n - 1 \in DOMAIN s /\ n = Shifted(i, n - 1)
      BY <2>2 DEF OneMore, Shifted
    <3> QED
      BY <3>1
  <2> QED
    BY <2>1, <2>2 DEF OneMore
<1> QED
  BY <1>1 DEF OneMore, Shifted

\* InsertAt and RemoveAt of the library.
LEMMA InsertedItem ==
    ASSUME NEW S, NEW s \in Seq(S), NEW x \in S, NEW i \in 1..(Len(s) + 1)
    PROVE /\ InsertAt(s, i, x) \in Seq(S) /\ OneMore(s, InsertAt(s, i, x), i)
          /\ InsertAt(s, i, x)[i] = x
<1> DEFINE u == SubSeq(s, 1, i - 1)
           v == SubSeq(s, i, Len(s))
<1>1. u \in Seq(S) /\ Len(u) = i - 1 /\ \A m \in 1..(i - 1) : u[m] = s[m]
  OBVIOUS
<1>2. v \in Seq(S) /\ Len(v) = Len(s) - i + 1 /\ \A m \in 1..Len(v) : v[m] = s[i - 1 + m]
  OBVIOUS
<1>3. InsertAt(s, i, x) = (u \o <<x>>) \o v
  BY DEF InsertAt
<1>4. <<x>> \in Seq(S) /\ Len(<<x>>) = 1 /\ <<x>>[1] = x
  OBVIOUS
<1> HIDE DEF u, v
<1> DEFINE w == u \o <<x>>
<1>5. w \in Seq(S) /\ Len(w) = i /\ w[i] = x /\ \A m \in 1..(i - 1) : w[m] = s[m]
  BY <1>1, <1>4, ConcatProperties
<1> HIDE DEF w
<1> DEFINE t == w \o v
<1>6. /\ t \in Seq(S) /\ Len(t) = Len(s) + 1
      /\ \A m \in 1..(Len(s) + 1) : t[m] = IF m <= i THEN w[m] ELSE v[m - i]
  BY <1>2, <1>5, ConcatProperties
<1> HIDE DEF t
<1>7. ASSUME NEW m \in 1..Len(s) PROVE t[Shifted(i, m)] = s[m]
  <2>1. CASE m < i
    BY <1>5, <1>6, <2>1 DEF Shifted
  <2>2. CASE m >= i
    <3>1. Shifted(i, m) = m + 1 /\ m + 1 - i \in 1..Len(v)
      BY <1>2, <2>2 DEF Shifted
    <3>2. t[m + 1] = v[m + 1 - i]
      <4>1. m + 1 \in 1..(Len(s) + 1) /\ ~(m + 1 <= i)
        BY <2>2
      <4> QED
        BY <1>6, <4>1
    <3>3. v[m + 1 - i] = s[i - 1 + (m + 1 - i)] /\ i - 1 + (m + 1 - i) = m
      BY <1>2, <3>1
    <3> QED
      BY <3>1, <3>2, <3>3
  <2> QED
    BY <2>1, <2>2
<1>8. t \in Seq(S) /\ Len(t) = Len(s) + 1 /\ t[i] = x
  BY <1>5, <1>6
<1>9. InsertAt(s, i, x) = t
  BY <1>3 DEF t, w
<1>10. i \in DOMAIN t /\ \A m \in DOMAIN s : t[Shifted(i, m)] = s[m]
  BY <1>7, <1>8
<1> QED
  BY <1>8, <1>9, <1>10 DEF OneMore

\* RemoveAt takes one item out.
LEMMA RemovedItem ==
    ASSUME NEW S, NEW s \in Seq(S), NEW i \in 1..Len(s)
    PROVE RemoveAt(s, i) \in Seq(S) /\ OneMore(RemoveAt(s, i), s, i)
<1> DEFINE u == SubSeq(s, 1, i - 1)
           v == SubSeq(s, i + 1, Len(s))
<1>1. u \in Seq(S) /\ Len(u) = i - 1 /\ \A m \in 1..(i - 1) : u[m] = s[m]
  OBVIOUS
<1>2. v \in Seq(S) /\ Len(v) = Len(s) - i /\ \A m \in 1..Len(v) : v[m] = s[i + m]
  OBVIOUS
<1>3. RemoveAt(s, i) = u \o v
  BY DEF RemoveAt
<1> HIDE DEF u, v
<1> DEFINE t == u \o v
<1>4. /\ t \in Seq(S) /\ Len(t) = Len(s) - 1
      /\ \A m \in 1..(Len(s) - 1) : t[m] = IF m <= i - 1 THEN u[m] ELSE v[m - (i - 1)]
  <2>1. Len(u) + Len(v) = Len(s) - 1
    BY <1>1, <1>2
  <2>2. /\ t \in Seq(S) /\ Len(t) = Len(u) + Len(v)
        /\ \A m \in 1..(Len(u) + Len(v)) : t[m] = IF m <= Len(u) THEN u[m] ELSE v[m - Len(u)]
    BY <1>1, <1>2, ConcatProperties
  <2>3. Len(u) = i - 1
    BY <1>1
  <2> HIDE DEF t
  <2> QED
    BY <2>1, <2>2, <2>3
<1> HIDE DEF t
<1>5. ASSUME NEW m \in 1..(Len(s) - 1) PROVE s[Shifted(i, m)] = t[m]
  <2>1. CASE m < i
    BY <1>1, <1>4, <2>1 DEF Shifted
  <2>2. CASE m >= i
    <3>1. Shifted(i, m) = m + 1 /\ m - (i - 1) \in 1..Len(v)
      BY <1>2, <2>2 DEF Shifted
    <3>2. t[m] = v[m - (i - 1)]
      <4>1. ~(m <= i - 1)
        BY <2>2
      <4>2. t[m] = IF m <= i - 1 THEN u[m] ELSE v[m - (i - 1)]
        BY <1>4
      <4> QED
        BY <4>1, <4>2
    <3>3. v[m - (i - 1)] = s[i + (m - (i - 1))] /\ i + (m - (i - 1)) = m + 1
      BY <1>2, <3>1
    <3> QED
      BY <3>1, <3>2, <3>3
  <2> QED
    BY <2>1, <2>2
<1>6. RemoveAt(s, i) = t
  BY <1>3 DEF t
<1>7. i \in DOMAIN s /\ \A m \in DOMAIN t : s[Shifted(i, m)] = t[m]
  BY <1>4, <1>5
<1> QED
  BY <1>4, <1>6, <1>7 DEF OneMore

-----------------------------------------------------------------------------
(* Measurements *)

\* Rows that a report or a composite yields: finitely many, with whole hits.
MeasuredRows(rows) == IsFiniteSet(rows) /\ \A r \in rows : r.hits \in Int

\* merged has the most hits of the rows of each key.
MostHits(rows, key, merged) ==
    /\ DOMAIN merged = {key[r] : r \in rows}
    /\ \A k \in DOMAIN merged :
         /\ merged[k] \in Int
         /\ \A r \in rows : key[r] = k => r.hits <= merged[k]
         /\ \E r \in rows : key[r] = k /\ r.hits = merged[k]

\* MergedBy of src/query.rs: every key keeps the most hits of its rows.
LEMMA Merged ==
    ASSUME NEW rows, MeasuredRows(rows), NEW key, DOMAIN key = rows
    PROVE MostHits(rows, key, Q!MergedBy(key))
<1> DEFINE keys == {key[r] : r \in rows}
           of(k) == {r \in rows : key[r] = k}
           hits(k) == {r.hits : r \in of(k)}
<1>2. Q!MergedBy(key) = [k \in keys |-> Max(hits(k))]
  BY DEF Q!MergedBy, Q!Max, Max
<1>3. ASSUME NEW k \in keys
      PROVE /\ Max(hits(k)) \in Int
            /\ \A r \in rows : key[r] = k => r.hits <= Max(hits(k))
            /\ \E r \in rows : key[r] = k /\ r.hits = Max(hits(k))
  <2>1. IsFiniteSet(of(k))
    BY FS_Subset DEF MeasuredRows
  <2>2. hits(k) \in SUBSET Int /\ hits(k) # {}
    BY DEF MeasuredRows
  <2>3. IsFiniteSet(hits(k))
    <3> DEFINE f == [r \in of(k) |-> r.hits]
    <3>1. f \in [of(k) -> Int]
      BY DEF MeasuredRows
    <3>2. hits(k) = {f[r] : r \in of(k)}
      OBVIOUS
    <3> HIDE DEF f, of, hits
    <3>3. IsFiniteSet({f[r] : r \in of(k)})
      BY <2>1, <3>1, FiniteImage
    <3> QED
      BY <3>2, <3>3
  <2>4. \E n \in hits(k) : \A m \in hits(k) : n >= m
    <3> HIDE DEF hits
    <3> QED
      BY <2>2, <2>3, GreatestInteger
  <2>5. /\ Max(hits(k)) \in hits(k)
        /\ \A m \in hits(k) : Max(hits(k)) >= m
    <3> HIDE DEF hits
    <3> QED
      BY <2>4 DEF Max
  <2> QED
    BY <2>2, <2>5
<1>4. DOMAIN Q!MergedBy(key) = keys /\ \A k \in keys : Q!MergedBy(key)[k] = Max(hits(k))
  BY <1>2
<1> HIDE DEF hits, keys
<1>5. ASSUME NEW k \in keys
      PROVE /\ Q!MergedBy(key)[k] \in Int
            /\ \A r \in rows : key[r] = k => r.hits <= Q!MergedBy(key)[k]
            /\ \E r \in rows : key[r] = k /\ r.hits = Q!MergedBy(key)[k]
  BY <1>3, <1>4
<1> QED
  BY <1>4, <1>5 DEF keys, MostHits

\* The keys with at least so many hits are those of the rows that have them.
LEMMA MergedAtLeast ==
    ASSUME NEW rows, MeasuredRows(rows), NEW key, DOMAIN key = rows,
           NEW least \in Int
    PROVE {k \in DOMAIN Q!MergedBy(key) : Q!MergedBy(key)[k] >= least}
            = {key[r] : r \in {x \in rows : x.hits >= least}}
<1> DEFINE merged == Q!MergedBy(key)
<1>1. MostHits(rows, key, merged)
  BY Merged
<1> HIDE DEF merged
<1>2. ASSUME NEW k \in DOMAIN merged, merged[k] >= least
      PROVE \E r \in rows : key[r] = k /\ r.hits >= least
  BY <1>1, <1>2 DEF MostHits
<1>3. ASSUME NEW r \in rows, r.hits >= least
      PROVE key[r] \in DOMAIN merged /\ merged[key[r]] >= least
  <2>1. key[r] \in DOMAIN merged /\ r.hits \in Int
    BY <1>1 DEF MeasuredRows, MostHits
  <2>2. merged[key[r]] \in Int /\ r.hits <= merged[key[r]]
    BY <1>1, <2>1 DEF MostHits
  <2> QED
    BY <1>3, <2>1, <2>2
<1>4. {k \in DOMAIN merged : merged[k] >= least}
        = {key[r] : r \in {x \in rows : x.hits >= least}}
  BY <1>2, <1>3
<1> QED
  BY <1>4 DEF merged

-----------------------------------------------------------------------------
(* Comparing two measurements *)

\* The rows of one kind, the most hits of each key, the keys that ran, that have
\* known hits, and that have a row.
Chosen(m, kind) == {x \in m.rows : x.kind = kind}
ByKey(m, kind) == Q!MergedBy([r \in Chosen(m, kind) |-> Q!Key(r)])
Ran(m, kind) == {Q!Key(r) : r \in {x \in m.rows : x.kind = kind /\ x.hits >= 1}}
Known(m, kind) == {Q!Key(r) : r \in {x \in m.rows : x.kind = kind /\ x.hits >= 0}}
Listed(m, kind) == {Q!Key(r) : r \in Chosen(m, kind)}

\* The merged observations of a kind: what is listed, measured and has run.
LEMMA MergedObservations ==
    ASSUME NEW m, MeasuredRows(m.rows), NEW kind
    PROVE LET merged == ByKey(m, kind)
          IN /\ DOMAIN merged = Listed(m, kind)
             /\ \A k \in DOMAIN merged : merged[k] \in Int
             /\ Ran(m, kind) = {k \in DOMAIN merged : merged[k] >= 1}
             /\ Known(m, kind) = {k \in DOMAIN merged : merged[k] >= 0}
<1> DEFINE rows == Chosen(m, kind)
           key == [r \in rows |-> Q!Key(r)]
<1>1. MeasuredRows(rows)
  BY FS_Subset DEF MeasuredRows, Chosen
<1>2. DOMAIN key = rows /\ \A r \in rows : key[r] = Q!Key(r)
  OBVIOUS
<1>3. ByKey(m, kind) = Q!MergedBy(key)
  BY DEF ByKey
<1>4. Listed(m, kind) = {key[r] : r \in rows}
  BY DEF Listed
<1>5. /\ Ran(m, kind) = {key[r] : r \in {x \in rows : x.hits >= 1}}
      /\ Known(m, kind) = {key[r] : r \in {x \in rows : x.hits >= 0}}
  BY <1>2 DEF Ran, Known, Chosen
<1> HIDE DEF key, rows
<1>6. MostHits(rows, key, Q!MergedBy(key))
  BY <1>1, <1>2, Merged
<1>7. \A least \in Int : {k \in DOMAIN Q!MergedBy(key) : Q!MergedBy(key)[k] >= least}
                           = {key[r] : r \in {x \in rows : x.hits >= least}}
  BY <1>1, <1>2, MergedAtLeast
<1> QED
  BY <1>3, <1>4, <1>5, <1>6, <1>7 DEF MostHits

\* compare of src/query.rs, for any two measurements: it never calls something
\* gained, lost or unchanged that the rows and the receipts do not show.
THEOREM EveryComparisonIsHonest ==
    ASSUME NEW now, NEW was, MeasuredRows(now.rows), MeasuredRows(was.rows), NEW scope, NEW kind
    PROVE HonestComparison(now, was, scope, kind)
<1> DEFINE after == ByKey(now, kind)
           before == ByKey(was, kind)
           verified == Q!compatible_context(now, was)
           comparable == /\ ~Q!ConflictingContext(now, was)
                         /\ now.format = was.format
                         /\ DOMAIN after # {} /\ DOMAIN before # {}
                         /\ \A k \in DOMAIN after : after[k] >= 0
                         /\ \A k \in DOMAIN before : before[k] >= 0
           full == /\ scope = "full" /\ verified
                   /\ now.scope = "full" /\ was.scope = "full"
           gained == {k \in DOMAIN after :
                        after[k] > 0 /\ k \in DOMAIN before /\ before[k] = 0}
           lost == {k \in DOMAIN before :
                      before[k] > 0 /\ (k \in DOMAIN after => after[k] = 0)}
           answer == Q!compare(now, was, scope, kind)
           back == Q!compare(was, now, scope, kind)
<1>1. /\ DOMAIN after = Listed(now, kind) /\ \A k \in DOMAIN after : after[k] \in Int
      /\ Ran(now, kind) = {k \in DOMAIN after : after[k] >= 1}
      /\ Known(now, kind) = {k \in DOMAIN after : after[k] >= 0}
  BY MergedObservations
<1>2. /\ DOMAIN before = Listed(was, kind) /\ \A k \in DOMAIN before : before[k] \in Int
      /\ Ran(was, kind) = {k \in DOMAIN before : before[k] >= 1}
      /\ Known(was, kind) = {k \in DOMAIN before : before[k] >= 0}
  BY MergedObservations
<1>3. /\ answer.status = IF now.tests = "failed" THEN "tests_failed"
                         ELSE IF ~comparable THEN "incomparable"
                         ELSE IF ~verified THEN "limited"
                         ELSE IF full /\ lost # {} THEN "regression"
                         ELSE IF gained = {} THEN "no_gain" ELSE "improved"
      /\ answer.gained = gained /\ answer.added = DOMAIN after \ DOMAIN before
      /\ back.lost = {k \in DOMAIN after :
                        after[k] > 0 /\ (k \in DOMAIN before => before[k] = 0)}
  BY DEF Q!compare, ByKey, Chosen
<1> HIDE DEF after, before, answer, back
<1> DEFINE verdict == answer.status \in {"regression", "improved", "no_gain"}
<1>4. ASSUME verdict
      PROVE /\ now.build = was.build /\ now.build # Absent
            /\ \A f \in now.files \cup was.files :
                 /\ f \in DOMAIN now.hashes /\ f \in DOMAIN was.hashes
                 /\ now.hashes[f] = was.hashes[f]
            /\ now.format = was.format /\ now.tests # "failed"
            /\ \A m \in {now, was} : Listed(m, kind) # {} /\ Known(m, kind) = Listed(m, kind)
  <2>1. now.tests # "failed" /\ comparable /\ verified
    BY <1>3, <1>4
  <2>2. Known(now, kind) = Listed(now, kind) /\ Known(was, kind) = Listed(was, kind)
    BY <1>1, <1>2, <2>1
  <2> QED
    BY <1>1, <1>2, <2>1, <2>2 DEF Q!compatible_context, Q!Agree
<1>5. ASSUME answer.status = "regression"
      PROVE /\ scope = "full" /\ Ran(was, kind) \ Ran(now, kind) # {}
            /\ now.scope = "full" /\ was.scope = "full"
  <2>1. full /\ lost # {}
    BY <1>3, <1>5
  <2>2. lost \subseteq Ran(was, kind) \ Ran(now, kind)
    BY <1>1, <1>2
  <2> QED
    BY <2>1, <2>2
<1>6. ASSUME answer.status = "improved"
      PROVE (Ran(now, kind) \ Ran(was, kind)) \cap Listed(was, kind) # {}
  <2>1. gained # {}
    BY <1>3, <1>6
  <2>2. gained \subseteq (Ran(now, kind) \ Ran(was, kind)) \cap Listed(was, kind)
    BY <1>1, <1>2
  <2> QED
    BY <2>1, <2>2
<1>7. ASSUME answer.status = "no_gain"
      PROVE (Ran(now, kind) \cap Listed(was, kind)) \subseteq Ran(was, kind)
  <2>1. gained = {} /\ comparable
    BY <1>3, <1>7
  <2> QED
    BY <1>1, <1>2, <2>1
<1>8. back.lost = answer.gained \cup (answer.added \cap Ran(now, kind))
  BY <1>1, <1>2, <1>3
<1> QED
  BY <1>4, <1>5, <1>6, <1>7, <1>8
     DEF HonestComparison, answer, back, Ran, Known, Listed, Chosen

-----------------------------------------------------------------------------
(* The gain of a batch.  Whether batches can be combined with a baseline,    *)
(* and what they cover together, depends on the set of them alone.           *)

\* Where a row is, and the places of one kind that a measurement covers or has.
At(r) == <<r.path, r.span, r.arm>>
CoveredBy(m, kind) == {At(r) : r \in {x \in m.rows : x.kind = kind /\ x.hits > 0}}
Places(m, kind) == {At(r) : r \in Chosen(m, kind)}
CoveredByAny(base, batches, kind) ==
    CoveredBy(base, kind) \cup UNION {CoveredBy(b, kind) : b \in batches}

\* What reject asks of a batch whatever was accepted before it.
Fine(base, batch, kind) ==
    /\ batch.tests # "failed" /\ base.format = batch.format /\ ~Q!conflict(base, batch)
    /\ Q!detail_matches(batch, Q!inventory(batch, kind))
    /\ Places(batch, kind) \subseteq Places(base, kind)

\* The measurements that name a build name the same one.
OneBuild(ms) == \A m, n \in ms : Absent \notin {m.build, n.build} => m.build = n.build

Combinable(base, batches, kind) ==
    /\ \A b \in batches : Fine(base, b, kind)
    /\ OneBuild({base} \cup batches)

\* The state of combine in which these batches have been accepted, or one of
\* them has been rejected.
Reached(st, base, batches, kind) ==
    /\ "rejected" \in DOMAIN st
    /\ st.rejected \in {Absent, "tests_failed", "incomparable"}
    /\ st.rejected = Absent <=> Combinable(base, batches, kind)
    /\ st.rejected = Absent =>
         /\ DOMAIN st.union = Places(base, kind)
         /\ \A k \in DOMAIN st.union : st.union[k] \in Nat
         /\ Q!Covered(st.union) = CoveredByAny(base, batches, kind)
         /\ \A m \in {base} \cup batches : m.build # Absent => m.build = st.build
         /\ st.build # Absent => \E m \in {base} \cup batches : m.build = st.build
         /\ st.trusted = (\A b \in batches : Q!verified(base, b))

\* inventory of src/query_incremental.rs: the places of the rows, with the most
\* hits of each.
LEMMA InventoryOf ==
    ASSUME NEW m, MeasuredRows(m.rows), NEW kind
    PROVE LET rows == Q!inventory(m, kind)
          IN /\ DOMAIN rows = Places(m, kind) /\ IsFiniteSet(Places(m, kind))
             /\ \A k \in DOMAIN rows : rows[k] \in Int
             /\ Q!Covered(rows) = CoveredBy(m, kind)
<1> DEFINE rows == Chosen(m, kind)
           key == [r \in rows |-> At(r)]
<1>1. MeasuredRows(rows)
  BY FS_Subset DEF MeasuredRows, Chosen
<1>2. DOMAIN key = rows /\ \A r \in rows : key[r] = At(r)
  OBVIOUS
<1>3. Q!inventory(m, kind) = Q!MergedBy(key)
  BY DEF Q!inventory, At, Chosen
<1>4. Places(m, kind) = {key[r] : r \in rows}
  BY DEF Places
<1>5. CoveredBy(m, kind) = {key[r] : r \in {x \in rows : x.hits > 0}}
  BY <1>2 DEF CoveredBy, Chosen
<1>6. IsFiniteSet({key[r] : r \in rows})
  <2>1. PICK T : key \in [rows -> T]
    <3>1. key \in [rows -> {key[r] : r \in rows}]
      BY <1>2
    <3> QED
      BY <3>1
  <2>2. IsFiniteSet(rows)
    BY <1>1 DEF MeasuredRows
  <2> HIDE DEF key, rows
  <2> QED
    BY <2>1, <2>2, FiniteImage
<1> HIDE DEF key, rows
<1>7. MostHits(rows, key, Q!MergedBy(key))
  BY <1>1, <1>2, Merged
<1>8. {k \in DOMAIN Q!MergedBy(key) : Q!MergedBy(key)[k] >= 1}
        = {key[r] : r \in {x \in rows : x.hits >= 1}}
  BY <1>1, <1>2, MergedAtLeast
<1>9. {x \in rows : x.hits >= 1} = {x \in rows : x.hits > 0}
  BY <1>1 DEF MeasuredRows
<1>10. {k \in DOMAIN Q!MergedBy(key) : Q!MergedBy(key)[k] >= 1}
         = {k \in DOMAIN Q!MergedBy(key) : Q!MergedBy(key)[k] > 0}
  BY <1>7 DEF MostHits
<1>11. Q!Covered(Q!MergedBy(key)) = CoveredBy(m, kind)
  BY <1>5, <1>8, <1>9, <1>10 DEF Q!Covered
<1> QED
  BY <1>3, <1>4, <1>6, <1>7, <1>11 DEF MostHits

\* The union that a batch is added to covers what it did and what the batch
\* covers.
LEMMA AddCovers ==
    ASSUME NEW union, NEW rows, DOMAIN rows \subseteq DOMAIN union,
           \A k \in DOMAIN union : union[k] \in Nat, \A k \in DOMAIN rows : rows[k] \in Nat
    PROVE LET added == Q!Add(union, rows)
          IN /\ DOMAIN added = DOMAIN union
             /\ \A k \in DOMAIN added : added[k] \in Nat
             /\ Q!Covered(added) = Q!Covered(union) \cup Q!Covered(rows)
  BY DEF Q!Add, Q!Covered

\* accept_batch accepts a batch exactly when it is fine and of the known build,
\* and then unites it with what was accepted.
LEMMA AcceptStep ==
    ASSUME NEW base, NEW kind, NEW st, NEW batches, NEW batch,
           MeasuredRows(base.rows), MeasuredRows(batch.rows),
           Reached(st, base, batches, kind)
    PROVE Reached(Q!accept_batch(base, kind, st, batch), base, batches \cup {batch}, kind)
<1> DEFINE rows == Q!inventory(batch, kind)
           rejected == Q!reject(base, batch, st.union, rows, st.build)
           next == Q!accept_batch(base, kind, st, batch)
           all == batches \cup {batch}
           other == st.build # Absent /\ batch.build # Absent /\ st.build # batch.build
<1>1. /\ DOMAIN rows = Places(batch, kind) /\ \A k \in DOMAIN rows : rows[k] \in Int
      /\ Q!Covered(rows) = CoveredBy(batch, kind)
  BY InventoryOf
<1>2. next = IF st.rejected # Absent THEN st
             ELSE IF rejected # Absent THEN [st EXCEPT !.rejected = rejected]
             ELSE [union |-> Q!Add(st.union, rows), rejected |-> Absent,
                   build |-> IF st.build = Absent THEN batch.build ELSE st.build,
                   trusted |-> st.trusted /\ Q!verified(base, batch)]
  BY DEF Q!accept_batch
<1>3. CASE st.rejected # Absent
  <2>1. ~Combinable(base, batches, kind)
    BY <1>3 DEF Reached
  <2>2. ~Combinable(base, all, kind)
    BY <2>1 DEF Combinable, OneBuild
  <2> HIDE DEF next
  <2> QED
    BY <1>2, <1>3, <2>2 DEF Reached, next
<1>4. CASE st.rejected = Absent
  <2>1. /\ DOMAIN st.union = Places(base, kind)
        /\ \A k \in DOMAIN st.union : st.union[k] \in Nat
        /\ Q!Covered(st.union) = CoveredByAny(base, batches, kind)
        /\ \A m \in {base} \cup batches : m.build # Absent => m.build = st.build
        /\ st.build # Absent => \E m \in {base} \cup batches : m.build = st.build
        /\ st.trusted = (\A b \in batches : Q!verified(base, b))
        /\ Combinable(base, batches, kind) /\ "rejected" \in DOMAIN st
    BY <1>4 DEF Reached
  <2>2. /\ rejected \in {Absent, "tests_failed", "incomparable"}
        /\ rejected = Absent <=> Fine(base, batch, kind) /\ ~other
    BY <1>1, <2>1, AbsentIsNoReason DEF Q!reject, Fine
  <2>3. other => ~OneBuild({base} \cup all)
    BY <2>1 DEF OneBuild
  <2>4. ~other => OneBuild({base} \cup all)
    BY <2>1 DEF OneBuild
  <2>5. rejected = Absent <=> Combinable(base, all, kind)
    BY <2>1, <2>2, <2>3, <2>4 DEF Combinable
  <2>6. CASE rejected # Absent
    <3>1. next = [st EXCEPT !.rejected = rejected]
      BY <1>2, <1>4, <2>6
    <3>2. "rejected" \in DOMAIN next /\ next.rejected = rejected
      BY <2>1, <3>1
    <3> HIDE DEF next, rejected
    <3> QED
      BY <2>2, <2>5, <2>6, <3>2 DEF Reached, next
  <2>7. CASE rejected = Absent
    <3> DEFINE union == Q!Add(st.union, rows)
    <3>1. /\ next.union = union /\ next.rejected = Absent /\ "rejected" \in DOMAIN next
          /\ next.build = IF st.build = Absent THEN batch.build ELSE st.build
          /\ next.trusted = (st.trusted /\ Q!verified(base, batch))
      BY <1>2, <1>4, <2>7
    <3>2. Fine(base, batch, kind) /\ ~other
      BY <2>2, <2>7
    <3>3. \A k \in DOMAIN rows : rows[k] \in Nat
      BY <1>1, <3>2 DEF Fine, Q!detail_matches
    <3>4. DOMAIN rows \subseteq DOMAIN st.union
      BY <1>1, <2>1, <3>2 DEF Fine
    <3>5. /\ DOMAIN union = Places(base, kind)
          /\ \A k \in DOMAIN union : union[k] \in Nat
          /\ Q!Covered(union) = CoveredByAny(base, batches, kind) \cup CoveredBy(batch, kind)
      <4> HIDE DEF rows
      <4> QED
        BY <1>1, <2>1, <3>3, <3>4, AddCovers
    <3>6. CoveredByAny(base, all, kind)
            = CoveredByAny(base, batches, kind) \cup CoveredBy(batch, kind)
      BY DEF CoveredByAny
    <3> HIDE DEF next, union
    <3>7. \A m \in {base} \cup all : m.build # Absent => m.build = next.build
      BY <2>1, <3>1, <3>2
    <3>8. next.build # Absent => \E m \in {base} \cup all : m.build = next.build
      BY <2>1, <3>1
    <3>9. next.trusted = (\A b \in all : Q!verified(base, b))
      BY <2>1, <3>1
    <3> QED
      BY <2>5, <2>7, <3>1, <3>5, <3>6, <3>7, <3>8, <3>9 DEF Reached, next
  <2> QED
    BY <2>6, <2>7
<1> QED
  BY <1>3, <1>4

\* The states of combine one after the other: the recursion of accept_batches
\* has a solution, which Len(previous) steps reach.
LEMMA AcceptedOneByOne ==
    ASSUME NEW base, NEW previous, Len(previous) \in Nat, NEW kind
    PROVE LET after == Q!accept_batches(base, previous, kind)
          IN /\ after[0] = [union |-> Q!inventory(base, kind), rejected |-> Absent,
                            build |-> base.build, trusted |-> TRUE]
             /\ \A n \in 1..Len(previous) :
                  after[n] = Q!accept_batch(base, kind, after[n - 1], previous[n])
<1> DEFINE start == [union |-> Q!inventory(base, kind), rejected |-> Absent,
                     build |-> base.build, trusted |-> TRUE]
           Step(f, n) == IF n = 0 THEN start
                         ELSE Q!accept_batch(base, kind, f[n - 1], previous[n])
           Solves(f, len) == f = [n \in 0..len |-> Step(f, n)]
           Lengths == {len \in Nat : \E f : Solves(f, len)}
           after == Q!accept_batches(base, previous, kind)
<1>1. after = CHOOSE f : Solves(f, Len(previous))
  BY DEF Q!accept_batches
<1> HIDE DEF start, after
<1>2. 0 \in Lengths
  <2> DEFINE f == [n \in 0..0 |-> start]
  <2>1. Solves(f, 0)
    OBVIOUS
  <2> QED
    BY <2>1
<1>3. ASSUME NEW len \in Lengths PROVE len + 1 \in Lengths
  <2>1. PICK f : Solves(f, len)
    OBVIOUS
  <2> DEFINE g == [n \in 0..(len + 1) |->
                     IF n = len + 1 THEN Q!accept_batch(base, kind, f[len], previous[len + 1])
                     ELSE f[n]]
  <2>2. \A n \in 0..len : g[n] = f[n]
    OBVIOUS
  <2>3. ASSUME NEW n \in 0..(len + 1) PROVE g[n] = Step(g, n)
    <3>1. CASE n = len + 1
      BY <2>2, <3>1
    <3>2. CASE n # len + 1
      <4>1. n \in 0..len /\ (n # 0 => n - 1 \in 0..len)
        BY <3>2
      <4>2. g[n] = f[n] /\ f[n] = Step(f, n)
        BY <2>1, <2>2, <4>1
      <4>3. n # 0 => g[n - 1] = f[n - 1]
        BY <2>2, <4>1
      <4> HIDE DEF g
      <4> QED
        BY <4>2, <4>3
    <3> QED
      BY <3>1, <3>2
  <2>4. g = [n \in 0..(len + 1) |-> g[n]]
    OBVIOUS
  <2> HIDE DEF g
  <2>5. Solves(g, len + 1)
    BY <2>3, <2>4
  <2>6. len + 1 \in Nat
    OBVIOUS
  <2> HIDE DEF Solves
  <2> QED
    BY <2>5, <2>6
<1>4. Lengths = Nat
  <2>1. Lengths \in SUBSET Nat
    OBVIOUS
  <2> HIDE DEF Lengths
  <2> QED
    BY <1>2, <1>3, <2>1, Induction
<1>5. \E f : Solves(f, Len(previous))
  BY <1>4
<1> HIDE DEF Lengths
<1>6. Solves(after, Len(previous))
  <2> HIDE DEF Solves
  <2> QED
    BY <1>1, <1>5
<1>7. after[0] = start
  BY <1>6
<1>8. ASSUME NEW n \in 1..Len(previous)
      PROVE after[n] = Q!accept_batch(base, kind, after[n - 1], previous[n])
  BY <1>6
<1> QED
  BY <1>7, <1>8 DEF start, after

\* After the earlier batches combine has reached the set of them.
LEMMA AllBatchesReached ==
    ASSUME NEW base, NEW kind, NEW previous, Len(previous) \in Nat,
           DOMAIN previous = 1..Len(previous), MeasuredRows(base.rows),
           \A b \in Range(previous) : MeasuredRows(b.rows),
           Q!detail_matches(base, Q!inventory(base, kind))
    PROVE Reached(Q!accept_batches(base, previous, kind)[Len(previous)],
                  base, Range(previous), kind)
<1> DEFINE after == Q!accept_batches(base, previous, kind)
           first(n) == {previous[i] : i \in 1..n}
           Counts == {n \in Nat : n <= Len(previous) => Reached(after[n], base, first(n), kind)}
<1>1. /\ after[0] = [union |-> Q!inventory(base, kind), rejected |-> Absent,
                     build |-> base.build, trusted |-> TRUE]
      /\ \A n \in 1..Len(previous) :
           after[n] = Q!accept_batch(base, kind, after[n - 1], previous[n])
  BY AcceptedOneByOne
<1> HIDE DEF after
<1>2. 0 \in Counts
  <2>1. first(0) = {}
    OBVIOUS
  <2>2. /\ after[0].union = Q!inventory(base, kind) /\ after[0].rejected = Absent
        /\ "rejected" \in DOMAIN after[0]
        /\ after[0].build = base.build /\ after[0].trusted = TRUE
    BY <1>1
  <2>3. /\ DOMAIN Q!inventory(base, kind) = Places(base, kind)
        /\ \A k \in DOMAIN Q!inventory(base, kind) : Q!inventory(base, kind)[k] \in Int
        /\ Q!Covered(Q!inventory(base, kind)) = CoveredBy(base, kind)
    BY InventoryOf
  <2>4. \A k \in DOMAIN Q!inventory(base, kind) : Q!inventory(base, kind)[k] \in Nat
    BY <2>3 DEF Q!detail_matches
  <2>5. CoveredByAny(base, {}, kind) = CoveredBy(base, kind)
    BY DEF CoveredByAny
  <2>6. Combinable(base, {}, kind)
    BY DEF Combinable, OneBuild
  <2>7. Reached(after[0], base, {}, kind)
    BY <2>2, <2>3, <2>4, <2>5, <2>6 DEF Reached
  <2> QED
    BY <2>1, <2>7
<1>3. ASSUME NEW n \in Counts PROVE n + 1 \in Counts
  <2> HIDE DEF first
  <2> SUFFICES ASSUME n + 1 <= Len(previous) PROVE Reached(after[n + 1], base, first(n + 1), kind)
    OBVIOUS
  <2>1. n + 1 \in 1..Len(previous) /\ n + 1 - 1 = n /\ Reached(after[n], base, first(n), kind)
    OBVIOUS
  <2>2. after[n + 1] = Q!accept_batch(base, kind, after[n], previous[n + 1])
    BY <1>1, <2>1
  <2>3. MeasuredRows(previous[n + 1].rows)
    BY <2>1 DEF Range
  <2>4. first(n + 1) = first(n) \cup {previous[n + 1]}
    BY DEF first
  <2> QED
    BY <2>1, <2>2, <2>3, <2>4, AcceptStep
<1>4. Counts = Nat
  <2>1. Counts \in SUBSET Nat
    OBVIOUS
  <2> HIDE DEF Counts
  <2> QED
    BY <1>2, <1>3, <2>1, Induction
<1>5. first(Len(previous)) = Range(previous)
  BY DEF Range
<1> HIDE DEF first
<1>6. Reached(after[Len(previous)], base, first(Len(previous)), kind)
  BY <1>4
<1> QED
  BY <1>5, <1>6 DEF after

\* The answer for a set of batches that can be combined.
Gain(base, batches, current, kind) ==
    LET before == CoveredByAny(base, batches, kind)
        after == CoveredByAny(base, batches \cup {current}, kind)
        gained == CoveredBy(current, kind) \ before
        trusted == \A b \in batches \cup {current} : Q!verified(base, b)
        places == Places(base, kind)
    IN [status |-> IF ~trusted THEN "limited" ELSE IF gained = {} THEN "no_gain" ELSE "improved",
        trusted |-> trusted,
        accepted |-> <<Cardinality(before), Cardinality(places)>>,
        batch_covered |-> Cardinality(CoveredBy(current, kind)),
        newly_covered |-> Cardinality(gained),
        combined |-> <<Cardinality(after), Cardinality(places)>>,
        remaining |-> places \ after]

\* The modules count alike.
LEMMA SameCount == \A S : Q!Cardinality(S) = Cardinality(S)
  BY DEF Q!Cardinality, Cardinality

\* The baseline and the batches that compare_incremental combines.
Weighable(base, batches, current, kind) ==
    /\ base.tests # "failed" /\ Q!detail_matches(base, Q!inventory(base, kind))
    /\ Combinable(base, batches \cup {current}, kind)

\* compare_incremental gives the answer for the set of the earlier batches, or
\* refuses when they cannot be combined.
LEMMA GainOfSet ==
    ASSUME NEW base, NEW kind, NEW previous, NEW current, Len(previous) \in Nat,
           DOMAIN previous = 1..Len(previous), MeasuredRows(base.rows), MeasuredRows(current.rows),
           \A b \in Range(previous) : MeasuredRows(b.rows)
    PROVE LET answer == Q!compare_incremental(base, previous, current, kind)
          IN IF Weighable(base, Range(previous), current, kind)
               THEN answer = Gain(base, Range(previous), current, kind)
               ELSE answer.status \in {"tests_failed", "incomparable"}
<1> DEFINE answer == Q!compare_incremental(base, previous, current, kind)
           batches == Range(previous)
           usable == base.tests # "failed" /\ Q!detail_matches(base, Q!inventory(base, kind))
<1>1. CASE ~usable
  <2>1. answer.status \in {"tests_failed", "incomparable"}
    BY <1>1 DEF Q!compare_incremental
  <2> QED
    BY <1>1, <2>1 DEF Weighable
<1>2. CASE usable
  <2> DEFINE accepted == Q!accept_batches(base, previous, kind)[Len(previous)]
             after == Q!accept_batch(base, kind, accepted, current)
             rows == Q!inventory(current, kind)
             gained == {k \in Q!Covered(rows) : accepted.union[k] = 0}
  <2>1. answer = IF after.rejected # Absent
                   THEN [status |-> after.rejected, trusted |-> FALSE]
                   ELSE [status |-> IF ~after.trusted THEN "limited"
                                    ELSE IF gained = {} THEN "no_gain" ELSE "improved",
                         trusted |-> after.trusted,
                         accepted |-> Q!totals(accepted.union),
                         batch_covered |-> Q!Cardinality(Q!Covered(rows)),
                         newly_covered |-> Q!Cardinality(gained),
                         combined |-> Q!totals(after.union),
                         remaining |-> DOMAIN after.union \ Q!Covered(after.union)]
    BY <1>2, Zenon DEF Q!compare_incremental, Q!combine
  <2>2. Reached(accepted, base, batches, kind)
    BY <1>2, AllBatchesReached
  <2> HIDE DEF accepted
  <2>3. Reached(after, base, batches \cup {current}, kind)
    BY <2>2, AcceptStep
  <2>4. DOMAIN rows = Places(current, kind) /\ Q!Covered(rows) = CoveredBy(current, kind)
    BY InventoryOf
  <2> HIDE DEF after, rows
  <2>5. CASE ~Combinable(base, batches \cup {current}, kind)
    <3>1. after.rejected \in {"tests_failed", "incomparable"} /\ after.rejected # Absent
      BY <2>3, <2>5 DEF Reached
    <3>2. answer.status \in {"tests_failed", "incomparable"}
      BY <2>1, <3>1
    <3> QED
      BY <2>5, <3>2 DEF Weighable
  <2>6. CASE Combinable(base, batches \cup {current}, kind)
    <3>1. Combinable(base, batches, kind) /\ Fine(base, current, kind)
      BY <2>6 DEF Combinable, OneBuild
    <3>2. accepted.rejected = Absent /\ after.rejected = Absent
      BY <2>2, <2>3, <2>6, <3>1 DEF Reached
    <3>3. /\ DOMAIN accepted.union = Places(base, kind)
          /\ \A k \in DOMAIN accepted.union : accepted.union[k] \in Nat
          /\ Q!Covered(accepted.union) = CoveredByAny(base, batches, kind)
      BY <2>2, <3>2 DEF Reached
    <3>4. /\ DOMAIN after.union = Places(base, kind)
          /\ Q!Covered(after.union) = CoveredByAny(base, batches \cup {current}, kind)
          /\ after.trusted = (\A b \in batches \cup {current} : Q!verified(base, b))
      BY <2>3, <3>2 DEF Reached
    <3>5. gained = CoveredBy(current, kind) \ CoveredByAny(base, batches, kind)
      <4>1. Q!Covered(rows) \subseteq DOMAIN accepted.union
        BY <2>4, <3>1, <3>3 DEF Fine, Q!Covered
      <4>2. ASSUME NEW k \in DOMAIN accepted.union
            PROVE accepted.union[k] = 0 <=> k \notin Q!Covered(accepted.union)
        BY <3>3 DEF Q!Covered
      <4> QED
        BY <2>4, <3>3, <4>1, <4>2
    <3>6. /\ Q!totals(accepted.union)
               = <<Cardinality(CoveredByAny(base, batches, kind)), Cardinality(Places(base, kind))>>
          /\ Q!totals(after.union)
               = <<Cardinality(CoveredByAny(base, batches \cup {current}, kind)),
                   Cardinality(Places(base, kind))>>
      BY <3>3, <3>4, SameCount DEF Q!totals
    <3> HIDE DEF gained, answer
    <3>7. answer = Gain(base, batches, current, kind)
      BY <2>1, <2>4, <3>2, <3>4, <3>5, <3>6, SameCount DEF Gain
    <3> QED
      BY <1>2, <2>6, <3>7 DEF Weighable, answer
  <2> QED
    BY <2>5, <2>6
<1> QED
  BY <1>1, <1>2

\* What fine batches cover are places of the baseline, finitely many.
LEMMA CoveredPlaces ==
    ASSUME NEW base, NEW batches, NEW kind, MeasuredRows(base.rows),
           \A b \in batches : Fine(base, b, kind)
    PROVE /\ CoveredByAny(base, batches, kind) \subseteq Places(base, kind)
          /\ IsFiniteSet(Places(base, kind)) /\ IsFiniteSet(CoveredByAny(base, batches, kind))
<1>1. \A m : CoveredBy(m, kind) \subseteq Places(m, kind)
  BY DEF CoveredBy, Places, Chosen
<1>2. CoveredByAny(base, batches, kind) \subseteq Places(base, kind)
  BY <1>1 DEF CoveredByAny, Fine
<1>3. IsFiniteSet(Places(base, kind))
  BY InventoryOf
<1> QED
  BY <1>2, <1>3, FS_Subset

\* compare_incremental of src/query_incremental.rs, for any baseline and any
\* batches in any order: the gain is exactly what neither the baseline nor an
\* accepted batch covers.
THEOREM EveryGainIsExact ==
    ASSUME NEW base, NEW kind, NEW previous, NEW other, NEW current,
           Len(previous) \in Nat, DOMAIN previous = 1..Len(previous),
           Len(other) \in Nat, DOMAIN other = 1..Len(other), Range(other) = Range(previous),
           MeasuredRows(base.rows), MeasuredRows(current.rows),
           \A b \in Range(previous) : MeasuredRows(b.rows)
    PROVE ExactGain(base, previous, other, current, kind)
<1> DEFINE batches == Range(previous)
           before == CoveredByAny(base, batches, kind)
           after == CoveredByAny(base, batches \cup {current}, kind)
           all == Places(base, kind)
           measured == {base, current} \cup batches
           answer == Q!compare_incremental(base, previous, current, kind)
           swapped == Q!compare_incremental(base, other, current, kind)
<1>1. /\ IF Weighable(base, batches, current, kind)
           THEN answer = Gain(base, batches, current, kind)
           ELSE answer.status \in {"tests_failed", "incomparable"}
      /\ IF Weighable(base, Range(other), current, kind)
           THEN swapped = Gain(base, Range(other), current, kind)
           ELSE swapped.status \in {"tests_failed", "incomparable"}
  BY GainOfSet
<1>2. after = before \cup CoveredBy(current, kind)
  BY DEF CoveredByAny
<1> HIDE DEF answer, swapped, batches
<1>3. ASSUME answer.status \notin {"tests_failed", "incomparable"}
      PROVE /\ answer.accepted = <<Cardinality(before), Cardinality(all)>>
            /\ answer.combined = <<Cardinality(after), Cardinality(all)>>
            /\ answer.newly_covered = Cardinality(after) - Cardinality(before)
            /\ answer.remaining = all \ after
            /\ swapped = answer
            /\ \A m, n \in measured : Absent \notin {m.build, n.build} => m.build = n.build
            /\ answer.status # "limited" =>
                 \A m \in measured : m.source = "matches_receipt" /\ m.tests = "passed"
  <2>1. Weighable(base, batches, current, kind)
    BY <1>1, <1>3
  <2>2. answer = Gain(base, batches, current, kind) /\ swapped = answer
    BY <1>1, <2>1 DEF batches
  <2>3. Combinable(base, batches \cup {current}, kind)
    BY <2>1 DEF Weighable
  <2>4. /\ answer.accepted = <<Cardinality(before), Cardinality(all)>>
        /\ answer.combined = <<Cardinality(after), Cardinality(all)>>
        /\ answer.newly_covered = Cardinality(CoveredBy(current, kind) \ before)
        /\ answer.remaining = all \ after
        /\ answer.status # "limited" => \A b \in batches \cup {current} : Q!verified(base, b)
    BY <2>2 DEF Gain
  <2>5. IsFiniteSet(after)
    BY <2>3, CoveredPlaces DEF Combinable
  <2>6. Cardinality(CoveredBy(current, kind) \ before) = Cardinality(after) - Cardinality(before)
    <3>1. before \subseteq after /\ CoveredBy(current, kind) \ before = after \ before
          /\ after \cap before = before
      BY <1>2
    <3> HIDE DEF before, after
    <3> QED
      BY <2>5, <3>1, FS_Difference
  <2>7. \A m, n \in measured : Absent \notin {m.build, n.build} => m.build = n.build
    BY <2>3 DEF Combinable, OneBuild
  <2>8. answer.status # "limited" =>
          \A m \in measured : m.source = "matches_receipt" /\ m.tests = "passed"
    BY <2>4 DEF Q!verified
  <2> QED
    BY <2>2, <2>4, <2>6, <2>7, <2>8
<1> QED
  BY <1>2, <1>3 DEF ExactGain, answer, swapped, batches, CoveredByAny, CoveredBy, Places, Chosen, At

-----------------------------------------------------------------------------
(* The cases of the run *)

\* A case that is compared, weighed or united has measurements as it should.
CaseInv ==
    /\ "kind" \in DOMAIN case
    /\ case.kind = "compare" =>
         /\ {"baseline", "current"} \subseteq DOMAIN case
         /\ MeasuredRows(case.baseline.rows)
         /\ case.current # Absent => MeasuredRows(case.current.rows)
    /\ case.kind = "gain" =>
         /\ {"base", "batches"} \subseteq DOMAIN case
         /\ MeasuredRows(case.base.rows)
         /\ case.batches \in Seq(Batches)
    /\ case.kind = "union" =>
         /\ {"baseline", "currents"} \subseteq DOMAIN case
         /\ case.baseline \in Snapshots
         /\ case.currents \in Seq(Runs)

\* The steps of the cases that follow pages, that do not, and that measure.
PagesCases == StartPages \/ Fetch \/ Insert \/ Withdraw
GroupsCases == StartGroups \/ FetchGroups
GapsCases == StartGaps \/ FetchGaps
PagedCases == PagesCases \/ GroupsCases \/ GapsCases

UnpagedCases ==
    \/ StartHistory \/ Measure \/ StartSource \/ EditSource \/ StartLogs \/ Write \/ StartModules
    \/ StartProject \/ Develop \/ Compose \/ StartReads \/ AskRange \/ StartTests
    \/ StartReport \/ ReadEntry

MeasuredCases == StartCompare \/ LoadCurrent \/ StartGain \/ AddBatch \/ StartUnion \/ AddRun

\* Other cases have a kind of their own.
LEMMA UnpagedStay ==
    ASSUME CaseInv, UnpagedCases
    PROVE "kind" \in DOMAIN case'
          /\ case'.kind \notin {"compare", "gain", "union", "pages", "groups", "gaps"}
<1>1. CASE StartHistory
  BY <1>1 DEF StartHistory, CaseInv
<1>2. CASE Measure
  BY <1>2 DEF Measure, CaseInv
<1>3. CASE StartSource
  BY <1>3 DEF StartSource, CaseInv
<1>4. CASE EditSource
  BY <1>4 DEF EditSource, CaseInv
<1>5. CASE StartLogs
  BY <1>5 DEF StartLogs, CaseInv
<1>6. CASE Write
  BY <1>6 DEF Write, CaseInv
<1>7. CASE StartModules
  BY <1>7 DEF StartModules, CaseInv
<1>8. CASE StartProject
  BY <1>8 DEF StartProject, CaseInv
<1>9. CASE Develop
  BY <1>9 DEF Develop, CaseInv
<1>10. CASE Compose
  BY <1>10 DEF Compose, CaseInv
<1>11. CASE StartReads
  BY <1>11 DEF StartReads, CaseInv
<1>12. CASE AskRange
  BY <1>12 DEF AskRange, CaseInv
<1>13. CASE StartTests
  BY <1>13 DEF StartTests, CaseInv
<1>14. CASE StartReport
  BY <1>14 DEF StartReport, CaseInv
<1>15. CASE ReadEntry
  BY <1>15 DEF ReadEntry, CaseInv
<1> QED
  BY <1>1, <1>2, <1>3, <1>4, <1>5, <1>6, <1>7, <1>8, <1>9, <1>10, <1>11, <1>12, <1>13, <1>14, <1>15
     DEF UnpagedCases

\* So have those that follow pages.
LEMMA PagedStay ==
    ASSUME CaseInv, PagedCases
    PROVE /\ "kind" \in DOMAIN case'
          /\ PagesCases => case'.kind = "pages"
          /\ GroupsCases => case'.kind = "groups"
          /\ GapsCases => case'.kind = "gaps"
<1>1. PagesCases => "kind" \in DOMAIN case' /\ case'.kind = "pages"
  <2>1. CASE StartPages
    BY <2>1 DEF StartPages, CaseInv
  <2>2. CASE Fetch
    BY <2>2 DEF Fetch, CaseInv
  <2>3. CASE Insert
    BY <2>3 DEF Insert, CaseInv
  <2>4. CASE Withdraw
    BY <2>4 DEF Withdraw, CaseInv
  <2> QED
    BY <2>1, <2>2, <2>3, <2>4 DEF PagesCases
<1>2. GroupsCases => "kind" \in DOMAIN case' /\ case'.kind = "groups"
  <2>1. CASE StartGroups
    BY <2>1 DEF StartGroups, CaseInv
  <2>2. CASE FetchGroups
    BY <2>2 DEF FetchGroups, CaseInv
  <2> QED
    BY <2>1, <2>2 DEF GroupsCases
<1>3. GapsCases => "kind" \in DOMAIN case' /\ case'.kind = "gaps"
  <2>1. CASE StartGaps
    BY <2>1 DEF StartGaps, CaseInv
  <2>2. CASE FetchGaps
    BY <2>2 DEF FetchGaps, CaseInv
  <2> QED
    BY <2>1, <2>2 DEF GapsCases
<1> QED
  BY <1>1, <1>2, <1>3 DEF PagedCases

\* A comparison, a gain or a union stays one.
LEMMA MeasuredStay ==
    ASSUME CaseInv, MeasuredCases
    PROVE case'.kind \in {"compare", "gain", "union"}
<1>1. CASE StartCompare
  BY <1>1 DEF StartCompare, CaseInv
<1>2. CASE LoadCurrent
  BY <1>2 DEF LoadCurrent, CaseInv
<1>3. CASE StartGain
  BY <1>3 DEF StartGain, CaseInv
<1>4. CASE AddBatch
  BY <1>4 DEF AddBatch, CaseInv
<1>5. CASE StartUnion
  BY <1>5 DEF StartUnion, CaseInv
<1>6. CASE AddRun
  BY <1>6 DEF AddRun, CaseInv
<1> QED
  BY <1>1, <1>2, <1>3, <1>4, <1>5, <1>6 DEF MeasuredCases

\* Rows of one line each, of a report of finitely many lines.
LEMMA LineRows ==
    ASSUME NEW hits, IsFiniteSet(DOMAIN hits), \A n \in DOMAIN hits : hits[n] \in Int
    PROVE MeasuredRows({[path |-> 1, symbol |-> 0, span |-> <<n, n>>, kind |-> "lines",
                         arm |-> "", hits |-> hits[n]] : n \in DOMAIN hits})
<1> DEFINE row == [n \in DOMAIN hits |->
                     [path |-> 1, symbol |-> 0, span |-> <<n, n>>, kind |-> "lines",
                      arm |-> "", hits |-> hits[n]]]
           rows == {row[n] : n \in DOMAIN hits}
<1>1. rows = {[path |-> 1, symbol |-> 0, span |-> <<n, n>>, kind |-> "lines",
               arm |-> "", hits |-> hits[n]] : n \in DOMAIN hits}
  OBVIOUS
<1>2. \A n \in DOMAIN hits : row[n].hits \in Int
  OBVIOUS
<1>3. PICK T : row \in [DOMAIN hits -> T]
  <2>1. row \in [DOMAIN hits -> rows]
    OBVIOUS
  <2> QED
    BY <2>1
<1> HIDE DEF row
<1>4. IsFiniteSet(rows)
  BY <1>3, FiniteImage
<1>5. MeasuredRows(rows)
  BY <1>2, <1>4 DEF MeasuredRows
<1> QED
  BY <1>1, <1>5

\* The lines of the run's reports: one or two, with whole hits.
LEMMA FewLines ==
    /\ \A hits \in BatchHits : IsFiniteSet(DOMAIN hits) /\ \A n \in DOMAIN hits : hits[n] \in Int
    /\ \A hits \in {<<1, 0>>, <<0, 1>>, <<1, 1>>, <<0>>, <<0, 0>>} :
         IsFiniteSet(DOMAIN hits) /\ \A n \in DOMAIN hits : hits[n] \in Int
<1>1. \A n \in Nat : IsFiniteSet(1..n)
  BY PositionCount
<1>2. \A m, n : DOMAIN <<m, n>> = 1..2
  OBVIOUS
<1>3. \A m : DOMAIN <<m>> = 1..1
  OBVIOUS
<1>4. \A m : IsFiniteSet({m})
  BY FS_Singleton
<1>5. ASSUME NEW line \in 1..3
      PROVE LET hits == [n \in {line} |-> 1]
            IN IsFiniteSet(DOMAIN hits) /\ \A n \in DOMAIN hits : hits[n] \in Int
  BY <1>4
<1>6. ASSUME NEW m \in {0, 1}, NEW k \in {0, 1}
      PROVE LET hits == <<m, k>>
            IN IsFiniteSet(DOMAIN hits) /\ \A n \in DOMAIN hits : hits[n] \in Int
  <2>1. IsFiniteSet(DOMAIN <<m, k>>)
    BY <1>1, <1>2
  <2> QED
    BY <2>1
<1>7. IsFiniteSet(DOMAIN <<0>>) /\ \A n \in DOMAIN <<0>> : <<0>>[n] \in Int
  <2>1. IsFiniteSet(DOMAIN <<0>>)
    BY <1>1, <1>3
  <2> QED
    BY <2>1
<1>8. ASSUME NEW hits \in BatchHits
      PROVE IsFiniteSet(DOMAIN hits) /\ \A n \in DOMAIN hits : hits[n] \in Int
  BY <1>5, <1>6 DEF BatchHits
<1>9. ASSUME NEW hits \in {<<1, 0>>, <<0, 1>>, <<1, 1>>, << 0 >>, <<0, 0>>}
      PROVE IsFiniteSet(DOMAIN hits) /\ \A n \in DOMAIN hits : hits[n] \in Int
  BY <1>6, <1>7
<1> QED
  BY <1>8, <1>9

\* The measurements that the run weighs.
LEMMA WeighedRows ==
    ASSUME NEW hits, IsFiniteSet(DOMAIN hits), \A n \in DOMAIN hits : hits[n] \in Int, NEW receipt
    PROVE MeasuredRows(Measurement(hits, receipt).rows)
<1>1. Measurement(hits, receipt).rows
        = {[path |-> 1, symbol |-> 0, span |-> <<n, n>>, kind |-> "lines",
            arm |-> "", hits |-> hits[n]] : n \in DOMAIN hits}
  BY DEF Measurement
<1> QED
  BY <1>1, LineRows

\* decode_composite of src/query.rs refuses a composite or yields one
\* observation per region.
LEMMA CompositeRows ==
    ASSUME NEW snapshot, NEW regions, IsFiniteSet(regions)
    PROVE LET m == Q!decode_composite(snapshot, regions) IN m = Bad \/ MeasuredRows(m.rows)
<1> DEFINE row == [r \in regions |-> Q!composite_row(r)]
           rows == {row[r] : r \in regions}
           m == Q!decode_composite(snapshot, regions)
<1>1. m = Bad \/ m.rows = {Q!composite_row(r) : r \in regions}
  BY DEF Q!decode_composite
<1>2. rows = {Q!composite_row(r) : r \in regions}
  OBVIOUS
<1>3. \A r \in regions : row[r].hits \in Int
  <2>1. \A r : Q!composite_row(r).hits \in Int
    BY DEF Q!composite_row
  <2> QED
    BY <2>1
<1>4. PICK T : row \in [regions -> T]
  <2>1. row \in [regions -> rows]
    OBVIOUS
  <2> QED
    BY <2>1
<1> HIDE DEF row
<1>5. IsFiniteSet(rows)
  BY <1>4, FiniteImage
<1>6. MeasuredRows(rows)
  BY <1>3, <1>5 DEF MeasuredRows
<1> QED
  BY <1>1, <1>2, <1>6

\* The measurements that the run compares.
LEMMA ComparedRows == \A m \in Loadable \ {Bad} : MeasuredRows(m.rows)
<1>1. ASSUME NEW hits \in {<<1, 0>>, <<0, 1>>, <<1, 1>>, << 0 >>}, NEW receipt
      PROVE LoadedReport(hits, receipt) = Bad \/ MeasuredRows(LoadedReport(hits, receipt).rows)
  <2>1. IsFiniteSet(DOMAIN hits) /\ \A n \in DOMAIN hits : hits[n] \in Int
    BY FewLines
  <2>2. \/ LoadedReport(hits, receipt) = Bad
        \/ LoadedReport(hits, receipt).rows
             = {[path |-> 1, symbol |-> 0, span |-> <<n, n>>, kind |-> "lines",
                 arm |-> "", hits |-> hits[n]] : n \in DOMAIN hits}
    BY DEF LoadedReport
  <2> QED
    BY <2>1, <2>2, LineRows
<1>2. ASSUME NEW states, NEW inventory
      PROVE \/ LoadedComposite(states, inventory) = Bad
            \/ MeasuredRows(LoadedComposite(states, inventory).rows)
  <2> DEFINE snapshot == [total |-> 2, inventory |-> inventory,
                          covered |-> Cardinality({n \in {1, 2} : states[n] = "covered"})]
             region == [n \in 1..2 |-> [path |-> 1, key |-> 1, span |-> <<n, n>>,
                                        state |-> states[n], source_hash |-> 1]]
             regions == {region[n] : n \in 1..2}
  <2>1. LoadedComposite(states, inventory) = Q!decode_composite(snapshot, regions)
    <3>1. regions = {[path |-> 1, key |-> 1, span |-> <<n, n>>, state |-> states[n],
                      source_hash |-> 1] : n \in {1, 2}}
      OBVIOUS
    <3> QED
      BY <3>1 DEF LoadedComposite
  <2>2. PICK T : region \in [1..2 -> T]
    <3>1. region \in [1..2 -> regions]
      OBVIOUS
    <3> QED
      BY <3>1
  <2>3. IsFiniteSet(1..2)
    BY PositionCount
  <2> HIDE DEF region, snapshot
  <2>4. IsFiniteSet(regions)
    BY <2>2, <2>3, FiniteImage
  <2> HIDE DEF regions
  <2> QED
    BY <2>1, <2>4, CompositeRows
<1> QED
  BY <1>1, <1>2 DEF Loadable

\* The other measurements of a sequence, in either order.
LEMMA EarlierBatches ==
    ASSUME NEW S, NEW list \in Seq(S), list # <<>>
    PROVE LET earlier == Front(list)
              other == Reverse(earlier)
          IN /\ Len(earlier) \in Nat /\ DOMAIN earlier = 1..Len(earlier)
             /\ Len(other) \in Nat /\ DOMAIN other = 1..Len(other)
             /\ Range(other) = Range(earlier)
             /\ Range(earlier) \subseteq S /\ Last(list) \in S
<1> DEFINE earlier == Front(list)
           other == Reverse(earlier)
           n == Len(list) - 1
<1>1. n \in Nat /\ \A i \in 1..(n + 1) : list[i] \in S
  OBVIOUS
<1>2. earlier \in Seq(S)
  BY <1>1 DEF Front
<1> HIDE DEF earlier
<1>3. other \in Seq(S) /\ Len(other) = Len(earlier)
      /\ \A i \in 1..Len(earlier) : other[i] = earlier[Len(earlier) - i + 1]
  BY <1>2 DEF Reverse
<1> HIDE DEF other
<1>4. Range(other) \subseteq Range(earlier)
  <2> SUFFICES ASSUME NEW i \in 1..Len(other) PROVE other[i] \in Range(earlier)
    BY <1>3 DEF Range
  <2>1. Len(earlier) - i + 1 \in 1..Len(earlier)
    BY <1>2, <1>3
  <2> QED
    BY <1>2, <1>3, <2>1 DEF Range
<1>5. Range(earlier) \subseteq Range(other)
  <2> SUFFICES ASSUME NEW i \in 1..Len(earlier) PROVE earlier[i] \in Range(other)
    BY <1>2 DEF Range
  <2>1. Len(earlier) - i + 1 \in 1..Len(earlier)
    BY <1>2
  <2>2. other[Len(earlier) - i + 1] = earlier[i]
    BY <1>2, <1>3, <2>1
  <2> QED
    BY <1>2, <1>3, <2>1, <2>2 DEF Range
<1>6. Last(list) \in S
  BY <1>1 DEF Last
<1>7. Range(earlier) \subseteq S
  BY <1>2 DEF Range
<1>8. /\ Len(earlier) \in Nat /\ DOMAIN earlier = 1..Len(earlier)
      /\ Len(other) \in Nat /\ DOMAIN other = 1..Len(other)
  BY <1>2, <1>3
<1> QED
  BY <1>4, <1>5, <1>6, <1>7, <1>8 DEF earlier, other

\* Every step keeps the measurements of a case in order.
LEMMA CaseStep == CaseInv /\ [Next]_case => CaseInv'
<1> SUFFICES ASSUME CaseInv, [Next]_case PROVE CaseInv'
  OBVIOUS
<1>1. CASE UnpagedCases
  BY <1>1, UnpagedStay DEF CaseInv
<1>2. CASE StartCompare
  <2>1. PICK baseline \in Loadable \ {Bad} :
             case' = [kind |-> "compare", baseline |-> baseline, current |-> Absent]
    BY <1>2 DEF StartCompare
  <2>2. MeasuredRows(baseline.rows)
    BY ComparedRows
  <2> QED
    BY <2>1, <2>2 DEF CaseInv
<1>3. CASE LoadCurrent
  <2>1. PICK current \in Loadable \ {Bad} : case' = [case EXCEPT !.current = current]
    BY <1>3 DEF LoadCurrent
  <2>2. MeasuredRows(current.rows)
    BY ComparedRows
  <2>3. case.kind = "compare"
    BY <1>3 DEF LoadCurrent
  <2> QED
    BY <2>1, <2>2, <2>3 DEF CaseInv
<1>4. CASE StartGain
  <2>1. PICK hits \in {<<0, 0>>, <<1, 0>>}, r \in Receipts :
             case' = [kind |-> "gain", base |-> Measurement(hits, r), batches |-> <<>>]
    BY <1>4 DEF StartGain
  <2>2. MeasuredRows(Measurement(hits, r).rows)
    BY FewLines, WeighedRows
  <2>3. <<>> \in Seq(Batches)
    OBVIOUS
  <2> QED
    BY <2>1, <2>2, <2>3 DEF CaseInv
<1>5. CASE AddBatch
  <2>1. PICK b \in Batches : case' = [case EXCEPT !.batches = Append(@, b)]
    BY <1>5 DEF AddBatch
  <2>2. case.kind = "gain"
    BY <1>5 DEF AddBatch
  <2>3. Append(case.batches, b) \in Seq(Batches)
    BY <2>2 DEF CaseInv
  <2> QED
    BY <2>1, <2>2, <2>3 DEF CaseInv
<1>6. CASE StartUnion
  <2>1. PICK baseline \in Snapshots :
             case' = [kind |-> "union", baseline |-> baseline, currents |-> <<>>]
    BY <1>6 DEF StartUnion
  <2>2. <<>> \in Seq(Runs)
    OBVIOUS
  <2> QED
    BY <2>1, <2>2 DEF CaseInv
<1>7. CASE AddRun
  <2>1. PICK current \in Runs : case' = [case EXCEPT !.currents = Append(@, current)]
    BY <1>7 DEF AddRun
  <2>2. case.kind = "union"
    BY <1>7 DEF AddRun
  <2>3. Append(case.currents, current) \in Seq(Runs)
    BY <2>2 DEF CaseInv
  <2> QED
    BY <2>1, <2>2, <2>3 DEF CaseInv
<1>8. CASE UNCHANGED case
  BY <1>8 DEF CaseInv
<1>9. CASE PagedCases
  BY <1>9, PagedStay DEF CaseInv, PagedCases
<1> QED
  BY <1>1, <1>2, <1>3, <1>4, <1>5, <1>6, <1>7, <1>8, <1>9
     DEF Next, UnpagedCases, PagedCases, PagesCases, GroupsCases, GapsCases

\* So all measurements that are compared or combined have finitely many rows.
LEMMA CasesAreMeasured == Spec => []CaseInv
<1>1. Init => CaseInv
  BY DEF Init, CaseInv
<1> QED
  BY <1>1, CaseStep, PTL DEF Spec

\* Every answer of compare that the run meets is honest: it is one of
\* EveryComparisonIsHonest.
THEOREM ComparisonsAreHonest == Spec => []ComparisonIsHonest
<1>1. CaseInv => ComparisonIsHonest
  BY EveryComparisonIsHonest DEF CaseInv, ComparisonIsHonest
<1> QED
  BY <1>1, CasesAreMeasured, PTL

\* Every answer of compare_incremental that the run meets is exact: it is one
\* of EveryGainIsExact.
THEOREM GainsAreExact == Spec => []GainIsExact
<1>1. ASSUME CaseInv, case.kind = "gain", case.batches # <<>>
      PROVE ExactGain(case.base, Front(case.batches), Reverse(Front(case.batches)),
                      Last(case.batches), "lines")
  <2>1. case.batches \in Seq(Batches) /\ MeasuredRows(case.base.rows)
    BY <1>1 DEF CaseInv
  <2>2. \A b \in Batches : MeasuredRows(b.rows)
    BY FewLines, WeighedRows DEF Batches
  <2> DEFINE earlier == Front(case.batches)
             other == Reverse(earlier)
             last == Last(case.batches)
  <2>3. /\ Len(earlier) \in Nat /\ DOMAIN earlier = 1..Len(earlier)
        /\ Len(other) \in Nat /\ DOMAIN other = 1..Len(other)
        /\ Range(other) = Range(earlier) /\ Range(earlier) \subseteq Batches /\ last \in Batches
    BY <1>1, <2>1, EarlierBatches
  <2> HIDE DEF earlier, other, last
  <2>4. ExactGain(case.base, earlier, other, last, "lines")
    BY <2>1, <2>2, <2>3, EveryGainIsExact
  <2> QED
    BY <2>4 DEF earlier, other, last
<1>2. CaseInv => GainIsExact
  BY <1>1 DEF GainIsExact
<1> QED
  BY <1>2, CasesAreMeasured, PTL

-----------------------------------------------------------------------------
(* The rows of a report *)

\* What the parsers hand to add_line: numbers, and whether the line is called
\* covered where the report says so.
LineCalls(calls) ==
    /\ Len(calls) \in Nat
    /\ \A i \in 1..Len(calls) :
         /\ calls[i].line \in Int /\ calls[i].hits \in Int
         /\ calls[i].count_line \in BOOLEAN
         /\ calls[i].covered \in BOOLEAN \cup {Absent}

\* The rows that a builder may already have.
BuilderRows(b) ==
    \A k \in DOMAIN b.lines : /\ b.lines[k].hits \in Int
                              /\ b.lines[k].covered \in BOOLEAN
                              /\ b.lines[k].count_line \in BOOLEAN

\* A record that has a repository and rows.
Builder(c) == "lines" \in DOMAIN c /\ "repo" \in DOMAIN c /\ c = [f \in DOMAIN c |-> c[f]]

\* The line that a call of add_line is about, its hits, and whether it is covered.
LineKey(b, call) == <<R!normalize_report_path(call.file, b.repo), call.line>>
LineHits(call) == R!NoNegative(call.hits)
CallsItCovered(call) == IF call.covered = Absent THEN LineHits(call) > 0 ELSE call.covered

\* The calls about a line, and those that count it as a line of code.
CallsFor(b, set, k) == {call \in set : call.line > 0 /\ LineKey(b, call) = k}
CountedFor(b, set, k) == {call \in CallsFor(b, set, k) : call.count_line}

\* The row of a line before and after the calls of set: counted when one of
\* them counts it, covered when one that counts it says so, with the most hits
\* of those that count it.
MergedRow(b, set, k, row) ==
    LET old == k \in DOMAIN b.lines
        before == IF old THEN b.lines[k].hits ELSE 0
        counted == CountedFor(b, set, k)
    IN /\ row.count_line \in BOOLEAN /\ row.covered \in BOOLEAN /\ row.hits \in Int
       /\ row.count_line <=> (old /\ b.lines[k].count_line) \/ counted # {}
       /\ row.covered <=> \/ old /\ b.lines[k].covered
                          \/ \E call \in counted : CallsItCovered(call)
       /\ before <= row.hits
       /\ \A call \in counted : LineHits(call) <= row.hits
       /\ row.hits = before \/ \E call \in counted : row.hits = LineHits(call)

\* The rows of c are those of b and of the calls of set.
MergedRows(b, set, c) ==
    /\ c.repo = b.repo
    /\ DOMAIN c.lines = DOMAIN b.lines \cup {LineKey(b, call) : call \in {x \in set : x.line > 0}}
    /\ \A k \in DOMAIN c.lines : MergedRow(b, set, k, c.lines[k])

\* The row that one call alone makes.
RowOf(call) ==
    LET hits == IF call.count_line THEN LineHits(call) ELSE 0
    IN [hits |-> hits,
        covered |-> call.count_line
                    /\ (IF call.covered = Absent THEN hits > 0 ELSE call.covered),
        count_line |-> call.count_line,
        branches |-> R!NoNegative(call.branches),
        covered_branches |-> R!NoNegative(call.covered_branches),
        functions |-> R!NoNegative(call.functions),
        covered_functions |-> R!NoNegative(call.covered_functions)]

\* One more call adds what it says about its line and touches no other.
LEMMA AddLine ==
    ASSUME NEW b, BuilderRows(b), NEW set, \A x \in set : x.hits \in Int,
           NEW c, MergedRows(b, set, c), NEW call,
           Builder(c),
           call.line \in Int, call.hits \in Int, call.count_line \in BOOLEAN,
           call.covered \in BOOLEAN \cup {Absent}
    PROVE LET d == R!add_line(c, call)
          IN MergedRows(b, set \cup {call}, d) /\ Builder(d)
<1> DEFINE d == R!add_line(c, call)
           key == LineKey(b, call)
           row == RowOf(call)
           more == set \cup {call}
           lines == [k \in DOMAIN c.lines \cup {key} |->
                       IF k # key THEN c.lines[k]
                       ELSE IF key \in DOMAIN c.lines THEN R!merge(c.lines[key], row) ELSE row]
<1>1. c.repo = b.repo
  BY DEF MergedRows
<1>2. LineHits(call) \in Nat
  BY DEF LineHits, R!NoNegative
<1>3. CASE call.line <= 0
  <2>1. d = c
    BY <1>3 DEF R!add_line
  <2>2. ~ (call.line > 0)
    BY <1>3
  <2>3. \A k : CallsFor(b, more, k) = CallsFor(b, set, k)
    BY <2>2 DEF CallsFor
  <2>4. {x \in more : x.line > 0} = {x \in set : x.line > 0}
    BY <2>2
  <2>5. MergedRows(b, more, c)
    BY <2>3, <2>4 DEF MergedRows, MergedRow, CountedFor
  <2> QED
    BY <2>1, <2>5
<1>4. CASE call.line > 0
  <2>1. d = [c EXCEPT !.lines = lines]
    BY <1>1, <1>4 DEF R!add_line, LineKey, RowOf, LineHits
  <2>2. /\ d.lines = lines /\ d.repo = c.repo /\ DOMAIN d = DOMAIN c
        /\ Builder(d)
    <3> HIDE DEF lines, d
    <3> QED
      BY <2>1 DEF Builder
  <2>3. DOMAIN lines = DOMAIN b.lines \cup {LineKey(b, x) : x \in {y \in more : y.line > 0}}
    <3>1. {y \in more : y.line > 0} = {y \in set : y.line > 0} \cup {call}
      BY <1>4
    <3>2. DOMAIN lines = DOMAIN c.lines \cup {key}
      OBVIOUS
    <3> HIDE DEF lines
    <3> QED
      BY <3>1, <3>2 DEF MergedRows
  <2>4. ASSUME NEW k \in DOMAIN lines, k # key PROVE MergedRow(b, more, k, lines[k])
    <3>1. k \in DOMAIN c.lines /\ lines[k] = c.lines[k]
      BY <2>4
    <3>2. CallsFor(b, more, k) = CallsFor(b, set, k)
      BY <2>4 DEF CallsFor
    <3> HIDE DEF lines
    <3> QED
      BY <3>1, <3>2 DEF MergedRows, MergedRow, CountedFor
  <2>5. /\ row.hits = IF call.count_line THEN LineHits(call) ELSE 0
        /\ row.covered = (call.count_line /\ CallsItCovered(call))
        /\ row.count_line = call.count_line
    <3>1. CASE call.count_line
      BY <3>1 DEF RowOf, CallsItCovered
    <3>2. CASE ~ call.count_line
      BY <3>2 DEF RowOf, CallsItCovered
    <3> QED
      BY <3>1, <3>2
  <2>6. CallsItCovered(call) \in BOOLEAN
    <3>1. CASE call.covered = Absent
      BY <3>1 DEF CallsItCovered
    <3>2. CASE call.covered # Absent
      BY <3>2 DEF CallsItCovered
    <3> QED
      BY <3>1, <3>2
  <2>7. CountedFor(b, more, key) =
           CountedFor(b, set, key) \cup (IF call.count_line THEN {call} ELSE {})
    BY <1>4 DEF CountedFor, CallsFor
  <2>8. ASSUME key \in DOMAIN c.lines PROVE MergedRow(b, more, key, lines[key])
    <3> DEFINE old == c.lines[key]
    <3>1. MergedRow(b, set, key, old)
      BY <2>8 DEF MergedRows
    <3>2. lines[key] = R!merge(old, row)
      BY <2>8
    <3> DEFINE new == lines[key]
    <3>3. /\ new.hits = IF row.count_line /\ row.hits > old.hits THEN row.hits ELSE old.hits
          /\ new.covered = (old.covered \/ (row.count_line /\ row.covered))
          /\ new.count_line = (old.count_line \/ row.count_line)
      BY <3>2 DEF R!merge
    <3> HIDE DEF new, row, lines, key, more, old
    <3>4. /\ row.count_line \in BOOLEAN /\ row.covered \in BOOLEAN
          /\ old.count_line \in BOOLEAN /\ old.covered \in BOOLEAN
          /\ row.hits \in Int /\ old.hits \in Int
      BY <1>2, <2>5, <2>6, <3>1 DEF MergedRow
    <3>5. /\ new.count_line \in BOOLEAN
          /\ new.count_line <=> \/ key \in DOMAIN b.lines /\ b.lines[key].count_line
                                \/ CountedFor(b, more, key) # {}
      <4>1. old.count_line <=> \/ key \in DOMAIN b.lines /\ b.lines[key].count_line
                               \/ CountedFor(b, set, key) # {}
        BY <3>1 DEF MergedRow
      <4>2. CountedFor(b, more, key) # {} <=> CountedFor(b, set, key) # {} \/ call.count_line
        BY <2>7
      <4> QED
        BY <2>5, <3>3, <3>4, <4>1, <4>2
    <3>6. /\ new.covered \in BOOLEAN
          /\ new.covered <=> \/ key \in DOMAIN b.lines /\ b.lines[key].covered
                             \/ \E x \in CountedFor(b, more, key) : CallsItCovered(x)
      <4>1. old.covered <=> \/ key \in DOMAIN b.lines /\ b.lines[key].covered
                            \/ \E x \in CountedFor(b, set, key) : CallsItCovered(x)
        BY <3>1 DEF MergedRow
      <4>2. (\E x \in CountedFor(b, more, key) : CallsItCovered(x))
              <=> \/ \E x \in CountedFor(b, set, key) : CallsItCovered(x)
                  \/ call.count_line /\ CallsItCovered(call)
        BY <2>7
      <4> QED
        BY <2>5, <3>3, <3>4, <4>1, <4>2
    <3> DEFINE before == IF key \in DOMAIN b.lines THEN b.lines[key].hits ELSE 0
    <3>7. /\ new.hits \in Int /\ before <= new.hits
          /\ \A x \in CountedFor(b, more, key) : LineHits(x) <= new.hits
          /\ new.hits = before \/ \E x \in CountedFor(b, more, key) : new.hits = LineHits(x)
      <4>1. /\ before <= old.hits
            /\ \A x \in CountedFor(b, set, key) : LineHits(x) <= old.hits
            /\ old.hits = before \/ \E x \in CountedFor(b, set, key) : old.hits = LineHits(x)
        BY <3>1 DEF MergedRow
      <4>2. before \in Int /\ \A x \in CountedFor(b, set, key) : LineHits(x) \in Int
        <5>1. before \in Int
          BY DEF BuilderRows
        <5>2. \A x \in CountedFor(b, set, key) : LineHits(x) \in Int
          BY DEF CountedFor, CallsFor, LineHits, R!NoNegative
        <5> QED
          BY <5>1, <5>2
      <4> HIDE DEF before
      <4>3. CASE call.count_line /\ LineHits(call) > old.hits
        <5>1. /\ CountedFor(b, more, key) = CountedFor(b, set, key) \cup {call}
              /\ new.hits = LineHits(call)
          BY <2>5, <2>7, <3>3, <4>3
        <5>2. before <= new.hits /\ \A x \in CountedFor(b, set, key) : LineHits(x) <= new.hits
          BY <1>2, <3>4, <4>1, <4>2, <4>3, <5>1
        <5> QED
          BY <1>2, <5>1, <5>2
      <4>4. CASE ~ (call.count_line /\ LineHits(call) > old.hits)
        <5>1. new.hits = old.hits
          BY <2>5, <3>3, <4>4
        <5>2. \A x \in CountedFor(b, more, key) :
                x \in CountedFor(b, set, key) \/ (x = call /\ call.count_line)
          BY <2>7
        <5>3. CountedFor(b, set, key) \subseteq CountedFor(b, more, key)
          BY <2>7
        <5>4. call.count_line => LineHits(call) <= old.hits
          BY <1>2, <3>4, <4>4
        <5> QED
          BY <3>4, <4>1, <5>1, <5>2, <5>3, <5>4
      <4> QED
        BY <4>3, <4>4
    <3> QED
      BY <3>5, <3>6, <3>7 DEF MergedRow, new
  <2>9. ASSUME key \notin DOMAIN c.lines PROVE MergedRow(b, more, key, lines[key])
    <3>1. lines[key] = row
      BY <2>9
    <3> DEFINE new == lines[key]
    <3>2. key \notin DOMAIN b.lines /\ CountedFor(b, set, key) = {}
      BY <2>9 DEF MergedRows, CountedFor, CallsFor
    <3> HIDE DEF row, lines, key, more, new
    <3> DEFINE now == CountedFor(b, more, key)
    <3>3. /\ new.count_line \in BOOLEAN
          /\ new.count_line <=> \/ key \in DOMAIN b.lines /\ b.lines[key].count_line
                                \/ now # {}
      BY <2>5, <2>7, <3>1, <3>2 DEF new
    <3>4. /\ new.covered \in BOOLEAN
          /\ new.covered <=> \/ key \in DOMAIN b.lines /\ b.lines[key].covered
                             \/ \E x \in now : CallsItCovered(x)
      BY <2>5, <2>6, <2>7, <3>1, <3>2 DEF new
    <3>5. /\ new.hits \in Int /\ 0 <= new.hits
          /\ \A x \in now : LineHits(x) <= new.hits
          /\ new.hits = 0 \/ \E x \in now : new.hits = LineHits(x)
      <4>1. CASE call.count_line
        <5>1. now = {call}
          BY <2>7, <3>2, <4>1
        <5> HIDE DEF now
        <5>2. new.hits = LineHits(call)
          BY <2>5, <3>1, <4>1 DEF new
        <5> HIDE DEF new
        <5> QED
          BY <1>2, <5>1, <5>2
      <4>2. CASE ~ call.count_line
        <5>1. now = {}
          BY <2>7, <3>2, <4>2
        <5> HIDE DEF now
        <5>2. new.hits = 0
          BY <2>5, <3>1, <4>2 DEF new
        <5> HIDE DEF new
        <5> QED
          BY <5>1, <5>2
      <4> QED
        BY <4>1, <4>2
    <3>6. 0 = IF key \in DOMAIN b.lines THEN b.lines[key].hits ELSE 0
      BY <3>2
    <3> HIDE DEF new
    <3>7. MergedRow(b, more, key, new)
      BY <3>3, <3>4, <3>5, <3>6 DEF MergedRow
    <3> QED
      BY <3>7 DEF new
  <2>10. \A k \in DOMAIN lines : MergedRow(b, more, k, lines[k])
    <3> HIDE DEF lines, key, more
    <3> QED
      BY <2>4, <2>8, <2>9
  <2>11. MergedRows(b, more, d)
    <3> HIDE DEF lines, d, more
    <3> QED
      BY <1>1, <2>2, <2>3, <2>10 DEF MergedRows, more
  <2> QED
    BY <2>2, <2>11
<1> QED
  BY <1>3, <1>4

\* The builders that add_lines goes through.
BuiltBy(b, calls, after) ==
    after = [n \in 0..Len(calls) |-> IF n = 0 THEN b ELSE R!add_line(after[n - 1], calls[n])]

\* There are such builders, for any number of calls.
LEMMA BuiltOneByOne ==
    ASSUME NEW b, NEW calls, Len(calls) \in Nat
    PROVE \E after : BuiltBy(b, calls, after) /\ R!add_lines(b, calls) = after[Len(calls)]
<1> DEFINE Step(f, n) == IF n = 0 THEN b ELSE R!add_line(f[n - 1], calls[n])
           Solves(f, len) == f = [n \in 0..len |-> Step(f, n)]
           Lengths == {len \in Nat : \E f : Solves(f, len)}
           after == CHOOSE f : Solves(f, Len(calls))
<1>1. R!add_lines(b, calls) = after[Len(calls)]
  BY DEF R!add_lines
<1> HIDE DEF after
<1>2. 0 \in Lengths
  <2> DEFINE f == [n \in 0..0 |-> b]
  <2>1. Solves(f, 0)
    OBVIOUS
  <2> QED
    BY <2>1
<1>3. ASSUME NEW len \in Lengths PROVE len + 1 \in Lengths
  <2>1. PICK f : Solves(f, len)
    OBVIOUS
  <2> DEFINE g == [n \in 0..(len + 1) |->
                     IF n = len + 1 THEN R!add_line(f[len], calls[len + 1]) ELSE f[n]]
  <2>2. \A n \in 0..len : g[n] = f[n]
    OBVIOUS
  <2>3. ASSUME NEW n \in 0..(len + 1) PROVE g[n] = Step(g, n)
    <3>1. CASE n = len + 1
      BY <2>2, <3>1
    <3>2. CASE n # len + 1
      <4>1. n \in 0..len /\ (n # 0 => n - 1 \in 0..len)
        BY <3>2
      <4>2. g[n] = f[n] /\ f[n] = Step(f, n)
        BY <2>1, <2>2, <4>1
      <4>3. n # 0 => g[n - 1] = f[n - 1]
        BY <2>2, <4>1
      <4> HIDE DEF g
      <4> QED
        BY <4>2, <4>3
    <3> QED
      BY <3>1, <3>2
  <2>4. g = [n \in 0..(len + 1) |-> g[n]]
    OBVIOUS
  <2> HIDE DEF g
  <2>5. Solves(g, len + 1)
    BY <2>3, <2>4
  <2>6. len + 1 \in Nat
    OBVIOUS
  <2> HIDE DEF Solves
  <2> QED
    BY <2>5, <2>6
<1>4. Lengths = Nat
  <2>1. Lengths \in SUBSET Nat
    OBVIOUS
  <2> HIDE DEF Lengths
  <2> QED
    BY <1>2, <1>3, <2>1, Induction
<1>5. \E f : Solves(f, Len(calls))
  BY <1>4
<1> HIDE DEF Lengths
<1>6. Solves(after, Len(calls))
  <2> HIDE DEF Solves
  <2> QED
    BY <1>5 DEF after
<1> QED
  BY <1>1, <1>6 DEF BuiltBy

\* What add_lines builds (ReportBuilder of src/parser.rs): for any builder and
\* any calls, every line has a row when a call is about it, the row is counted
\* when a call counts the line, covered when one of those says so, and has the
\* most hits of those; it is about no other line, and no row is lost.
THEOREM EveryRowIsMerged ==
    ASSUME NEW b, Builder(b), BuilderRows(b), NEW calls, LineCalls(calls)
    PROVE MergedRows(b, {calls[i] : i \in 1..Len(calls)}, R!add_lines(b, calls))
<1>1. PICK after : BuiltBy(b, calls, after) /\ R!add_lines(b, calls) = after[Len(calls)]
  BY BuiltOneByOne DEF LineCalls
<1>0. /\ after[0] = b
      /\ \A n \in 1..Len(calls) : after[n] = R!add_line(after[n - 1], calls[n])
  <2>1. after[0] = b
    BY <1>1 DEF BuiltBy, LineCalls
  <2>2. ASSUME NEW n \in 1..Len(calls) PROVE after[n] = R!add_line(after[n - 1], calls[n])
    <3>1. n \in 0..Len(calls) /\ n # 0
      BY DEF LineCalls
    <3> QED
      BY <1>1, <3>1 DEF BuiltBy
  <2> QED
    BY <2>1, <2>2
<1> DEFINE first(n) == {calls[i] : i \in 1..n}
           Counts == {n \in Nat : n <= Len(calls) => /\ MergedRows(b, first(n), after[n])
                                                      /\ Builder(after[n])}
<1>2. 0 \in Counts
  <2>1. after[0] = b
    BY <1>0
  <2>2. first(0) = {}
    OBVIOUS
  <2>3. \A k : CountedFor(b, {}, k) = {}
    BY DEF CountedFor, CallsFor
  <2>4. MergedRows(b, {}, b)
    <3>1. ASSUME NEW k \in DOMAIN b.lines PROVE MergedRow(b, {}, k, b.lines[k])
      <4>1. b.lines[k].hits \in Int /\ b.lines[k].hits <= b.lines[k].hits
        BY DEF BuilderRows
      <4> QED
        BY <2>3, <4>1 DEF MergedRow, BuilderRows
    <3> QED
      BY <3>1 DEF MergedRows
  <2> QED
    BY <2>1, <2>2, <2>4
<1>3. ASSUME NEW n \in Counts PROVE n + 1 \in Counts
  <2> HIDE DEF first
  <2> SUFFICES ASSUME n + 1 <= Len(calls)
               PROVE MergedRows(b, first(n + 1), after[n + 1]) /\ Builder(after[n + 1])
    OBVIOUS
  <2>1. /\ n + 1 \in 1..Len(calls) /\ n + 1 # 0 /\ n + 1 - 1 = n /\ n + 1 \in 0..Len(calls)
        /\ MergedRows(b, first(n), after[n]) /\ Builder(after[n])
    BY DEF LineCalls
  <2>2. after[n + 1] = R!add_line(after[n], calls[n + 1])
    BY <1>0, <2>1
  <2>3. first(n + 1) = first(n) \cup {calls[n + 1]}
    BY DEF first
  <2>4. \A x \in first(n) : x.hits \in Int
    BY <2>1 DEF first, LineCalls
  <2>5. /\ calls[n + 1].line \in Int /\ calls[n + 1].hits \in Int
        /\ calls[n + 1].count_line \in BOOLEAN /\ calls[n + 1].covered \in BOOLEAN \cup {Absent}
    BY <2>1 DEF LineCalls
  <2> DEFINE next == R!add_line(after[n], calls[n + 1])
  <2>6. MergedRows(b, first(n) \cup {calls[n + 1]}, next) /\ Builder(next)
    <3> HIDE DEF first
    <3> QED
      BY <2>1, <2>4, <2>5, AddLine
  <2> HIDE DEF next
  <2> QED
    BY <2>2, <2>3, <2>6 DEF next
<1>4. Counts = Nat
  <2>1. Counts \in SUBSET Nat
    OBVIOUS
  <2> HIDE DEF Counts
  <2> QED
    BY <1>2, <1>3, <2>1, Induction
<1> HIDE DEF first
<1>5. MergedRows(b, first(Len(calls)), after[Len(calls)])
  <2>1. Len(calls) \in Nat /\ Len(calls) <= Len(calls)
    BY DEF LineCalls
  <2>2. Len(calls) \in Counts
    <3> HIDE DEF Counts
    <3> QED
      BY <1>4, <2>1
  <2> QED
    BY <2>1, <2>2
<1> QED
  BY <1>1, <1>5 DEF first

\* Neither the order of the calls nor a repeated one changes which lines have a
\* row, which are counted, which are covered and with how many hits: an
\* artifact says the same of its lines in whatever order it lists them.
THEOREM LineOrderDoesNotMatter ==
    ASSUME NEW b, Builder(b), BuilderRows(b),
           NEW calls, LineCalls(calls), NEW other, LineCalls(other),
           {calls[i] : i \in 1..Len(calls)} = {other[i] : i \in 1..Len(other)}
    PROVE LET c == R!add_lines(b, calls)
              d == R!add_lines(b, other)
          IN /\ DOMAIN c.lines = DOMAIN d.lines
             /\ \A k \in DOMAIN c.lines :
                  /\ c.lines[k].hits = d.lines[k].hits
                  /\ c.lines[k].covered = d.lines[k].covered
                  /\ c.lines[k].count_line = d.lines[k].count_line
<1> DEFINE set == {calls[i] : i \in 1..Len(calls)}
           c == R!add_lines(b, calls)
           d == R!add_lines(b, other)
<1>1. MergedRows(b, set, c) /\ MergedRows(b, set, d)
  BY EveryRowIsMerged
<1>2. \A x \in set : LineHits(x) \in Int
  BY DEF LineCalls, LineHits, R!NoNegative
<1> HIDE DEF set, c, d
<1>3. DOMAIN c.lines = DOMAIN d.lines
  BY <1>1 DEF MergedRows
<1>4. ASSUME NEW k \in DOMAIN c.lines
      PROVE /\ c.lines[k].hits = d.lines[k].hits
            /\ c.lines[k].covered = d.lines[k].covered
            /\ c.lines[k].count_line = d.lines[k].count_line
  <2> DEFINE x == c.lines[k]
             y == d.lines[k]
             before == IF k \in DOMAIN b.lines THEN b.lines[k].hits ELSE 0
             counted == CountedFor(b, set, k)
  <2>1. MergedRow(b, set, k, x) /\ MergedRow(b, set, k, y)
    BY <1>1, <1>3 DEF MergedRows
  <2> HIDE DEF x, y
  <2>2. x.covered = y.covered /\ x.count_line = y.count_line
    BY <2>1 DEF MergedRow
  <2>3. \A z \in {x, y} : /\ z.hits \in Int /\ before <= z.hits
                          /\ \A call \in counted : LineHits(call) <= z.hits
                          /\ z.hits = before \/ \E call \in counted : z.hits = LineHits(call)
    BY <2>1 DEF MergedRow
  <2> HIDE DEF before, counted
  <2>4. x.hits <= y.hits /\ y.hits <= x.hits
    BY <2>3
  <2>5. x.hits = y.hits
    BY <2>3, <2>4
  <2> QED
    BY <2>2, <2>5 DEF x, y
<1> QED
  BY <1>3, <1>4 DEF c, d

-----------------------------------------------------------------------------
(* Assembling a composite *)

\* The production entries of an inventory, and the regions they own.
Production(inventory) == {e \in inventory.entries : e.role = "production"}
Expected(inventory) == A!expected_regions(Production(inventory))

\* Every expected region is one that a production entry lists, by its key.
LEMMA ExpectedIsOwned ==
    ASSUME NEW inventory, NEW k \in DOMAIN Expected(inventory)
    PROVE LET o == Expected(inventory)[k]
          IN /\ o.entry \in Production(inventory) /\ o.region \in o.entry.regions
             /\ A!region_key(o.entry.id, o.region) = k
<1> DEFINE production == Production(inventory)
           owned == UNION {{<<A!region_key(e.id, r), e, r>> : r \in e.regions} : e \in production}
           first(key) == CHOOSE x \in owned : x[1] = key
<1>1. Expected(inventory)
        = [key \in {o[1] : o \in owned} |-> [entry |-> first(key)[2], region |-> first(key)[3]]]
  BY DEF Expected, A!expected_regions
<1>2. k \in {o[1] : o \in owned}
  BY <1>1
<1>3. first(k) \in owned /\ first(k)[1] = k
  <2> HIDE DEF owned
  <2> QED
    BY <1>2
<1>4. PICK e \in production : \E r \in e.regions : first(k) = <<A!region_key(e.id, r), e, r>>
  BY <1>3
<1> HIDE DEF first, owned, production
<1>5. Expected(inventory)[k] = [entry |-> first(k)[2], region |-> first(k)[3]]
  BY <1>1, <1>2
<1> QED
  BY <1>3, <1>4, <1>5 DEF production

\* The region that row k stands for was observed as covered, in evidence that
\* belongs to the owner and is not for other bytes.
Observation(inventory, inputs, owner, k, hash) ==
    \E i \in DOMAIN inputs :
        /\ A!Owner(inputs[i]) = owner
        /\ \E r \in inputs[i].regions :
             /\ r.covered /\ r.hash \in {Absent, hash}
             /\ A!logical_source_id(inputs[i], r) # Absent
             /\ A!region_key(A!logical_source_id(inputs[i], r), r) = k

\* The last input of the owner was ingested, for this revision.
LatestIsFresh(inventory, inputs, owner) ==
    \E i \in DOMAIN inputs :
        /\ A!Owner(inputs[i]) = owner /\ inputs[i].status = "ingested"
        /\ \A j \in DOMAIN inputs : A!Owner(inputs[j]) = owner => j <= i
        /\ ~A!EvidenceStale(inventory, inputs[i])

\* observed of src/composite.rs: what is covered was observed.
LEMMA CoveredWasObserved ==
    ASSUME NEW inventory, NEW inputs, NEW owner, NEW k,
           A!observed(Expected(inventory), inputs, owner, k) # Absent,
           A!observed(Expected(inventory), inputs, owner, k).covered
    PROVE Observation(inventory, inputs, owner, k, Expected(inventory)[k].entry.hash)
<1> DEFINE expected == Expected(inventory)
           placed == A!Placed(expected, inputs, owner, "observed")
           seen == {p[2] : p \in {q \in placed : q[1] = k}}
<1>1. \E r \in seen : r.covered
  BY DEF A!observed
<1>2. PICK p \in placed : p[1] = k /\ p[2].covered
  BY <1>1
<1>3. PICK i \in DOMAIN inputs :
        /\ A!Owner(inputs[i]) = owner
        /\ \E x \in inputs[i].regions :
             /\ A!place(expected, inputs[i], x).why = "observed"
             /\ p = <<A!place(expected, inputs[i], x).key, x>>
  <2> HIDE DEF expected
  <2> QED
    BY DEF A!Placed
<1>4. PICK r \in inputs[i].regions :
        /\ A!place(expected, inputs[i], r).why = "observed"
        /\ p = <<A!place(expected, inputs[i], r).key, r>>
  BY <1>3
<1> DEFINE id == A!logical_source_id(inputs[i], r)
           key == A!region_key(id, r)
<1>5. A!place(expected, inputs[i], r).why = "observed" =>
        /\ id # Absent /\ r.hash \in {Absent, expected[key].entry.hash}
        /\ A!place(expected, inputs[i], r).key = key
  <2> HIDE DEF expected, id, key
  <2> QED
    BY DEF A!place, id, key
<1> HIDE DEF id, key, expected, placed
<1>6. key = k /\ r.covered /\ id # Absent /\ r.hash \in {Absent, expected[k].entry.hash}
  BY <1>2, <1>4, <1>5
<1> QED
  BY <1>3, <1>6 DEF Observation, id, key, expected

\* descriptor_status of src/composite.rs: an ingested status is that of the
\* last input, which is then current.
LEMMA IngestedIsLatest ==
    ASSUME NEW inventory, NEW inputs, NEW owner,
           DOMAIN inputs \in SUBSET Int, IsFiniteSet(DOMAIN inputs),
           A!descriptor_status(inventory, Expected(inventory), inputs, owner) = "ingested"
    PROVE LatestIsFresh(inventory, inputs, owner)
<1> DEFINE own == {i \in DOMAIN inputs : A!Owner(inputs[i]) = owner}
           last == A!Max(own)
<1>1. /\ own # {} => A!format_allowed(Expected(inventory), inputs[last])
      /\ own # {} => ~A!EvidenceStale(inventory, inputs[last])
      /\ own # {} => inputs[last].status = "ingested"
  BY DEF A!descriptor_status
<1>2. own # {}
  <2> SUFFICES ASSUME own = {} PROVE FALSE
    OBVIOUS
  <2> QED
    BY SentinelsAreNoData DEF A!descriptor_status
<1>3. own \in SUBSET Int /\ IsFiniteSet(own)
  BY FS_Subset
<1>4. last \in own /\ \A j \in own : last >= j
  <2> HIDE DEF own
  <2>1. \E n \in own : \A m \in own : n >= m
    BY <1>2, <1>3, GreatestInteger
  <2> QED
    BY <2>1 DEF A!Max
<1> HIDE DEF last
<1> QED
  BY <1>1, <1>2, <1>3, <1>4 DEF LatestIsFresh

\* variant_state of src/composite.rs: only what was observed in fresh evidence
\* for the bytes in the working tree, which has no changes, is covered.
LEMMA CoveredState ==
    ASSUME NEW repo, NEW dirty \in BOOLEAN, NEW entry, NEW status, NEW mismatched \in BOOLEAN,
           NEW seen, A!variant_state(repo, dirty, entry, status, mismatched, seen) = "covered"
    PROVE /\ repo[entry.path] = entry.hash /\ ~mismatched /\ ~dirty
          /\ status = "ingested" /\ seen # Absent /\ seen.covered
BY DEF A!variant_state, A!SourceMismatch

-----------------------------------------------------------------------------
(* The rows *)

\* The composite that is assembled.
Assembled(inventory, inputs, repo, revision, dirty) ==
    A!assemble(inventory, inputs, repo, revision, dirty)

\* What row k says that is not about a variant.
LEMMA RowsOfEntries ==
    ASSUME NEW inventory, NEW inputs, NEW repo, NEW dirty, NEW k \in DOMAIN Expected(inventory)
    PROVE LET rows == A!region_rows(inventory, Expected(inventory), inputs, repo, dirty)
              o == Expected(inventory)[k]
          IN /\ DOMAIN rows = DOMAIN Expected(inventory)
             /\ rows[k].id = o.entry.id /\ rows[k].component = o.entry.component
             /\ rows[k].path = o.entry.path /\ rows[k].hash = o.entry.hash
             /\ rows[k].region = o.region
             /\ DOMAIN rows[k].variants = A!Required(o.entry)
BY DEF A!region_rows

\* The state that row k shows for a variant.
StateOf(inventory, inputs, repo, dirty, k, v) ==
    LET entry == Expected(inventory)[k].entry
        owner == <<entry.component, v>>
    IN A!variant_state(repo, dirty, entry,
           A!descriptor_status(inventory, Expected(inventory), inputs, owner),
           \E p \in A!Placed(Expected(inventory), inputs, owner, "source_mismatch") : p[1] = k,
           A!observed(Expected(inventory), inputs, owner, k))

\* What the row of a region says of each required variant.
LEMMA RowsOfVariants ==
    ASSUME NEW inventory, NEW inputs, NEW repo, NEW dirty, NEW k \in DOMAIN Expected(inventory),
           NEW v \in A!Required(Expected(inventory)[k].entry)
    PROVE A!region_rows(inventory, Expected(inventory), inputs, repo, dirty)[k].variants[v].state
            = StateOf(inventory, inputs, repo, dirty, k, v)
BY DEF A!region_rows, StateOf

-----------------------------------------------------------------------------
(* What assembly promises *)

\* assemble of src/composite.rs, for any inventory, repository and list of
\* inputs: a row that calls a region covered in a variant has an input of that
\* component and variant in which the region was observed as covered, the last
\* such input was ingested and is not stale, the bytes of the source are those
\* of the inventory, and the checkout has no changes.
THEOREM CoverageIsObserved ==
    ASSUME NEW inventory, NEW inputs, NEW repo, NEW revision, NEW dirty \in BOOLEAN,
           DOMAIN inputs \in SUBSET Int, IsFiniteSet(DOMAIN inputs),
           NEW k \in DOMAIN A!assemble(inventory, inputs, repo, revision, dirty).rows,
           NEW v \in DOMAIN A!assemble(inventory, inputs, repo, revision, dirty).rows[k].variants,
           A!assemble(inventory, inputs, repo, revision, dirty).rows[k].variants[v].state
             = "covered"
    PROVE LET row == A!assemble(inventory, inputs, repo, revision, dirty).rows[k]
              owner == <<row.component, v>>
          IN /\ k \in DOMAIN Expected(inventory) /\ ~dirty
             /\ repo[row.path] = row.hash
             /\ LatestIsFresh(inventory, inputs, owner)
             /\ Observation(inventory, inputs, owner, k, row.hash)
<1> DEFINE rows == A!region_rows(inventory, Expected(inventory), inputs, repo, dirty)
           entry == Expected(inventory)[k].entry
           owner == <<entry.component, v>>
           status == A!descriptor_status(inventory, Expected(inventory), inputs, owner)
           mismatched == \E p \in A!Placed(Expected(inventory), inputs, owner,
                                           "source_mismatch") : p[1] = k
           seen == A!observed(Expected(inventory), inputs, owner, k)
<1>1. A!assemble(inventory, inputs, repo, revision, dirty).rows = rows
  BY DEF A!assemble, A!Build, Expected, Production
<1>2. k \in DOMAIN rows /\ DOMAIN rows = DOMAIN Expected(inventory)
  <2>1. DOMAIN rows = DOMAIN Expected(inventory)
    BY DEF A!region_rows
  <2> QED
    BY <1>1, <2>1
<1>3. /\ rows[k].component = entry.component /\ rows[k].path = entry.path
      /\ rows[k].hash = entry.hash /\ DOMAIN rows[k].variants = A!Required(entry)
  BY <1>2, RowsOfEntries
<1>4. v \in A!Required(entry) /\ rows[k].variants[v].state = "covered"
  BY <1>1, <1>3
<1>5. A!variant_state(repo, dirty, entry, status, mismatched, seen) = "covered"
  <2>1. StateOf(inventory, inputs, repo, dirty, k, v) = "covered"
    BY <1>2, <1>4, RowsOfVariants
  <2> QED
    BY <2>1 DEF StateOf
<1> HIDE DEF rows
<1>6. /\ repo[entry.path] = entry.hash /\ ~dirty
      /\ status = "ingested" /\ seen # Absent /\ seen.covered
  <2>1. mismatched \in BOOLEAN
    OBVIOUS
  <2> HIDE DEF entry, status, mismatched, seen
  <2> QED
    BY <1>5, <2>1, CoveredState
<1>7. LatestIsFresh(inventory, inputs, owner)
  BY <1>6, IngestedIsLatest
<1>8. Observation(inventory, inputs, owner, k, entry.hash)
  BY <1>6, CoveredWasObserved
<1> HIDE DEF entry, status, mismatched, seen
<1> QED
  BY <1>1, <1>2, <1>3, <1>6, <1>7, <1>8

\* reasons of src/composite.rs, for any inventory, repository and list of
\* inputs: a complete composite is of the inventory's revision without changes
\* and of sources with the bytes the inventory lists, has a production region
\* and covers each in some variant; it has evidence for each variant that an
\* entry requires, never two for one, all of it ingested, current, in a format
\* the inventory expects, and without a region that belongs to no entry.
THEOREM CompleteIsWhole ==
    ASSUME NEW inventory, NEW inputs, NEW repo, NEW revision, NEW dirty \in BOOLEAN,
           A!assemble(inventory, inputs, repo, revision, dirty).complete
    PROVE LET build == A!assemble(inventory, inputs, repo, revision, dirty)
              expected == Expected(inventory)
          IN /\ ~dirty /\ inventory.revision = revision
             /\ DOMAIN build.rows # {}
             /\ \A k \in DOMAIN build.rows : \E v \in DOMAIN build.rows[k].variants :
                  build.rows[k].variants[v].state = "covered"
             /\ \A e \in Production(inventory) :
                  /\ repo[e.path] = e.hash
                  /\ \A v \in A!Required(e) : \E i \in DOMAIN inputs :
                       A!Owner(inputs[i]) = <<e.component, v>>
             /\ \A i \in DOMAIN inputs :
                  /\ inputs[i].status = "ingested" /\ ~A!EvidenceStale(inventory, inputs[i])
                  /\ A!format_allowed(expected, inputs[i])
                  /\ \A r \in inputs[i].regions : A!place(expected, inputs[i], r).why = "observed"
                  /\ \A j \in DOMAIN inputs :
                       A!Owner(inputs[i]) = A!Owner(inputs[j]) => i = j
<1> DEFINE rows == A!region_rows(inventory, Expected(inventory), inputs, repo, dirty)
           why == A!reasons(inventory, inputs, repo, revision, dirty)
           build == A!assemble(inventory, inputs, repo, revision, dirty)
<1>1. /\ build.rows = rows
      /\ why = {} /\ DOMAIN rows # {} /\ A!covered_keys(rows) = DOMAIN rows
  BY DEF A!assemble, A!Build, Expected, Production
<1>2. \A k \in DOMAIN rows : \E v \in DOMAIN rows[k].variants :
        rows[k].variants[v].state = "covered"
  <2> HIDE DEF rows
  <2> QED
    BY <1>1 DEF A!covered_keys
<1>3. /\ inventory.revision = revision /\ ~dirty
      /\ A!input_reasons(inventory, Expected(inventory), inputs) = {}
      /\ A!source_reasons(Production(inventory), inputs, repo) = {}
  BY <1>1 DEF A!reasons, Expected, Production
<1> HIDE DEF rows, why
<1>4. ASSUME NEW e \in Production(inventory)
      PROVE /\ repo[e.path] = e.hash
            /\ \A v \in A!Required(e) : \E i \in DOMAIN inputs :
                 A!Owner(inputs[i]) = <<e.component, v>>
  <2> DEFINE owners == {A!Owner(inputs[i]) : i \in DOMAIN inputs}
  <2>1. {<<"variant", x.id>> : x \in {y \in Production(inventory) :
                              ~({y.component} \X A!Required(y) \subseteq owners)}} = {}
    BY <1>3 DEF A!source_reasons
  <2>2. {<<"source", x.id>> : x \in {y \in Production(inventory) : A!SourceMismatch(repo, y)}} = {}
    BY <1>3 DEF A!source_reasons
  <2>3. {e.component} \X A!Required(e) \subseteq owners
    <3> HIDE DEF owners
    <3> QED
      BY <2>1
  <2>4. ~A!SourceMismatch(repo, e)
    BY <2>2
  <2> QED
    BY <2>3, <2>4 DEF A!SourceMismatch
<1>5. ASSUME NEW i \in DOMAIN inputs
      PROVE /\ inputs[i].status = "ingested" /\ ~A!EvidenceStale(inventory, inputs[i])
            /\ A!format_allowed(Expected(inventory), inputs[i])
            /\ \A r \in inputs[i].regions :
                 A!place(Expected(inventory), inputs[i], r).why = "observed"
            /\ \A j \in DOMAIN inputs : A!Owner(inputs[i]) = A!Owner(inputs[j]) => i = j
  <2> DEFINE all == A!Range(inputs)
             expected == Expected(inventory)
             whys(x) == {A!place(expected, x, r).why : r \in x.regions}
  <2>1. inputs[i] \in all
    BY DEF A!Range
  <2> HIDE DEF all, expected
  <2>2. ~\E m, n \in DOMAIN inputs : m # n /\ A!Owner(inputs[m]) = A!Owner(inputs[n])
    BY <1>3 DEF A!input_reasons
  <2>3. {<<"stale", A!Owner(x)>> : x \in {y \in all : A!EvidenceStale(inventory, y)}} = {}
    BY <1>3 DEF A!input_reasons, all
  <2>4. {<<"status", A!Owner(x)>> : x \in {y \in all : y.status # "ingested"}} = {}
    BY <1>3 DEF A!input_reasons, all
  <2>5. {<<"format", A!Owner(x)>> : x \in {y \in all : ~A!format_allowed(expected, y)}} = {}
    BY <1>3 DEF A!input_reasons, all, expected
  <2>6. {<<"regions", A!Owner(x)>> :
           x \in {y \in all : A!format_allowed(expected, y) /\ whys(y) \ {"observed"} # {}}} = {}
    BY <1>3 DEF A!input_reasons, all, expected
  <2>7. inputs[i].status = "ingested" /\ ~A!EvidenceStale(inventory, inputs[i])
    BY <2>1, <2>3, <2>4
  <2>8. A!format_allowed(expected, inputs[i])
    BY <2>1, <2>5
  <2>9. whys(inputs[i]) \ {"observed"} = {}
    <3> HIDE DEF whys
    <3> QED
      BY <2>1, <2>6, <2>8
  <2> QED
    BY <2>2, <2>7, <2>8, <2>9 DEF expected
<1> QED
  BY <1>1, <1>2, <1>3, <1>4, <1>5

-----------------------------------------------------------------------------
(* The composites of a project *)

\* What every row of a stored composite shows.  It names the bytes that the
\* composite's inventory lists; what it calls covered was measured on these,
\* which are those that the source had when the composite was made.
RowIsMeasured(composite, tree, row, measured) ==
    /\ row.id = <<1>> /\ row.component = "core"
    /\ row.region.start_line \in Nat /\ row.region.discriminator = <<0>>
    /\ row.region.end_line = row.region.start_line
    /\ row.hash = composite.inventory_hash.bytes
    /\ DOMAIN row.variants = Variants
    /\ \A v \in Variants : row.variants[v].state = "covered" =>
         /\ row.hash = tree
         /\ <<v, row.region.start_line, TRUE, tree>> \in measured

\* A composite whose evidence can be reused.
CompositeIsMeasured(composite, tree, measured) ==
    LET rows == composite.build.rows
    IN /\ \A k \in DOMAIN rows : RowIsMeasured(composite, tree, rows[k], measured)
       /\ composite.build.complete =>
            /\ ~composite.dirty
            /\ \A k \in DOMAIN rows : \E v \in Variants : rows[k].variants[v].state = "covered"

\* The fields of a project and of its inputs.
ProjectFields == {"kind", "bytes", "revision", "dirty", "inventory", "produced", "measured",
                  "stored", "trees", "steps"}

\* The inductive invariant of a project: its composites are measured, one by
\* one, by what the runs have measured so far.
ProjectInv ==
    /\ ProjectFields \subseteq DOMAIN case /\ case.dirty \in BOOLEAN
    /\ \E S : case.stored \in Seq(S)
    /\ \E S : case.trees \in Seq(S)
    /\ Len(case.stored) = Len(case.trees)
    /\ \A i \in 1..Len(case.stored) :
         CompositeIsMeasured(case.stored[i], case.trees[i], case.measured)

\* The invariant of the composites.
CompositeInv == "kind" \in DOMAIN case /\ (case.kind = "project" => ProjectInv)

\* The modules count alike.
LEMMA CountsAlike == \A S : A!Cardinality(S) = Cardinality(S)
  BY DEF A!Cardinality, Cardinality

\* parse_inventory of src/composite.rs, for the project's inventory: its
\* entries are the one that it lists.
LEMMA TheInventory ==
    ASSUME NEW inventory, A!parse_inventory(InventoryDoc(inventory)) # Bad
    PROVE LET parsed == A!parse_inventory(InventoryDoc(inventory))
          IN \A e \in parsed.entries :
               /\ e.id = <<1>> /\ e.component = "core" /\ e.path = 1
               /\ e.hash = inventory.bytes /\ e.variants = Variants
               /\ \A r \in e.regions : /\ r.start_line \in Nat /\ r.end_line = r.start_line
                                       /\ r.discriminator = <<0>>
<1> DEFINE doc == InventoryDoc(inventory)
           entries == [i \in DOMAIN doc.entries |-> A!parse_inventory_entry(doc.entries[i])]
           e == doc.entries[1]
           parsed == A!parse_inventory_entry(e)
           region(n) == [start_line |-> n, end_line |-> n, discriminator |-> <<0>>]
<1>1. DOMAIN doc.entries = {1}
  BY DEF InventoryDoc
<1>2. /\ Bad \notin A!Range(entries)
      /\ A!parse_inventory(doc).entries = A!Range(entries)
  BY DEF A!parse_inventory
<1>3. /\ A!Range(entries) = {parsed} /\ parsed # Bad
  BY <1>1, <1>2 DEF A!Range
<1>4. /\ e.id = <<1>> /\ e.path = 1 /\ e.package = "core" /\ e.component = Absent
      /\ e.hash = inventory.bytes /\ e.variants = <<"v1", "v2">>
      /\ e.regions = <<region(1), region(2)>>
  BY DEF InventoryDoc
<1> DEFINE regions == IF e.regions \in {Bad, Absent} THEN Bad
                      ELSE [i \in DOMAIN e.regions |-> A!parse_inventory_region(e.regions[i])]
<1> HIDE DEF e, doc
<1>5. /\ parsed.id = e.id /\ parsed.path = e.path /\ parsed.hash = e.hash
      /\ parsed.component = e.package /\ parsed.variants = A!Range(e.variants)
      /\ parsed.regions = A!Range(regions)
      /\ regions # Bad /\ Bad \notin A!Range(regions)
  BY <1>3, <1>4 DEF A!parse_inventory_entry
<1>6. A!Range(e.variants) = Variants
  BY <1>4 DEF A!Range, Variants
<1>7. \A r \in A!Range(regions) : r = region(1) \/ r = region(2)
  <2>1. /\ DOMAIN regions = {1, 2}
        /\ regions[1] = A!parse_inventory_region(region(1))
        /\ regions[2] = A!parse_inventory_region(region(2))
    BY <1>4, <1>5
  <2>2. \A n : A!parse_inventory_region(region(n)) \in {region(n), Bad}
    BY DEF A!parse_inventory_region
  <2> HIDE DEF regions
  <2> QED
    BY <1>5, <2>1, <2>2 DEF A!Range
<1> HIDE DEF parsed, regions
<1> QED
  BY <1>2, <1>3, <1>4, <1>5, <1>6, <1>7 DEF doc

\* composite_descriptor of src/composite.rs, for the project's artifacts.
LEMMA TheDescriptors ==
    ASSUME NEW v \in Variants
    PROVE /\ A!composite_descriptor(Descriptor("inventory", v)).role = "inventory"
          /\ LET d == A!composite_descriptor(Descriptor("coverage", v))
             IN /\ d.role = "coverage" /\ d.component = "core" /\ d.variant = v
                /\ d.format = A!REGIONS_SCHEMA
<1>1. A!Distinct(Aliases)
  <2>1. A!Range(Aliases) = {[path |-> 1, id |-> <<1>>]}
    BY DEF A!Range, Aliases
  <2>2. Cardinality({[path |-> 1, id |-> <<1>>]}) = 1
    BY FS_Singleton
  <2>3. Len(Aliases) = 1
    BY DEF Aliases
  <2> QED
    BY <2>1, <2>2, <2>3, CountsAlike DEF A!Distinct
<1>2. /\ Bad # Absent /\ Bad # 1
      /\ \A s \in {Bad, Absent} :
           /\ s \notin {"core", "rust", "coverage", "inventory", "ingested", A!REGIONS_SCHEMA}
           /\ s \notin Variants /\ s # <<>> /\ s # <<1>> /\ s # Aliases
  BY SentinelsAreNoData
<1>3. A!parse_aliases(Absent) = <<>>
  BY DEF A!parse_aliases
<1>4. A!parse_aliases(Aliases) = Aliases
  <2>1. \A i \in DOMAIN Aliases : Aliases[i].path = 1 /\ Aliases[i].id = <<1>>
    BY DEF Aliases
  <2>2. Aliases # Absent /\ Aliases # Bad
    BY <1>2
  <2> HIDE DEF Aliases
  <2> QED
    BY <1>1, <1>2, <2>1, <2>2 DEF A!parse_aliases
<1>5. A!composite_descriptor(Descriptor("inventory", v)).role = "inventory"
  <2> DEFINE d == Descriptor("inventory", v)
  <2>1. /\ d.role = "inventory" /\ d.component = "core" /\ d.variant = v /\ d.language = "rust"
        /\ d.aliases = Absent /\ d.toolchain = Absent /\ d.inventory_artifact = "inventory"
    BY DEF Descriptor
  <2> HIDE DEF d
  <2>2. A!composite_descriptor(d).role = "inventory"
    BY <1>2, <1>3, <2>1 DEF A!composite_descriptor
  <2> QED
    BY <2>2 DEF d
<1>6. LET d == A!composite_descriptor(Descriptor("coverage", v))
      IN d.role = "coverage" /\ d.component = "core" /\ d.variant = v /\ d.format = A!REGIONS_SCHEMA
  <2> DEFINE d == Descriptor("coverage", v)
  <2>1. /\ d.role = "coverage" /\ d.component = "core" /\ d.variant = v /\ d.language = "rust"
        /\ d.aliases = Aliases /\ d.toolchain = Absent /\ d.inventory_artifact = "inventory"
        /\ d.format = A!REGIONS_SCHEMA
    BY DEF Descriptor
  <2> HIDE DEF d
  <2>2. Aliases # <<>>
    BY DEF Aliases
  <2>3. A!normalize_composite_format(A!REGIONS_SCHEMA) = A!REGIONS_SCHEMA
    BY DEF A!normalize_composite_format, A!REGIONS_SCHEMA
  <2>4. LET r == A!composite_descriptor(d)
        IN r.role = "coverage" /\ r.component = "core" /\ r.variant = v /\ r.format = A!REGIONS_SCHEMA
    BY <1>2, <1>4, <2>1, <2>2, <2>3 DEF A!composite_descriptor
  <2> QED
    BY <2>4 DEF d
<1> QED
  BY <1>5, <1>6

\* A region that claims no more than the runs have measured, in variant v, on
\* some of the given bytes.
Backed(r, v, bytes, measured) ==
    r.covered =>
        /\ r.id = <<1>> /\ r.discriminator = <<0>>
        /\ r.start_line \in Nat /\ r.end_line = r.start_line
        /\ \E tree \in bytes : <<v, r.start_line, TRUE, tree>> \in measured

\* The fields of an input.
InputFields == {"component", "variant", "status", "revision", "reused_from", "regions"}

\* An input of variant v whose regions are backed.
Supplied(input, v, bytes, measured) ==
    /\ InputFields \subseteq DOMAIN input
    /\ A!Owner(input) = <<"core", v>>
    /\ \A r \in input.regions : Backed(r, v, bytes, measured)

\* The artifact of a variant: its report when the run measured it.
ArtifactOf(v, ran, status, revision, hash) ==
    [composite |-> Descriptor("coverage", v), status |-> status, path |-> v,
     doc |-> IF v \in DOMAIN ran THEN ReportDoc(ran[v], revision, hash) ELSE Bad]

\* component_input of src/storage.rs: an artifact gives regions only when it is
\* ingested, those of its report.
LEMMA TheInputs ==
    ASSUME NEW v \in Variants, NEW ran, NEW status, NEW revision, NEW hash, NEW tree, NEW measured,
           status = "ingested" => /\ v \in DOMAIN ran /\ ran[v] \in Outcomes
                                  /\ \A n \in DOMAIN ran[v] : <<v, n, ran[v][n], tree>> \in measured
    PROVE Supplied(A!component_input(ArtifactOf(v, ran, status, revision, hash)), v, {tree},
                   measured)
<1> DEFINE artifact == ArtifactOf(v, ran, status, revision, hash)
           input == A!component_input(artifact)
           doc == ReportDoc(ran[v], revision, hash)
           parsed == A!parse_region_artifact_with_revision(artifact.doc)
           regions == {A!parse_canonical_region(r) : r \in doc.regions}
           d == A!composite_descriptor(artifact.composite)
<1>1. d.component = "core" /\ d.variant = v /\ d.format = A!REGIONS_SCHEMA
  BY TheDescriptors DEF ArtifactOf
<1>2. artifact.status = status
  BY DEF ArtifactOf
<1>3. /\ input.component = d.component /\ input.variant = d.variant
      /\ InputFields \subseteq DOMAIN input
      /\ \/ input.regions = {}
         \/ /\ artifact.status = "ingested"
            /\ parsed # Bad /\ input.regions = parsed.regions
  <2> HIDE DEF artifact, d
  <2> QED
    BY <1>1 DEF A!component_input, A!composite_descriptor_from_artifact, InputFields, d
<1>4. ASSUME status = "ingested", parsed # Bad, NEW r \in parsed.regions
      PROVE Backed(r, v, {tree}, measured)
  <2>1. artifact.doc = doc
    BY <1>4 DEF ArtifactOf
  <2>2. parsed.regions = regions /\ Bad \notin regions
    BY <1>4, <2>1 DEF A!parse_region_artifact_with_revision
  <2>3. PICK n \in DOMAIN ran[v] :
          r = A!parse_canonical_region(
                [path |-> 1, id |-> <<1>>, start_line |-> n, end_line |-> n,
                 discriminator |-> <<0>>, hits |-> IF ran[v][n] THEN 1 ELSE 0,
                 covered |-> Absent, hash |-> hash])
    BY <1>4, <2>2 DEF ReportDoc
  <2>4. r # Bad
    BY <1>4, <2>2
  <2>5. /\ r.id = <<1>> /\ r.discriminator = <<0>> /\ r.start_line = n /\ r.end_line = n
        /\ r.covered => ran[v][n]
    BY <2>3, <2>4 DEF A!parse_canonical_region, A!Region
  <2>6. n \in Nat /\ ran[v][n] \in BOOLEAN
    <3>1. \A o \in Outcomes : o \in Seq(BOOLEAN)
      <4>1. \A a, b \in BOOLEAN : <<a>> \in Seq(BOOLEAN) /\ <<a, b>> \in Seq(BOOLEAN)
        OBVIOUS
      <4> QED
        BY <4>1, Zenon DEF Outcomes
    <3>2. \A o \in Seq(BOOLEAN) : \A m \in DOMAIN o : m \in Nat /\ o[m] \in BOOLEAN
      OBVIOUS
    <3> QED
      BY <1>4, <3>1, <3>2
  <2>7. <<v, n, ran[v][n], tree>> \in measured
    BY <1>4
  <2> QED
    BY <2>5, <2>6, <2>7 DEF Backed
<1> QED
  BY <1>1, <1>2, <1>3, <1>4 DEF Supplied, A!Owner

\* reuse_stale_composite_inputs of src/storage.rs: the evidence of a measured
\* composite claims what was measured on the bytes that its inventory lists.
LEMMA TheReuse ==
    ASSUME NEW inputs, NEW id, NEW baseline, NEW tree, NEW bytes, NEW measured,
           CompositeIsMeasured(baseline, tree, measured),
           NEW n \in DOMAIN inputs, NEW v \in Variants, Supplied(inputs[n], v, bytes, measured)
    PROVE Supplied(A!reuse_stale_composite_inputs(inputs, id, baseline)[n], v,
                   bytes \cup {baseline.inventory_hash.bytes}, measured)
<1> DEFINE rows == baseline.build.rows
           kept(owner) ==
             {A!Region(rows[k].path, rows[k].id, rows[k].region.start_line,
                       rows[k].region.end_line, rows[k].region.discriminator,
                       rows[k].variants[owner[2]].hits,
                       rows[k].variants[owner[2]].state = "covered", rows[k].hash) :
                k \in {x \in DOMAIN rows :
                         /\ rows[x].component = owner[1]
                         /\ owner[2] \in DOMAIN rows[x].variants
                         /\ rows[x].variants[owner[2]].state \in {"covered", "uncovered"}}}
           used == A!reuse_stale_composite_inputs(inputs, id, baseline)
           listed == baseline.inventory_hash.bytes
           reused == [inputs[n] EXCEPT !.status = "ingested", !.revision = baseline.revision,
                                       !.reused_from = id, !.regions = kept(A!Owner(inputs[n]))]
<1>1. used[n] = reused \/ used[n] = inputs[n]
  BY DEF A!reuse_stale_composite_inputs
<1>2. /\ reused.component = inputs[n].component /\ reused.variant = inputs[n].variant
      /\ reused.regions = kept(<<"core", v>>) /\ DOMAIN reused = DOMAIN inputs[n]
  <2> HIDE DEF kept
  <2> QED
    BY DEF Supplied, InputFields
<1>3. ASSUME NEW r \in kept(<<"core", v>>)
      PROVE Backed(r, v, bytes \cup {listed}, measured)
  <2>1. PICK k \in DOMAIN rows :
          r = A!Region(rows[k].path, rows[k].id, rows[k].region.start_line,
                       rows[k].region.end_line, rows[k].region.discriminator,
                       rows[k].variants[v].hits,
                       rows[k].variants[v].state = "covered", rows[k].hash)
    OBVIOUS
  <2>2. RowIsMeasured(baseline, tree, rows[k], measured)
    BY DEF CompositeIsMeasured
  <2> DEFINE row == rows[k]
  <2> HIDE DEF row, rows, kept
  <2>3. /\ r.id = row.id /\ r.start_line = row.region.start_line
        /\ r.end_line = row.region.end_line /\ r.discriminator = row.region.discriminator
        /\ r.covered = (row.variants[v].state = "covered")
    BY <2>1 DEF A!Region, row
  <2>4. RowIsMeasured(baseline, tree, row, measured)
    BY <2>2 DEF row
  <2>5. ASSUME r.covered PROVE <<v, r.start_line, TRUE, listed>> \in measured
    BY <2>3, <2>4, <2>5 DEF RowIsMeasured
  <2> QED
    BY <2>3, <2>4, <2>5 DEF Backed, RowIsMeasured
<1>4. \A r \in inputs[n].regions : Backed(r, v, bytes \cup {listed}, measured)
  BY DEF Backed, Supplied
<1> HIDE DEF reused, kept, used
<1>5. Supplied(used[n], v, bytes \cup {listed}, measured)
  BY <1>1, <1>2, <1>3, <1>4 DEF A!Owner, Supplied
<1> QED
  BY <1>5 DEF used

\* The key of a region tells its first line.
LEMMA KeysTellLines ==
    ASSUME NEW a, NEW b, a.start_line \in Nat, b.start_line \in Nat,
           a.end_line = a.start_line, b.end_line = b.start_line,
           a.discriminator = << 0 >>, b.discriminator = << 0 >>,
           A!region_key(<< 1 >>, a) = A!region_key(<< 1 >>, b)
    PROVE a.start_line = b.start_line
<1> DEFINE key(n) == <<1>> \o <<n, n>> \o <<0>>
<1>1. \A n \in Nat : key(n)[2] = n
  OBVIOUS
<1>2. key(a.start_line) = key(b.start_line)
  BY DEF A!region_key
<1> HIDE DEF key
<1> QED
  BY <1>1, <1>2

\* A composite that is assembled from backed inputs is measured.
LEMMA AssembledIsMeasured ==
    ASSUME NEW listed, NEW inputs, NEW tree, NEW revision, NEW dirty \in BOOLEAN, NEW measured,
           NEW composite,
           DOMAIN inputs \in SUBSET Int, IsFiniteSet(DOMAIN inputs),
           A!parse_inventory(InventoryDoc(listed)) # Bad,
           \A n \in DOMAIN inputs : \E v \in Variants :
             Supplied(inputs[n], v, {tree, listed.bytes}, measured),
           composite.inventory_hash = listed, composite.dirty = dirty,
           composite.build = A!assemble(A!parse_inventory(InventoryDoc(listed)), inputs, <<tree>>,
                                        revision, dirty)
    PROVE CompositeIsMeasured(composite, tree, measured)
<1> DEFINE inventory == A!parse_inventory(InventoryDoc(listed))
           build == A!assemble(inventory, inputs, <<tree>>, revision, dirty)
           rows == build.rows
<1> HIDE DEF inventory
<1>1. ASSUME NEW k \in DOMAIN rows
      PROVE /\ rows[k].id = <<1>> /\ rows[k].component = "core" /\ rows[k].path = 1
            /\ rows[k].region.start_line \in Nat /\ rows[k].region.discriminator = <<0>>
            /\ rows[k].region.end_line = rows[k].region.start_line
            /\ rows[k].hash = listed.bytes /\ DOMAIN rows[k].variants = Variants
            /\ k = A!region_key(<<1>>, rows[k].region)
  <2> DEFINE o == Expected(inventory)[k]
             made == A!region_rows(inventory, Expected(inventory), inputs, <<tree>>, dirty)
  <2>1. rows = made
    BY DEF A!assemble, A!Build, Expected, Production
  <2>2. DOMAIN made = DOMAIN Expected(inventory)
    BY DEF A!region_rows
  <2>3. k \in DOMAIN Expected(inventory)
    BY <2>1, <2>2
  <2>4. o.entry \in Production(inventory) /\ o.region \in o.entry.regions
        /\ A!region_key(o.entry.id, o.region) = k
    BY <2>3, ExpectedIsOwned
  <2>5. o.entry \in inventory.entries
    BY <2>4 DEF Production
  <2>6. /\ o.entry.id = <<1>> /\ o.entry.component = "core" /\ o.entry.path = 1
        /\ o.entry.hash = listed.bytes /\ o.entry.variants = Variants
        /\ \A r \in o.entry.regions : /\ r.start_line \in Nat /\ r.end_line = r.start_line
                                      /\ r.discriminator = <<0>>
    BY <2>5, TheInventory DEF inventory
  <2>7. A!Required(o.entry) = Variants
    BY <2>6 DEF A!Required, Variants
  <2>8. /\ made[k].id = o.entry.id /\ made[k].component = o.entry.component
        /\ made[k].path = o.entry.path /\ made[k].hash = o.entry.hash
        /\ made[k].region = o.region /\ DOMAIN made[k].variants = A!Required(o.entry)
    BY <2>3, RowsOfEntries
  <2> HIDE DEF made, o, rows
  <2> QED
    BY <2>1, <2>4, <2>6, <2>7, <2>8
<1>2. ASSUME NEW k \in DOMAIN rows, NEW v \in Variants, rows[k].variants[v].state = "covered"
      PROVE /\ rows[k].hash = tree
            /\ <<v, rows[k].region.start_line, TRUE, tree>> \in measured
  <2> DEFINE row == rows[k]
  <2>1. /\ <<tree>>[row.path] = row.hash
        /\ Observation(inventory, inputs, <<row.component, v>>, k, row.hash)
    BY <1>1, <1>2, CoverageIsObserved
  <2>2. /\ row.path = 1 /\ row.component = "core" /\ row.hash = listed.bytes
        /\ row.region.start_line \in Nat /\ row.region.discriminator = <<0>>
        /\ row.region.end_line = row.region.start_line
        /\ k = A!region_key(<<1>>, row.region)
    BY <1>1
  <2> HIDE DEF row
  <2>3. row.hash = tree /\ listed.bytes = tree
    BY <2>1, <2>2
  <2>4. PICK i \in DOMAIN inputs :
          /\ A!Owner(inputs[i]) = <<"core", v>>
          /\ \E r \in inputs[i].regions :
               /\ r.covered
               /\ A!region_key(A!logical_source_id(inputs[i], r), r) = k
    BY <2>1, <2>2 DEF Observation
  <2>5. PICK r \in inputs[i].regions :
          r.covered /\ A!region_key(A!logical_source_id(inputs[i], r), r) = k
    BY <2>4
  <2>6. Backed(r, v, {tree, listed.bytes}, measured)
    <3>1. PICK w \in Variants : Supplied(inputs[i], w, {tree, listed.bytes}, measured)
      OBVIOUS
    <3>2. w = v
      BY <2>4, <3>1 DEF Supplied
    <3> QED
      BY <3>1, <3>2 DEF Supplied
  <2>7. /\ r.id = <<1>> /\ r.discriminator = <<0>>
        /\ r.start_line \in Nat /\ r.end_line = r.start_line
        /\ <<v, r.start_line, TRUE, tree>> \in measured
    BY <2>3, <2>5, <2>6 DEF Backed
  <2>8. A!logical_source_id(inputs[i], r) = <<1>>
    BY <2>7, SentinelsAreNoData DEF A!logical_source_id
  <2>9. r.start_line = row.region.start_line
    BY <2>2, <2>5, <2>7, <2>8, KeysTellLines
  <2> QED
    BY <2>3, <2>7, <2>9 DEF row
<1>3. ASSUME build.complete
      PROVE ~dirty /\ \A k \in DOMAIN rows : \E v \in Variants : rows[k].variants[v].state = "covered"
  <2>1. /\ ~dirty
        /\ \A k \in DOMAIN rows : \E v \in DOMAIN rows[k].variants :
             rows[k].variants[v].state = "covered"
    BY <1>3, CompleteIsWhole
  <2> HIDE DEF rows
  <2> QED
    BY <1>1, <2>1
<1>4. composite.build = build
  BY DEF inventory
<1> HIDE DEF build
<1>5. \A k \in DOMAIN rows : RowIsMeasured(composite, tree, rows[k], measured)
  BY <1>1, <1>2 DEF RowIsMeasured
<1> QED
  BY <1>3, <1>4, <1>5 DEF CompositeIsMeasured

\* The artifact that holds the inventory, and the checkout it is read from.
InventoryArtifact ==
    [composite |-> Descriptor("inventory", "v1"), status |-> "ingested", path |-> "inventory",
     doc |-> Bad]

WorkingTree(listed) == [f \in {"inventory"} |-> [doc |-> InventoryDoc(listed), hash |-> listed]]

\* compose_composite_snapshot of src/storage.rs: what it stores is measured
\* when what is stored already is.
LEMMA ComposedIsMeasured ==
    ASSUME NEW listed, NEW tree, NEW revision, NEW dirty \in BOOLEAN, NEW measured,
           NEW execution, NEW stored, NEW trees, NEW ran, NEW status, NEW hash,
           \A i \in DOMAIN stored : CompositeIsMeasured(stored[i], trees[i], measured),
           \A v \in Variants : status[v] = "ingested" =>
             /\ v \in DOMAIN ran /\ ran[v] \in Outcomes
             /\ \A n \in DOMAIN ran[v] : <<v, n, ran[v][n], tree>> \in measured
    PROVE CompositeIsMeasured(
            A!compose_composite_snapshot(
              <<InventoryArtifact, ArtifactOf("v1", ran, status["v1"], revision, hash),
                ArtifactOf("v2", ran, status["v2"], revision, hash)>>,
              WorkingTree(listed), <<tree>>, [revision |-> revision, dirty |-> dirty],
              execution, stored, "repo"),
            tree, measured)
<1> DEFINE a1 == ArtifactOf("v1", ran, status["v1"], revision, hash)
           a2 == ArtifactOf("v2", ran, status["v2"], revision, hash)
           artifacts == <<InventoryArtifact, a1, a2>>
           files == WorkingTree(listed)
           checkout == [revision |-> revision, dirty |-> dirty]
           composite == A!compose_composite_snapshot(artifacts, files, <<tree>>, checkout,
                                                     execution, stored, "repo")
           path == A!inventory_path(artifacts)
           inventory == A!parse_inventory(files[path].doc)
           coverage == {i \in DOMAIN artifacts :
                          A!composite_descriptor_from_artifact(artifacts[i]).role = "coverage"}
           inputs == [i \in coverage |-> A!component_input(artifacts[i])]
           found == IF path \in DOMAIN files THEN files[path].hash ELSE Absent
           baseline == A!composite_baseline_for_run(execution, stored, "repo", found)
           used == IF baseline = Absent THEN inputs
                   ELSE A!reuse_stale_composite_inputs(inputs, baseline, stored[baseline])
<1>1. coverage = {2, 3}
  <2>1. DOMAIN artifacts = {1, 2, 3}
    OBVIOUS
  <2>2. "v1" \in Variants /\ "v2" \in Variants
    BY DEF Variants
  <2>3. A!composite_descriptor_from_artifact(artifacts[1]).role = "inventory"
    BY <2>2, TheDescriptors DEF A!composite_descriptor_from_artifact, InventoryArtifact
  <2>4. /\ A!composite_descriptor_from_artifact(artifacts[2]).role = "coverage"
        /\ A!composite_descriptor_from_artifact(artifacts[3]).role = "coverage"
    BY <2>2, TheDescriptors DEF A!composite_descriptor_from_artifact, ArtifactOf
  <2> HIDE DEF artifacts
  <2> QED
    BY <2>1, <2>3, <2>4
<1>2. \A n \in coverage : \E v \in Variants : Supplied(inputs[n], v, {tree}, measured)
  <2>1. inputs[2] = A!component_input(a1) /\ inputs[3] = A!component_input(a2)
    BY <1>1
  <2>2. "v1" \in Variants /\ "v2" \in Variants
    BY DEF Variants
  <2>3. Supplied(A!component_input(a1), "v1", {tree}, measured)
    BY <2>2, TheInputs
  <2>4. Supplied(A!component_input(a2), "v2", {tree}, measured)
    BY <2>2, TheInputs
  <2> HIDE DEF inputs, a1, a2
  <2> QED
    BY <1>1, <2>1, <2>2, <2>3, <2>4
<1>3. DOMAIN inputs = coverage
  OBVIOUS
<1>4. /\ composite.inventory_hash = found /\ composite.dirty = dirty
      /\ composite.build =
           IF path \notin DOMAIN files THEN A!incomplete_build("inventory is missing")
           ELSE IF inventory = Bad THEN A!incomplete_build("invalid composite inventory")
           ELSE A!assemble(inventory, used, <<tree>>, revision, dirty)
  <2>1. artifacts # <<>>
    OBVIOUS
  <2> HIDE DEF artifacts, files
  <2> QED
    BY <2>1 DEF A!compose_composite_snapshot
<1> HIDE DEF inputs, coverage, composite, artifacts, path
<1>5. ASSUME NEW why, composite.build = A!incomplete_build(why)
      PROVE CompositeIsMeasured(composite, tree, measured)
  <2>1. composite.build.rows = <<>> /\ ~composite.build.complete
    BY <1>5 DEF A!incomplete_build
  <2>2. DOMAIN composite.build.rows = {}
    BY <2>1
  <2> QED
    BY <2>1, <2>2 DEF CompositeIsMeasured
<1>6. ASSUME path \in DOMAIN files, inventory # Bad
      PROVE CompositeIsMeasured(composite, tree, measured)
  <2>1. found = listed /\ inventory = A!parse_inventory(InventoryDoc(listed))
    BY <1>6 DEF WorkingTree
  <2>2. baseline # Absent =>
          baseline \in DOMAIN stored /\ stored[baseline].inventory_hash = listed
    <3> HIDE DEF found
    <3> QED
      BY <2>1 DEF A!composite_baseline_for_run
  <2> HIDE DEF baseline, found
  <2>3. DOMAIN used = coverage
    BY <1>3 DEF A!reuse_stale_composite_inputs
  <2>4. ASSUME NEW n \in coverage
        PROVE \E v \in Variants : Supplied(used[n], v, {tree, listed.bytes}, measured)
    <3>1. PICK v \in Variants : Supplied(inputs[n], v, {tree}, measured)
      BY <1>2
    <3>2. CASE baseline = Absent
      <4>1. used = inputs
        BY <3>2
      <4> HIDE DEF used
      <4>2. Supplied(used[n], v, {tree, listed.bytes}, measured)
        BY <3>1, <4>1 DEF Supplied, Backed
      <4> QED
        BY <4>2
    <3>3. CASE baseline # Absent
      <4>1. used = A!reuse_stale_composite_inputs(inputs, baseline, stored[baseline])
        BY <3>3
      <4>2. CompositeIsMeasured(stored[baseline], trees[baseline], measured)
        BY <2>2, <3>3
      <4>3. n \in DOMAIN inputs
        BY <1>3
      <4> HIDE DEF used
      <4>4. Supplied(used[n], v, {tree} \cup {stored[baseline].inventory_hash.bytes}, measured)
        BY <3>1, <4>1, <4>2, <4>3, TheReuse
      <4>5. {tree} \cup {stored[baseline].inventory_hash.bytes} = {tree, listed.bytes}
        BY <2>2, <3>3
      <4> QED
        BY <4>4, <4>5
    <3> QED
      BY <3>2, <3>3
  <2>5. DOMAIN used \in SUBSET Int /\ IsFiniteSet(DOMAIN used)
    <3>1. IsFiniteSet({2, 3})
      <4>1. IsFiniteSet({2} \cup {3})
        BY FS_AddElement, FS_Singleton
      <4>2. {2} \cup {3} = {2, 3}
        OBVIOUS
      <4> QED
        BY <4>1, <4>2
    <3> HIDE DEF used
    <3> QED
      BY <1>1, <2>3, <3>1
  <2>6. composite.build = A!assemble(inventory, used, <<tree>>, revision, dirty)
    BY <1>4, <1>6
  <2> HIDE DEF used, inventory
  <2> QED
    BY <1>4, <1>6, <2>1, <2>3, <2>4, <2>5, <2>6, AssembledIsMeasured
<1> QED
  BY <1>4, <1>5, <1>6 DEF composite, artifacts

-----------------------------------------------------------------------------
(* The invariant *)

\* What was measured stays measured.
LEMMA MeasuredStays ==
    ASSUME NEW composite, NEW tree, NEW before, NEW after, before \subseteq after,
           CompositeIsMeasured(composite, tree, before)
    PROVE CompositeIsMeasured(composite, tree, after)
BY DEF CompositeIsMeasured, RowIsMeasured

\* The actions that do not work on a project.
OtherActions ==
    \/ StartHistory \/ Measure \/ StartCompare \/ LoadCurrent
    \/ StartSource \/ EditSource \/ StartLogs \/ Write \/ StartModules
    \/ StartReads \/ AskRange \/ StartTests
    \/ StartPages \/ Fetch \/ Insert \/ Withdraw
    \/ StartGroups \/ FetchGroups \/ StartGaps \/ FetchGaps
    \/ StartReport \/ ReadEntry \/ StartGain \/ AddBatch \/ StartUnion \/ AddRun

\* No other case becomes a project.
LEMMA OtherActionsStay ==
    ASSUME "kind" \in DOMAIN case, OtherActions
    PROVE "kind" \in DOMAIN case' /\ case'.kind # "project"
<1>1. CASE StartHistory
  BY <1>1 DEF StartHistory
<1>2. CASE Measure
  BY <1>2 DEF Measure
<1>3. CASE StartCompare
  BY <1>3 DEF StartCompare
<1>4. CASE LoadCurrent
  BY <1>4 DEF LoadCurrent
<1>5. CASE StartSource
  BY <1>5 DEF StartSource
<1>6. CASE EditSource
  BY <1>6 DEF EditSource
<1>7. CASE StartLogs
  BY <1>7 DEF StartLogs
<1>8. CASE Write
  BY <1>8 DEF Write
<1>9. CASE StartModules
  BY <1>9 DEF StartModules
<1>10. CASE StartReads
  BY <1>10 DEF StartReads
<1>11. CASE AskRange
  BY <1>11 DEF AskRange
<1>12. CASE StartTests
  BY <1>12 DEF StartTests
<1>13. CASE StartPages
  BY <1>13 DEF StartPages
<1>14. CASE Fetch
  BY <1>14 DEF Fetch
<1>15. CASE Insert
  BY <1>15 DEF Insert
<1>16. CASE Withdraw
  BY <1>16 DEF Withdraw
<1>17. CASE StartGroups
  BY <1>17 DEF StartGroups
<1>18. CASE FetchGroups
  BY <1>18 DEF FetchGroups
<1>19. CASE StartGaps
  BY <1>19 DEF StartGaps
<1>20. CASE FetchGaps
  BY <1>20 DEF FetchGaps
<1>21. CASE StartReport
  BY <1>21 DEF StartReport
<1>22. CASE ReadEntry
  BY <1>22 DEF ReadEntry
<1>23. CASE StartGain
  BY <1>23 DEF StartGain
<1>24. CASE AddBatch
  BY <1>24 DEF AddBatch
<1>25. CASE StartUnion
  BY <1>25 DEF StartUnion
<1>26. CASE AddRun
  BY <1>26 DEF AddRun
<1> QED
  BY <1>1, <1>2, <1>3, <1>4, <1>5, <1>6, <1>7, <1>8, <1>9, <1>10, <1>11, <1>12, <1>13, <1>14,
     <1>15, <1>16, <1>17, <1>18, <1>19, <1>20, <1>21, <1>22, <1>23, <1>24, <1>25, <1>26
  DEF OtherActions

\* A project starts without a composite.
LEMMA ProjectStarts ==
    ASSUME StartProject PROVE CompositeInv'
<1>1. /\ case'.stored = <<>> /\ case'.trees = <<>> /\ case'.dirty = FALSE
      /\ DOMAIN case' = ProjectFields
  BY DEF StartProject, ProjectFields
<1>2. (\E S : case'.stored \in Seq(S)) /\ (\E S : case'.trees \in Seq(S))
  <2>1. <<>> \in Seq({})
    OBVIOUS
  <2> QED
    BY <1>1, <2>1
<1>3. Len(case'.stored) = 0 /\ Len(case'.trees) = 0
  BY <1>1
<1>4. "kind" \in DOMAIN case'
  BY <1>1 DEF ProjectFields
<1>5. ProjectInv'
  <2>1. 1..Len(case'.stored) = {}
    BY <1>3
  <2>2. ProjectFields \subseteq DOMAIN case' /\ case'.dirty \in BOOLEAN
    BY <1>1
  <2> QED
    BY <1>2, <1>3, <2>1, <2>2 DEF ProjectInv
<1> QED
  BY <1>4, <1>5 DEF CompositeInv

\* An edit leaves what was measured and stored.
LEMMA ProjectIsEdited ==
    ASSUME CompositeInv, Develop PROVE CompositeInv'
<1>1. case.kind = "project" /\ ProjectInv
  BY DEF CompositeInv, Develop
<1>2. /\ case'.kind = "project" /\ DOMAIN case' = DOMAIN case /\ case'.dirty \in BOOLEAN
      /\ case'.stored = case.stored /\ case'.trees = case.trees
      /\ case'.measured = case.measured
  BY <1>1 DEF Develop, ProjectInv, ProjectFields
<1> QED
  BY <1>1, <1>2 DEF CompositeInv, ProjectInv, ProjectFields

\* Compose appends a composite that is measured.
LEMMA ProjectIsComposed ==
    ASSUME CompositeInv, Compose PROVE CompositeInv'
<1>1. case.kind = "project" /\ ProjectInv
  BY DEF CompositeInv, Compose
<1> DEFINE state(ran, v) == IF v \in DOMAIN ran THEN "ingested"
                            ELSE IF v \in case.produced THEN "skipped_stale" ELSE "missing"
           composed(ran, hash, mode) ==
             A!compose_composite_snapshot(
               <<InventoryArtifact,
                 ArtifactOf("v1", ran, state(ran, "v1"), case.revision, hash),
                 ArtifactOf("v2", ran, state(ran, "v2"), case.revision, hash)>>,
               WorkingTree(case.inventory), <<case.bytes>>,
               [revision |-> case.revision, dirty |-> case.dirty],
               [mode |-> mode, baseline |-> Len(case.stored)], case.stored, "repo")
           known(ran) == case.measured \cup
             UNION {{<<v, n, ran[v][n], case.bytes>> : n \in DOMAIN ran[v]} : v \in DOMAIN ran}
<1>2. PICK ran \in UNION {[vs -> Outcomes] : vs \in SUBSET Variants},
           hash \in {Absent, case.bytes}, mode \in {"full", "incremental"} :
        case' = [case EXCEPT !.produced = @ \cup DOMAIN ran, !.measured = known(ran),
                             !.stored = Append(@, composed(ran, hash, mode)),
                             !.trees = Append(@, case.bytes)]
  BY Zenon DEF Compose, InventoryArtifact, ArtifactOf, WorkingTree
<1> DEFINE composite == composed(ran, hash, mode)
           measured == known(ran)
<1>3. /\ case.measured \subseteq measured
      /\ \A v \in DOMAIN ran : /\ ran[v] \in Outcomes
                               /\ \A n \in DOMAIN ran[v] : <<v, n, ran[v][n], case.bytes>> \in measured
  OBVIOUS
<1> HIDE DEF known
<1>4. \A i \in DOMAIN case.stored : CompositeIsMeasured(case.stored[i], case.trees[i], measured)
  <2>1. DOMAIN case.stored = 1..Len(case.stored)
    BY <1>1 DEF ProjectInv
  <2> QED
    BY <1>1, <1>3, <2>1, MeasuredStays DEF ProjectInv
<1>5. CompositeIsMeasured(composite, case.bytes, measured)
  <2> DEFINE status == [v \in Variants |-> state(ran, v)]
  <2>1. \A v \in Variants : status[v] = "ingested" =>
          /\ v \in DOMAIN ran /\ ran[v] \in Outcomes
          /\ \A n \in DOMAIN ran[v] : <<v, n, ran[v][n], case.bytes>> \in measured
    BY <1>3
  <2>2. case.dirty \in BOOLEAN
    BY <1>1 DEF ProjectInv
  <2>3. status["v1"] = state(ran, "v1") /\ status["v2"] = state(ran, "v2")
    BY DEF Variants
  <2> HIDE DEF status, state, measured
  <2>4. CompositeIsMeasured(
          A!compose_composite_snapshot(
            <<InventoryArtifact,
              ArtifactOf("v1", ran, status["v1"], case.revision, hash),
              ArtifactOf("v2", ran, status["v2"], case.revision, hash)>>,
            WorkingTree(case.inventory), <<case.bytes>>,
            [revision |-> case.revision, dirty |-> case.dirty],
            [mode |-> mode, baseline |-> Len(case.stored)], case.stored, "repo"),
          case.bytes, measured)
    BY <1>4, <2>1, <2>2, ComposedIsMeasured
  <2> QED
    BY <2>3, <2>4
<1> HIDE DEF composed, composite
<1>6. /\ case'.kind = "project" /\ DOMAIN case' = DOMAIN case /\ case'.dirty = case.dirty
      /\ case'.stored = Append(case.stored, composite)
      /\ case'.trees = Append(case.trees, case.bytes) /\ case'.measured = measured
  BY <1>1, <1>2 DEF ProjectInv, ProjectFields, composite
<1> HIDE DEF measured
<1>7. PICK S : case.stored \in Seq(S)
  BY <1>1 DEF ProjectInv
<1>8. PICK T : case.trees \in Seq(T)
  BY <1>1 DEF ProjectInv
<1>9. /\ case'.stored \in Seq(S \cup {composite}) /\ case'.trees \in Seq(T \cup {case.bytes})
      /\ Len(case'.stored) = Len(case.stored) + 1 /\ Len(case'.trees) = Len(case.trees) + 1
      /\ \A i \in 1..Len(case.stored) : case'.stored[i] = case.stored[i]
      /\ case'.stored[Len(case.stored) + 1] = composite
      /\ \A i \in 1..Len(case.trees) : case'.trees[i] = case.trees[i]
      /\ case'.trees[Len(case.trees) + 1] = case.bytes
  BY <1>6, <1>7, <1>8
<1>10. Len(case.stored) = Len(case.trees) /\ Len(case.stored) \in Nat
  BY <1>1, <1>7 DEF ProjectInv
<1>11. ASSUME NEW i \in 1..Len(case'.stored)
       PROVE CompositeIsMeasured(case'.stored[i], case'.trees[i], case'.measured)
  <2>1. CASE i \in 1..Len(case.stored)
    <3>1. CompositeIsMeasured(case.stored[i], case.trees[i], measured)
      BY <1>4, <1>7, <2>1
    <3> QED
      BY <1>6, <1>9, <1>10, <2>1, <3>1
  <2>2. CASE i = Len(case.stored) + 1
    BY <1>5, <1>6, <1>9, <1>10, <2>2
  <2> QED
    BY <1>9, <1>10, <2>1, <2>2
<1>12. (\E X : case'.stored \in Seq(X)) /\ (\E X : case'.trees \in Seq(X))
  BY <1>9
<1> QED
  BY <1>1, <1>6, <1>9, <1>10, <1>11, <1>12 DEF CompositeInv, ProjectInv, ProjectFields

\* CompositeInv holds in every reachable state.
LEMMA CompositesStayMeasured == Spec => []CompositeInv
<1>1. Init => CompositeInv
  BY DEF Init, CompositeInv
<1>2. CompositeInv /\ [Next]_case => CompositeInv'
  <2> SUFFICES ASSUME CompositeInv, [Next]_case PROVE CompositeInv'
    OBVIOUS
  <2>1. CASE OtherActions
    BY <2>1, OtherActionsStay DEF CompositeInv
  <2>2. CASE StartProject
    BY <2>2, ProjectStarts
  <2>3. CASE Develop
    BY <2>3, ProjectIsEdited
  <2>4. CASE Compose
    BY <2>4, ProjectIsComposed
  <2>5. CASE UNCHANGED case
    BY <2>5 DEF CompositeInv, ProjectInv
  <2> QED
    BY <2>1, <2>2, <2>3, <2>4, <2>5 DEF Next, OtherActions
<1> QED
  BY <1>1, <1>2, PTL DEF Spec

\* A region that a stored composite calls covered was measured as covered, in
\* that variant and on the bytes the source had when the composite was made,
\* by its own run or through any chain of composites whose evidence was
\* reused; a complete composite covers every region so (compose and reuse of
\* src/storage.rs, assemble of src/composite.rs).
THEOREM CompositesAreSound == Spec => []CompositeIsSound
<1>1. CompositeInv => CompositeIsSound
  <2> SUFFICES ASSUME CompositeInv, case.kind = "project", NEW i \in DOMAIN case.stored
               PROVE LET build == case.stored[i].build
                         covers(v, row) ==
                           <<v, row.region.start_line, TRUE, case.trees[i]>> \in case.measured
                     IN /\ \A row \in Range(build.rows) : \A v \in Variants :
                             row.variants[v].state = "covered" => covers(v, row)
                        /\ build.complete => /\ ~case.stored[i].dirty
                                             /\ \A row \in Range(build.rows) :
                                                  \E v \in Variants : covers(v, row)
    BY DEF CompositeIsSound
  <2>1. CompositeIsMeasured(case.stored[i], case.trees[i], case.measured)
    BY DEF CompositeInv, ProjectInv
  <2> QED
    BY <2>1 DEF CompositeIsMeasured, RowIsMeasured, Range
<1> QED
  BY <1>1, CompositesStayMeasured, PTL
=============================================================================
