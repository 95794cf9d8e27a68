----------------------------- MODULE PagesProofs ------------------------------
(***************************************************************************)
(* What a client has received that follows the pages of a list, of groups  *)
(* of duplicate tests or of gaps: everything once and in order.            *)
(***************************************************************************)
EXTENDS AlgorithmsProofs

-----------------------------------------------------------------------------
(* Groups in order *)

\* The modules sort alike.
LEMMA SameOrders ==
    /\ \A S, key : D!InOrder(S, key) = InOrder(S, key)
    /\ \A S, key : Q!InOrder(S, key) = InOrder(S, key)
  BY DEF D!InOrder, Q!InOrder, InOrder, D!Cardinality, Q!Cardinality, Cardinality,
         D!Less, Q!Less, Less

\* The tests that observed the same as test k.
Twins(sets, k) == {m \in DOMAIN sets : sets[m] = sets[k]}

\* duplicate_coverage_groups_sql of src/storage.rs: two tests are in a group
\* together exactly when their observations are the same, each group is there
\* once, and the largest come first.
THEOREM DuplicatesAreGrouped ==
    ASSUME NEW n \in Nat, NEW T, NEW sets \in [1..n -> T]
    PROVE LET all == D!duplicate_groups(sets)
          IN /\ all \in Seq(SUBSET (1..n)) /\ Len(all) <= n
             /\ \A i \in DOMAIN all : /\ Cardinality(all[i]) > 1
                                      /\ \E k \in all[i] : all[i] = Twins(sets, k)
             /\ \A k, m \in 1..n : k # m /\ sets[k] = sets[m] =>
                  \E i \in DOMAIN all : {k, m} \subseteq all[i]
             /\ \A i, j \in DOMAIN all :
                  i < j => all[i] # all[j] /\ Cardinality(all[i]) >= Cardinality(all[j])
<1> DEFINE twins == [k \in 1..n |-> Twins(sets, k)]
           image == {twins[k] : k \in 1..n}
           groups == {g \in image : Cardinality(g) > 1}
           key == [g \in groups |-> <<-Cardinality(g), Min(g)>>]
           all == D!duplicate_groups(sets)
<1>1. IsFiniteSet(1..n) /\ Cardinality(1..n) = n
  BY PositionCount
<1>2. /\ D!duplicate_groups(sets) = InOrder(groups, key)
  <2>1. \A S : D!Cardinality(S) = Cardinality(S)
    BY DEF D!Cardinality, Cardinality
  <2>2. \A S : D!Min(S) = Min(S)
    BY DEF D!Min, Min
  <2>3. {g \in {{m \in DOMAIN sets : sets[m] = sets[k]} : k \in DOMAIN sets} :
           D!Cardinality(g) > 1} = groups
    BY <2>1 DEF Twins
  <2> DEFINE S == {g \in {{m \in DOMAIN sets : sets[m] = sets[k]} : k \in DOMAIN sets} :
                     D!Cardinality(g) > 1}
  <2>4. D!duplicate_groups(sets) = D!InOrder(S, [g \in S |-> <<-D!Cardinality(g), D!Min(g)>>])
    BY DEF D!duplicate_groups
  <2>5. S = groups
    BY <2>3
  <2> HIDE DEF S, groups
  <2>6. [g \in S |-> <<-D!Cardinality(g), D!Min(g)>>] = key
    BY <2>1, <2>2, <2>5
  <2> HIDE DEF key
  <2> QED
    BY <2>4, <2>5, <2>6, SameOrders
<1>3. ASSUME NEW k \in 1..n
      PROVE twins[k] = Twins(sets, k) /\ k \in twins[k] /\ twins[k] \in SUBSET (1..n)
  BY DEF Twins
<1>4. image \in SUBSET (SUBSET (1..n)) /\ IsFiniteSet(image) /\ Cardinality(image) <= n
  <2>1. twins \in Surjection(1..n, image)
    BY DEF Surjection
  <2>2. image \in SUBSET (SUBSET (1..n))
    BY <1>3
  <2> HIDE DEF twins, image
  <2> QED
    BY <1>1, <2>1, <2>2, FS_Surjection
<1>5. groups \in SUBSET image
  OBVIOUS
<1> HIDE DEF all
<1>6. IsFiniteSet(groups) /\ Cardinality(groups) <= n
  <2> HIDE DEF groups, image
  <2>1. IsFiniteSet(groups) /\ Cardinality(groups) <= Cardinality(image)
    BY <1>4, <1>5, FS_Subset
  <2>2. Cardinality(groups) \in Nat /\ Cardinality(image) \in Nat
    BY <1>4, <2>1, FS_CardinalityType
  <2> QED
    BY <1>4, <2>1, <2>2
<1>7. ASSUME NEW g \in groups
      PROVE /\ \E k \in 1..n : g = twins[k] /\ k \in g
            /\ g \in SUBSET (1..n) /\ Cardinality(g) \in Nat /\ Cardinality(g) > 1
            /\ Min(g) \in g
  <2>1. PICK k \in 1..n : g = twins[k]
    OBVIOUS
  <2>2. k \in g /\ g \in SUBSET (1..n)
    BY <1>3, <2>1
  <2>3. Cardinality(g) > 1
    OBVIOUS
  <2>4. IsFiniteSet(g) /\ Cardinality(g) \in Nat
    BY <1>1, <2>2, FS_Subset, FS_CardinalityType
  <2>5. g \in SUBSET Nat /\ g # {}
    BY <2>2
  <2>6. \E x \in g : \A y \in g : x <= y
    BY <2>5, LeastNumber
  <2>7. Min(g) \in g
    BY <2>6 DEF Min
  <2> QED
    BY <2>1, <2>2, <2>3, <2>4, <2>7
<1>8. ASSUME NEW g \in groups, NEW h \in groups, NEW x, x \in g, x \in h PROVE g = h
  <2>1. PICK k \in 1..n : g = twins[k]
    BY <1>7
  <2>2. PICK m \in 1..n : h = twins[m]
    BY <1>7
  <2>3. sets[x] = sets[k] /\ sets[x] = sets[m]
    BY <1>8, <2>1, <2>2 DEF Twins
  <2> QED
    BY <2>1, <2>2, <2>3 DEF Twins
<1>9. key \in [groups -> [1..2 -> Int]] /\ \A g, h \in groups : key[g] = key[h] => g = h
  <2>1. ASSUME NEW g \in groups
        PROVE <<-Cardinality(g), Min(g)>> \in [1..2 -> Int]
    <3>1. -Cardinality(g) \in Int /\ Min(g) \in Int
      BY <1>7
    <3> QED
      BY <3>1
  <2>2. ASSUME NEW g \in groups, NEW h \in groups, key[g] = key[h] PROVE g = h
    <3>1. Min(g) = Min(h)
      <4> HIDE DEF groups
      <4> QED
        BY <2>2
    <3>2. Min(g) \in g /\ Min(h) \in h
      BY <1>7
    <3> QED
      BY <1>8, <3>1, <3>2
  <2> HIDE DEF groups
  <2> QED
    BY <2>1, <2>2
<1>10. \A g \in groups : key[g] = <<-Cardinality(g), Min(g)>>
  OBVIOUS
<1> HIDE DEF key, groups
<1>11. SortedBy(groups, key, all)
  <2>1. 2 \in Nat
    OBVIOUS
  <2>2. SortedBy(groups, key, InOrder(groups, key))
    BY <1>6, <1>9, <2>1, EverythingInOrder
  <2> QED
    BY <1>2, <2>2 DEF all
<1>12. all \in Seq(groups) /\ Len(all) <= n /\ \A i \in DOMAIN all : all[i] \in groups
  BY <1>6, <1>11 DEF SortedBy
<1>13. all \in Seq(SUBSET (1..n))
  <2>1. all \in [1..Len(all) -> groups] /\ Len(all) \in Nat
    BY <1>12
  <2>2. all \in [1..Len(all) -> SUBSET (1..n)]
    BY <1>7, <2>1
  <2> QED
    BY <2>1, <2>2
<1>14. ASSUME NEW i \in DOMAIN all
       PROVE Cardinality(all[i]) > 1 /\ \E k \in all[i] : all[i] = Twins(sets, k)
  <2> HIDE DEF twins
  <2> QED
    BY <1>3, <1>7, <1>12
<1>15. ASSUME NEW k \in 1..n, NEW m \in 1..n, k # m, sets[k] = sets[m]
       PROVE \E i \in DOMAIN all : {k, m} \subseteq all[i]
  <2>1. k \in twins[k] /\ m \in twins[k] /\ twins[k] \in SUBSET (1..n) /\ twins[k] \in image
    BY <1>15 DEF Twins
  <2> HIDE DEF twins, image
  <2>2. IsFiniteSet(twins[k]) /\ Cardinality(twins[k]) \in Nat
    BY <1>1, <2>1, FS_Subset, FS_CardinalityType
  <2>3. Cardinality(twins[k]) # 0 /\ Cardinality(twins[k]) # 1
    <3>1. twins[k] # {} /\ ~\E x : twins[k] = {x}
      BY <1>15, <2>1
    <3> QED
      BY <2>2, <3>1, FS_EmptySet, FS_Singleton
  <2>4. twins[k] \in groups
    BY <2>1, <2>2, <2>3 DEF groups
  <2>5. PICK i \in DOMAIN all : all[i] = twins[k]
    BY <1>11, <2>4 DEF SortedBy
  <2> QED
    BY <2>1, <2>5
<1>16. ASSUME NEW i \in DOMAIN all, NEW j \in DOMAIN all, i < j
       PROVE all[i] # all[j] /\ Cardinality(all[i]) >= Cardinality(all[j])
  <2>1. all[i] \in groups /\ all[j] \in groups /\ Less(key[all[i]], key[all[j]])
    BY <1>11, <1>12, <1>16 DEF SortedBy
  <2>2. all[i] # all[j]
    <3>1. key[all[i]] \in [1..2 -> Int] /\ 2 \in Nat
      BY <1>9, <2>1
    <3>2. ~Less(key[all[i]], key[all[i]])
      BY <3>1, LessOrders
    <3> QED
      BY <2>1, <3>2
  <2> DEFINE low == Cardinality(all[i])
             high == Cardinality(all[j])
  <2>3. low \in Nat /\ high \in Nat
    BY <1>7, <2>1
  <2>4. key[all[i]] = <<-low, Min(all[i])>> /\ key[all[j]] = <<-high, Min(all[j])>>
    BY <1>10, <2>1
  <2> HIDE DEF low, high
  <2>5. PICK p \in 1..2 : /\ <<-low, Min(all[i])>>[p] < <<-high, Min(all[j])>>[p]
                          /\ \A q \in 1..(p - 1) : <<-low, Min(all[i])>>[q] = <<-high, Min(all[j])>>[q]
    BY <2>1, <2>4 DEF Less
  <2>8. low >= high
    <3>1. CASE p = 1
      <4>1. -low < -high
        BY <2>5, <3>1
      <4> QED
        BY <2>3, <4>1
    <3>2. CASE p = 2
      <4>1. 1 \in 1..(p - 1)
        BY <3>2
      <4>2. -low = -high
        BY <2>5, <4>1
      <4> QED
        BY <2>3, <4>2
    <3> QED
      BY <3>1, <3>2
  <2> QED
    BY <2>2, <2>8 DEF low, high
<1> QED
  BY <1>12, <1>13, <1>14, <1>15, <1>16 DEF all

\* The place of a row: its function, or its line outside functions.
Place(r) == <<r.path, r.symbol, IF r.symbol = 0 THEN r.span[1] ELSE 0>>

\* The rows of a place.
GapsAt(rows, g) == {r \in rows : Place(r) = g}

\* Finitely many rows have finitely many spans.
LEMMA FiniteSpans == ASSUME NEW S, IsFiniteSet(S) PROVE IsFiniteSet({r.span : r \in S})
<1> DEFINE span == [r \in S |-> r.span]
           spans == {span[r] : r \in S}
<1>1. spans = {r.span : r \in S}
  OBVIOUS
<1>2. PICK T : span \in [S -> T]
  <2>1. span \in [S -> spans]
    OBVIOUS
  <2> QED
    BY <2>1
<1> HIDE DEF span
<1>3. IsFiniteSet(spans)
  BY <1>2, FiniteImage
<1> QED
  BY <1>1, <1>3

\* group_rows of src/query.rs: every function or line that has gaps is there
\* once, and those with most gaps come first.
THEOREM GapsAreGrouped ==
    ASSUME NEW rows, IsFiniteSet(rows),
           \A r \in rows : r.path \in Int /\ r.symbol \in Int /\ r.span \in [1..2 -> Int]
    PROVE LET all == Q!group_rows(rows)
          IN /\ all \in Seq({Place(r) : r \in rows})
             /\ \A r \in rows : \E i \in DOMAIN all : all[i] = Place(r)
             /\ \A i, j \in DOMAIN all :
                  i < j => /\ all[i] # all[j]
                           /\ Cardinality(GapsAt(rows, all[i])) >= Cardinality(GapsAt(rows, all[j]))
<1> DEFINE place == [r \in rows |-> Place(r)]
           places == {place[r] : r \in rows}
           first(g) == CHOOSE s \in {r.span : r \in GapsAt(rows, g)} :
                         \A r \in GapsAt(rows, g) : s = r.span \/ Less(s, r.span)
           key == [g \in places |-> <<-Cardinality(GapsAt(rows, g)), g[1], first(g)[1], first(g)[2], g[2]>>]
           all == Q!group_rows(rows)
<1>1. places = {Place(r) : r \in rows}
  OBVIOUS
<1>2. all = InOrder(places, key)
  <2>1. \A S : Q!Cardinality(S) = Cardinality(S)
    BY DEF Q!Cardinality, Cardinality
  <2>2. \A u, v : Q!Less(u, v) = Less(u, v)
    BY DEF Q!Less, Less
  <2> DEFINE mine == [g \in places |-> <<-Q!Cardinality(GapsAt(rows, g)), g[1],
                (CHOOSE s \in {r.span : r \in GapsAt(rows, g)} :
                   \A r \in GapsAt(rows, g) : s = r.span \/ Q!Less(s, r.span))[1],
                (CHOOSE s \in {r.span : r \in GapsAt(rows, g)} :
                   \A r \in GapsAt(rows, g) : s = r.span \/ Q!Less(s, r.span))[2], g[2]>>]
  <2>3. all = Q!InOrder({Place(r) : r \in rows}, mine)
    BY <1>1 DEF Q!group_rows, Place, GapsAt
  <2>4. mine = key
    BY DEF Q!Cardinality, Cardinality, Q!Less, Less
  <2> HIDE DEF mine, key, all, places
  <2> QED
    BY <1>1, <2>3, <2>4, SameOrders
<1> HIDE DEF all
<1>3. IsFiniteSet(places)
  <2>1. PICK T : place \in [rows -> T]
    <3>1. place \in [rows -> places]
      OBVIOUS
    <3> QED
      BY <3>1
  <2> HIDE DEF place
  <2> QED
    BY <2>1, FiniteImage
<1>4. ASSUME NEW g \in places
      PROVE \E r \in rows : r \in GapsAt(rows, g) /\ g = Place(r) /\ r.span = first(g)
  <2> DEFINE spans == {r.span : r \in GapsAt(rows, g)}
  <2>1. PICK r \in rows : g = Place(r)
    BY <1>1
  <2>2. r \in GapsAt(rows, g) /\ GapsAt(rows, g) \in SUBSET rows
    BY <2>1 DEF GapsAt
  <2>3. IsFiniteSet(GapsAt(rows, g))
    BY <2>2, FS_Subset
  <2>4. spans # {}
    BY <2>2
  <2>5. spans \in SUBSET [1..2 -> Int]
    BY <2>2
  <2>6. \A x \in GapsAt(rows, g) : x.span \in spans
    OBVIOUS
  <2>7. \A s \in spans : \E x \in GapsAt(rows, g) : x.span = s
    OBVIOUS
  <2>8. IsFiniteSet(spans)
    BY <2>3, FiniteSpans
  <2>12. first(g) = CHOOSE s \in spans : \A x \in GapsAt(rows, g) : s = x.span \/ Less(s, x.span)
    OBVIOUS
  <2> HIDE DEF spans
  <2>9. 2 \in Nat
    OBVIOUS
  <2>10. \E s \in spans : \A t \in spans : s = t \/ Less(s, t)
    BY <2>4, <2>5, <2>8, <2>9, LeastTuple
  <2>11. \E s \in spans : \A x \in GapsAt(rows, g) : s = x.span \/ Less(s, x.span)
    BY <2>6, <2>10
  <2>13. first(g) \in spans
    BY <2>11, <2>12
  <2>14. PICK x \in GapsAt(rows, g) : x.span = first(g)
    BY <2>7, <2>13
  <2> QED
    BY <2>14 DEF GapsAt
<1> DEFINE size(g) == Cardinality(GapsAt(rows, g))
<1>5. ASSUME NEW g \in places
      PROVE /\ size(g) \in Nat /\ g[1] \in Int /\ g[2] \in Int
            /\ first(g)[1] \in Int /\ first(g)[2] \in Int
            /\ g = <<g[1], g[2], IF g[2] = 0 THEN first(g)[1] ELSE 0>>
  <2>1. PICK r \in rows : r \in GapsAt(rows, g) /\ g = Place(r) /\ r.span = first(g)
    BY <1>4
  <2>2. GapsAt(rows, g) \in SUBSET rows
    BY DEF GapsAt
  <2>3. size(g) \in Nat
    BY <2>2, FS_Subset, FS_CardinalityType
  <2>4. g[1] = r.path /\ g[2] = r.symbol /\ g[3] = IF r.symbol = 0 THEN r.span[1] ELSE 0
    BY <2>1 DEF Place
  <2>5. g = <<r.path, r.symbol, IF r.symbol = 0 THEN r.span[1] ELSE 0>>
    BY <2>1 DEF Place
  <2>6. r.span[1] \in Int /\ r.span[2] \in Int /\ r.path \in Int /\ r.symbol \in Int
    OBVIOUS
  <2> HIDE DEF first, size
  <2> QED
    BY <2>1, <2>3, <2>4, <2>5, <2>6
<1>6. \A g \in places : key[g] = <<-size(g), g[1], first(g)[1], first(g)[2], g[2]>>
  OBVIOUS
<1> HIDE DEF first, size
<1>7. key \in [places -> [1..5 -> Int]]
  <2>1. ASSUME NEW g \in places PROVE key[g] \in [1..5 -> Int]
    <3> DEFINE f == first(g)
               z == size(g)
    <3>1. key[g] = <<-z, g[1], f[1], f[2], g[2]>>
      BY <1>6
    <3>2. -z \in Int /\ g[1] \in Int /\ f[1] \in Int /\ f[2] \in Int /\ g[2] \in Int
      BY <1>5
    <3> HIDE DEF f, z, key, places
    <3> QED
      BY <3>1, <3>2
  <2> HIDE DEF places
  <2>2. key = [g \in places |-> key[g]]
    OBVIOUS
  <2> HIDE DEF key
  <2> QED
    BY <2>1, <2>2
<1>8. ASSUME NEW g \in places, NEW h \in places, key[g] = key[h] PROVE g = h
  <2> DEFINE e == first(g)
             f == first(h)
             y == size(g)
             z == size(h)
  <2>1. <<-y, g[1], e[1], e[2], g[2]>> = <<-z, h[1], f[1], f[2], h[2]>>
    BY <1>6, <1>8
  <2>2. /\ g = <<g[1], g[2], IF g[2] = 0 THEN e[1] ELSE 0>>
        /\ h = <<h[1], h[2], IF h[2] = 0 THEN f[1] ELSE 0>>
    BY <1>5
  <2> HIDE DEF e, f, y, z, places
  <2>3. g[1] = h[1] /\ e[1] = f[1] /\ g[2] = h[2]
    BY <2>1
  <2> QED
    BY <2>2, <2>3
<1> HIDE DEF places
<1>9. SortedBy(places, key, all)
  <2>1. 5 \in Nat
    OBVIOUS
  <2> HIDE DEF key
  <2>2. SortedBy(places, key, InOrder(places, key))
    BY <1>3, <1>7, <1>8, <2>1, EverythingInOrder
  <2> QED
    BY <1>2, <2>2
<1>10. all \in Seq(places) /\ \A r \in rows : \E i \in DOMAIN all : all[i] = Place(r)
  BY <1>1, <1>9 DEF SortedBy
<1>11. ASSUME NEW i \in DOMAIN all, NEW j \in DOMAIN all, i < j
       PROVE all[i] # all[j] /\ size(all[i]) >= size(all[j])
  <2>1. all[i] \in places /\ all[j] \in places
    BY <1>10
  <2>2. Less(key[all[i]], key[all[j]])
    BY <1>9, <1>11 DEF SortedBy
  <2>3. key[all[i]] \in [1..5 -> Int] /\ 5 \in Nat
    BY <1>7, <2>1
  <2>4. ~Less(key[all[i]], key[all[i]])
    <3> HIDE DEF key
    <3> QED
      BY <2>3, LessOrders
  <2>5. all[i] # all[j]
    BY <2>2, <2>4
  <2> DEFINE e == first(all[i])
             f == first(all[j])
             y == size(all[i])
             z == size(all[j])
             u == <<-y, all[i][1], e[1], e[2], all[i][2]>>
             v == <<-z, all[j][1], f[1], f[2], all[j][2]>>
  <2>6. key[all[i]] = u /\ key[all[j]] = v
    BY <1>6, <2>1
  <2>7. y \in Nat /\ z \in Nat
    BY <1>5, <2>1
  <2>8. u[1] = -y /\ v[1] = -z /\ DOMAIN u = 1..5
    OBVIOUS
  <2> HIDE DEF e, f, y, z, u, v, key
  <2>9. PICK p \in 1..5 : u[p] < v[p] /\ \A q \in 1..(p - 1) : u[q] = v[q]
    BY <2>2, <2>6, <2>8 DEF Less
  <2>10. u[1] < v[1] \/ u[1] = v[1]
    <3>1. p = 1 \/ 1 \in 1..(p - 1)
      OBVIOUS
    <3> QED
      BY <2>9, <3>1
  <2>11. y >= z
    BY <2>7, <2>8, <2>10
  <2> QED
    BY <2>5, <2>11 DEF y, z
<1> QED
  BY <1>1, <1>10, <1>11 DEF all, size

\* The modules choose alike.
LEMMA LesserOf ==
    ASSUME NEW a \in Int, NEW b \in Int
    PROVE LET least == IF a <= b THEN a ELSE b
          IN Min({a, b}) = least /\ D!Min({a, b}) = least /\ Q!Min({a, b}) = least
<1> DEFINE least == IF a <= b THEN a ELSE b
<1>1. \A x \in {a, b} : (\A y \in {a, b} : x <= y) <=> x = least
  OBVIOUS
<1>2. least \in {a, b}
  OBVIOUS
<1> HIDE DEF least
<1>3. (CHOOSE x \in {a, b} : \A y \in {a, b} : x <= y) = least
  BY <1>1, <1>2
<1> QED
  BY <1>3 DEF Min, D!Min, Q!Min, least

-----------------------------------------------------------------------------
(* Pages *)

\* Items have numbers for their identity and content.
PageItems == [id : Int, content : Int, words : Int]
\* A cursor names the item it follows, which of its equals, and the list.
Cursors == [after : Int, occurrence : Int, scope : {"scope"}]

\* No item is there twice.
Distinct(s) == \A i, j \in DOMAIN s : s[i].id = s[j].id => i = j

\* Position p of the list separates what the client has from what it has yet
\* to see: it has nothing beyond, has everything up to there of what it began
\* with, and what is beyond came after what it has.
Cut(start, got, list, p) ==
    /\ \A i \in DOMAIN got, m \in DOMAIN list : got[i].id = list[m].id => m <= p
    /\ \A a \in DOMAIN start, m \in DOMAIN list :
         m <= p /\ start[a].id = list[m].id => start[a].id \in Ids(got)
    /\ \A a, b \in DOMAIN start, m \in DOMAIN list :
         start[a].id \in Ids(got) /\ start[b].id = list[m].id /\ p < m => a < b

\* Position p is the one that the cursor names.
Named(list, cursor, p) ==
    /\ list[p].content = cursor.after
    /\ V!SameAnchor(list, cursor.after, p) = cursor.occurrence

\* What the client has and what there is are in the same order, nothing twice.
Ordered(start, got, list) ==
    /\ Distinct(start) /\ Distinct(got) /\ Distinct(list)
    /\ Follows(got, start) /\ Follows(got, list) /\ Follows(list, start)

\* The items up to p that are anchored at a, and their number.
AnchoredAt(s, a, p) == {k \in 1..p : s[k].content = a}

\* SameAnchor counts the items up to p that the cursor could mean.
LEMMA AnchorCount ==
    ASSUME NEW S, NEW s \in Seq(S), NEW a, NEW p \in Nat
    PROVE /\ V!SameAnchor(s, a, p) = Cardinality(AnchoredAt(s, a, p))
          /\ IsFiniteSet(AnchoredAt(s, a, p))
<1>1. IsFiniteSet(1..p)
  BY PositionCount
<1>2. IsFiniteSet(AnchoredAt(s, a, p))
  BY <1>1, FS_Subset DEF AnchoredAt
<1>3. V!SameAnchor(s, a, p) = V!Cardinality(AnchoredAt(s, a, p))
  BY DEF V!SameAnchor, V!cursor_anchor, AnchoredAt
<1> QED
  BY <1>2, <1>3 DEF V!Cardinality, Cardinality

\* A cursor names one position at most: its equals before it are counted.
LEMMA NamedOnce ==
    ASSUME NEW S, NEW s \in Seq(S), NEW cursor, NEW p \in DOMAIN s, NEW q \in DOMAIN s,
           Named(s, cursor, p), Named(s, cursor, q)
    PROVE p = q
<1>1. SUFFICES ASSUME NEW m \in DOMAIN s, NEW n \in DOMAIN s, m < n,
                      Named(s, cursor, m), Named(s, cursor, n)
               PROVE FALSE
  <2>1. p < q \/ q < p \/ p = q
    OBVIOUS
  <2> QED
    BY <1>1, <2>1
<1> DEFINE a == cursor.after
           low == AnchoredAt(s, a, m)
           high == AnchoredAt(s, a, n)
<1>2. m \in Nat /\ n \in Nat
  OBVIOUS
<1>3. /\ Cardinality(low) = cursor.occurrence /\ Cardinality(high) = cursor.occurrence
      /\ IsFiniteSet(high)
  BY <1>1, <1>2, AnchorCount DEF Named
<1>4. low \in SUBSET high /\ n \in high /\ n \notin low
  BY <1>1 DEF AnchoredAt, Named
<1> HIDE DEF low, high
<1>5. Cardinality(high) = Cardinality(low) => high = low
  BY <1>3, <1>4, FS_Subset
<1> QED
  BY <1>3, <1>4, <1>5

\* One item more or less elsewhere does not change the count of an anchor.
LEMMA SameAnchors ==
    ASSUME NEW S, NEW s \in Seq(S), NEW t \in Seq(S), NEW i, OneMore(s, t, i),
           NEW a, t[i].content # a, NEW p \in DOMAIN s
    PROVE V!SameAnchor(s, a, p) = V!SameAnchor(t, a, Shifted(i, p))
<1> DEFINE low == AnchoredAt(s, a, p)
           high == AnchoredAt(t, a, Shifted(i, p))
           f == [k \in low |-> Shifted(i, k)]
<1>1. /\ i \in 1..Len(t) /\ Len(s) \in Nat /\ Len(t) \in Nat /\ Len(t) = Len(s) + 1
      /\ \A m \in DOMAIN s : Shifted(i, m) \in DOMAIN t /\ Shifted(i, m) # i
      /\ \A m, n \in DOMAIN s : (m < n) <=> (Shifted(i, m) < Shifted(i, n))
      /\ \A m, n \in DOMAIN s : (m <= n) <=> (Shifted(i, m) <= Shifted(i, n))
      /\ \A n \in DOMAIN t \ {i} : \E m \in DOMAIN s : n = Shifted(i, m)
  BY ShiftedPositions
<1>2. DOMAIN s = 1..Len(s) /\ DOMAIN t = 1..Len(t)
  OBVIOUS
<1>3. \A m \in DOMAIN s : t[Shifted(i, m)] = s[m]
  BY DEF OneMore
<1>4. f \in [low -> high]
  BY <1>1, <1>2, <1>3 DEF AnchoredAt
<1>5. ASSUME NEW m \in low, NEW n \in low, f[m] = f[n] PROVE m = n
  <2>1. m \in DOMAIN s /\ n \in DOMAIN s /\ Shifted(i, m) = Shifted(i, n)
    BY <1>2, <1>5 DEF AnchoredAt
  <2>2. m \in Int /\ n \in Int /\ Shifted(i, m) \in Int
    BY <1>1, <1>2, <2>1
  <2> QED
    BY <1>1, <2>1, <2>2
<1>6. ASSUME NEW n \in high PROVE \E m \in low : f[m] = n
  <2>1. n \in DOMAIN t \ {i} /\ n <= Shifted(i, p) /\ t[n].content = a
    BY <1>1, <1>2 DEF AnchoredAt
  <2>2. PICK m \in DOMAIN s : n = Shifted(i, m)
    BY <1>1, <2>1
  <2>3. m <= p /\ s[m].content = a
    BY <1>1, <1>3, <2>1, <2>2
  <2>4. m \in low
    BY <1>2, <2>3 DEF AnchoredAt
  <2> QED
    BY <2>2, <2>4
<1>7. p \in Nat /\ Shifted(i, p) \in Nat
  BY <1>1, <1>2
<1>8. IsFiniteSet(low)
  BY <1>7, AnchorCount
<1>9. f \in Bijection(low, high)
  <2> HIDE DEF f, low, high
  <2> QED
    BY <1>4, <1>5, <1>6 DEF Bijection, Injection, Surjection, IsInjective
<1> HIDE DEF f
<1>10. Cardinality(high) = Cardinality(low)
  BY <1>8, <1>9, FS_Bijection DEF ExistsBijection
<1> QED
  BY <1>7, <1>10, AnchorCount

\* Identities of a sequence.
LEMMA IdsOf == \A s, id : id \in Ids(s) <=> \E i \in DOMAIN s : s[i].id = id
  BY DEF Ids

\* A new item leaves the order of what the client has and of what it knew.
LEMMA InsertedElsewhere ==
    ASSUME NEW start \in Seq(PageItems), NEW got \in Seq(PageItems),
           NEW s \in Seq(PageItems), NEW t \in Seq(PageItems), NEW i, OneMore(s, t, i),
           Ordered(start, got, s),
           t[i].id \notin Ids(start) \cup Ids(got) \cup Ids(s)
    PROVE /\ Ordered(start, got, t)
          /\ \A p \in DOMAIN s : Cut(start, got, s, p) => Cut(start, got, t, Shifted(i, p))
<1>1. /\ i \in 1..Len(t) /\ Len(s) \in Nat /\ Len(t) \in Nat /\ Len(t) = Len(s) + 1
      /\ \A m \in DOMAIN s : Shifted(i, m) \in DOMAIN t /\ Shifted(i, m) # i
      /\ \A m, n \in DOMAIN s : (m < n) <=> (Shifted(i, m) < Shifted(i, n))
      /\ \A m, n \in DOMAIN s : (m <= n) <=> (Shifted(i, m) <= Shifted(i, n))
      /\ \A n \in DOMAIN t \ {i} : \E m \in DOMAIN s : n = Shifted(i, m)
  BY ShiftedPositions
<1>2. \A m \in DOMAIN s : t[Shifted(i, m)] = s[m]
  BY DEF OneMore
<1>3. ASSUME NEW id \in Ids(start) \cup Ids(got) \cup Ids(s), NEW n \in DOMAIN t, t[n].id = id
      PROVE \E m \in DOMAIN s : n = Shifted(i, m) /\ s[m].id = id
  <2>1. n # i
    BY <1>3
  <2> QED
    BY <1>1, <1>2, <1>3, <2>1
<1>4. Distinct(t)
  <2> SUFFICES ASSUME NEW m \in DOMAIN t, NEW n \in DOMAIN t, t[m].id = t[n].id PROVE m = n
    BY DEF Distinct
  <2>1. CASE m = i \/ n = i
    <3>1. ASSUME NEW k \in DOMAIN t, k # i PROVE t[k].id # t[i].id
      <4>1. PICK j \in DOMAIN s : k = Shifted(i, j)
        BY <1>1, <3>1
      <4>2. t[k].id = s[j].id /\ s[j].id \in Ids(s)
        BY <1>2, <4>1, IdsOf
      <4> QED
        BY <4>2
    <3> QED
      BY <2>1, <3>1
  <2>2. CASE m # i /\ n # i
    <3>1. PICK j \in DOMAIN s : m = Shifted(i, j)
      BY <1>1, <2>2
    <3>2. PICK k \in DOMAIN s : n = Shifted(i, k)
      BY <1>1, <2>2
    <3>3. s[j].id = s[k].id
      BY <1>2, <3>1, <3>2
    <3> QED
      BY <3>1, <3>2, <3>3 DEF Ordered, Distinct
  <2> QED
    BY <2>1, <2>2
<1>5. Follows(got, t)
  <2> SUFFICES ASSUME NEW j \in DOMAIN got, NEW k \in DOMAIN got, NEW m \in DOMAIN t,
                      NEW n \in DOMAIN t, j < k, got[j].id = t[m].id, got[k].id = t[n].id
               PROVE m < n
    BY DEF Follows
  <2>1. got[j].id \in Ids(got) /\ got[k].id \in Ids(got)
    BY IdsOf
  <2>2. PICK x \in DOMAIN s : m = Shifted(i, x) /\ s[x].id = got[j].id
    BY <1>3, <2>1
  <2>3. PICK y \in DOMAIN s : n = Shifted(i, y) /\ s[y].id = got[k].id
    BY <1>3, <2>1
  <2>4. x < y
    BY <2>2, <2>3 DEF Ordered, Follows
  <2> QED
    BY <1>1, <2>2, <2>3, <2>4
<1>6. Follows(t, start)
  <2> SUFFICES ASSUME NEW j \in DOMAIN t, NEW k \in DOMAIN t, NEW m \in DOMAIN start,
                      NEW n \in DOMAIN start, j < k, t[j].id = start[m].id, t[k].id = start[n].id
               PROVE m < n
    BY DEF Follows
  <2>1. start[m].id \in Ids(start) /\ start[n].id \in Ids(start)
    BY IdsOf
  <2>2. PICK x \in DOMAIN s : j = Shifted(i, x) /\ s[x].id = start[m].id
    BY <1>3, <2>1
  <2>3. PICK y \in DOMAIN s : k = Shifted(i, y) /\ s[y].id = start[n].id
    BY <1>3, <2>1
  <2>4. x < y
    BY <1>1, <2>2, <2>3
  <2> QED
    BY <2>2, <2>3, <2>4 DEF Ordered, Follows
<1>7. ASSUME NEW p \in DOMAIN s, Cut(start, got, s, p) PROVE Cut(start, got, t, Shifted(i, p))
  <2>1. ASSUME NEW j \in DOMAIN got, NEW m \in DOMAIN t, got[j].id = t[m].id
        PROVE m <= Shifted(i, p)
    <3>1. got[j].id \in Ids(got)
      BY IdsOf
    <3>2. PICK x \in DOMAIN s : m = Shifted(i, x) /\ s[x].id = got[j].id
      BY <1>3, <2>1, <3>1
    <3>3. x <= p
      BY <1>7, <3>2 DEF Cut
    <3> QED
      BY <1>1, <3>2, <3>3
  <2>2. ASSUME NEW a \in DOMAIN start, NEW m \in DOMAIN t, m <= Shifted(i, p),
               start[a].id = t[m].id
        PROVE start[a].id \in Ids(got)
    <3>1. start[a].id \in Ids(start)
      BY IdsOf
    <3>2. PICK x \in DOMAIN s : m = Shifted(i, x) /\ s[x].id = start[a].id
      BY <1>3, <2>2, <3>1
    <3>3. x <= p
      BY <1>1, <2>2, <3>2
    <3> QED
      BY <1>7, <3>2, <3>3 DEF Cut
  <2>3. ASSUME NEW a \in DOMAIN start, NEW b \in DOMAIN start, NEW m \in DOMAIN t,
               start[a].id \in Ids(got), start[b].id = t[m].id, Shifted(i, p) < m
        PROVE a < b
    <3>1. start[b].id \in Ids(start)
      BY IdsOf
    <3>2. PICK x \in DOMAIN s : m = Shifted(i, x) /\ s[x].id = start[b].id
      BY <1>3, <2>3, <3>1
    <3>3. p < x
      BY <1>1, <2>3, <3>2
    <3> QED
      BY <1>7, <2>3, <3>2, <3>3 DEF Cut
  <2> QED
    BY <2>1, <2>2, <2>3 DEF Cut
<1> QED
  BY <1>4, <1>5, <1>6, <1>7 DEF Ordered

\* A removed item leaves the order of the others.
LEMMA RemovedElsewhere ==
    ASSUME NEW start \in Seq(PageItems), NEW got \in Seq(PageItems),
           NEW s \in Seq(PageItems), NEW t \in Seq(PageItems), NEW i, OneMore(s, t, i),
           Ordered(start, got, t)
    PROVE /\ Ordered(start, got, s)
          /\ \A p \in DOMAIN s : Cut(start, got, t, Shifted(i, p)) => Cut(start, got, s, p)
<1>1. /\ \A m \in DOMAIN s : Shifted(i, m) \in DOMAIN t
      /\ \A m, n \in DOMAIN s : (m < n) <=> (Shifted(i, m) < Shifted(i, n))
      /\ \A m, n \in DOMAIN s : (m <= n) <=> (Shifted(i, m) <= Shifted(i, n))
      /\ \A m, n \in DOMAIN s : Shifted(i, m) = Shifted(i, n) => m = n
  <2>1. \A m \in DOMAIN s : m \in Int /\ Shifted(i, m) \in Int
    BY ShiftedPositions
  <2> QED
    BY <2>1, ShiftedPositions
<1>2. \A m \in DOMAIN s : t[Shifted(i, m)] = s[m]
  BY DEF OneMore
<1>3. Distinct(s)
  BY <1>1, <1>2 DEF Ordered, Distinct
<1>4. Follows(got, s)
  <2> SUFFICES ASSUME NEW j \in DOMAIN got, NEW k \in DOMAIN got, NEW m \in DOMAIN s,
                      NEW n \in DOMAIN s, j < k, got[j].id = s[m].id, got[k].id = s[n].id
               PROVE m < n
    BY DEF Follows
  <2>1. got[j].id = t[Shifted(i, m)].id /\ got[k].id = t[Shifted(i, n)].id
    BY <1>2
  <2>2. Shifted(i, m) < Shifted(i, n)
    BY <1>1, <2>1 DEF Ordered, Follows
  <2>3. (m < n) <=> (Shifted(i, m) < Shifted(i, n))
    BY <1>1
  <2> QED
    BY <2>2, <2>3
<1>5. Follows(s, start)
  <2> SUFFICES ASSUME NEW j \in DOMAIN s, NEW k \in DOMAIN s, NEW m \in DOMAIN start,
                      NEW n \in DOMAIN start, j < k, s[j].id = start[m].id, s[k].id = start[n].id
               PROVE m < n
    BY DEF Follows
  <2>1. Shifted(i, j) < Shifted(i, k) /\ Shifted(i, j) \in DOMAIN t /\ Shifted(i, k) \in DOMAIN t
    BY <1>1
  <2>2. t[Shifted(i, j)].id = start[m].id /\ t[Shifted(i, k)].id = start[n].id
    BY <1>2
  <2>3. Follows(t, start)
    BY DEF Ordered
  <2> QED
    BY <2>1, <2>2, <2>3 DEF Follows
<1>6. ASSUME NEW p \in DOMAIN s, Cut(start, got, t, Shifted(i, p)) PROVE Cut(start, got, s, p)
  <2>1. ASSUME NEW j \in DOMAIN got, NEW m \in DOMAIN s, got[j].id = s[m].id PROVE m <= p
    BY <1>1, <1>2, <1>6, <2>1 DEF Cut
  <2>2. ASSUME NEW a \in DOMAIN start, NEW m \in DOMAIN s, m <= p, start[a].id = s[m].id
        PROVE start[a].id \in Ids(got)
    BY <1>1, <1>2, <1>6, <2>2 DEF Cut
  <2>3. ASSUME NEW a \in DOMAIN start, NEW b \in DOMAIN start, NEW m \in DOMAIN s,
               start[a].id \in Ids(got), start[b].id = s[m].id, p < m
        PROVE a < b
    BY <1>1, <1>2, <1>6, <2>3 DEF Cut
  <2> QED
    BY <2>1, <2>2, <2>3 DEF Cut
<1> QED
  BY <1>3, <1>4, <1>5, <1>6 DEF Ordered

\* The page after a cut joins what the client has, in order; its end is a cut.
LEMMA PageJoins ==
    ASSUME NEW start \in Seq(PageItems), NEW got \in Seq(PageItems), NEW list \in Seq(PageItems),
           Ordered(start, got, list), NEW p \in Nat, NEW e \in Nat, p <= e, e <= Len(list),
           Cut(start, got, list, p)
    PROVE LET all == got \o SubSeq(list, p + 1, e)
          IN all \in Seq(PageItems) /\ Ordered(start, all, list) /\ Cut(start, all, list, e)
<1> DEFINE items == SubSeq(list, p + 1, e)
           all == got \o items
<1>1. items \in Seq(PageItems) /\ Len(items) = e - p /\ \A i \in 1..(e - p) : items[i] = list[p + i]
  OBVIOUS
<1> HIDE DEF items
<1>2. /\ all \in Seq(PageItems) /\ Len(all) = Len(got) + Len(items)
      /\ \A i \in 1..(Len(got) + Len(items)) :
           all[i] = IF i <= Len(got) THEN got[i] ELSE items[i - Len(got)]
  BY <1>1, ConcatProperties
<1> HIDE DEF all
<1>3. ASSUME NEW i \in DOMAIN all
      PROVE \/ i \in DOMAIN got /\ all[i] = got[i]
            \/ /\ i > Len(got) /\ i - Len(got) + p \in DOMAIN list
               /\ p < i - Len(got) + p /\ i - Len(got) + p <= e
               /\ all[i] = list[i - Len(got) + p]
  <2>1. i \in 1..(Len(got) + Len(items)) /\ Len(got) \in Nat
    BY <1>2
  <2>2. CASE i <= Len(got)
    BY <1>2, <2>1, <2>2
  <2>3. CASE i > Len(got)
    <3>1. i - Len(got) \in 1..(e - p)
      BY <1>1, <2>1, <2>3
    <3>2. all[i] = items[i - Len(got)]
      BY <1>2, <2>1, <2>3
    <3>3. items[i - Len(got)] = list[p + (i - Len(got))]
      BY <1>1, <3>1
    <3>4. p + (i - Len(got)) = i - Len(got) + p
      BY <2>1
    <3> QED
      BY <2>1, <2>3, <3>1, <3>2, <3>3, <3>4
  <2> QED
    BY <2>1, <2>2, <2>3
<1> DEFINE at(i) == i - Len(got) + p
<1>4. Distinct(all)
  <2> SUFFICES ASSUME NEW i \in DOMAIN all, NEW j \in DOMAIN all, all[i].id = all[j].id PROVE i = j
    BY DEF Distinct
  <2>1. i \in Int /\ j \in Int /\ Len(got) \in Nat
    BY <1>2
  <2>2. CASE i \in DOMAIN got /\ all[i] = got[i] /\ j \in DOMAIN got /\ all[j] = got[j]
    BY <2>2 DEF Ordered, Distinct
  <2>3. CASE /\ i > Len(got) /\ at(i) \in DOMAIN list /\ all[i] = list[at(i)]
             /\ j > Len(got) /\ at(j) \in DOMAIN list /\ all[j] = list[at(j)]
    <3>1. at(i) = at(j)
      BY <2>3 DEF Ordered, Distinct
    <3> QED
      BY <2>1, <3>1
  <2>4. ASSUME NEW x \in DOMAIN got, NEW y \in DOMAIN list, got[x].id = list[y].id, p < y
        PROVE FALSE
    BY <2>4 DEF Cut
  <2> QED
    BY <1>3, <2>2, <2>3, <2>4
<1>5. Follows(all, list)
  <2> SUFFICES ASSUME NEW i \in DOMAIN all, NEW j \in DOMAIN all, NEW m \in DOMAIN list,
                      NEW n \in DOMAIN list, i < j, all[i].id = list[m].id, all[j].id = list[n].id
               PROVE m < n
    BY DEF Follows
  <2>1. CASE i \in DOMAIN got /\ all[i] = got[i] /\ j \in DOMAIN got /\ all[j] = got[j]
    BY <2>1 DEF Ordered, Follows
  <2>2. CASE /\ i \in DOMAIN got /\ all[i] = got[i] /\ at(j) \in DOMAIN list
             /\ p < at(j) /\ all[j] = list[at(j)]
    <3>1. m <= p /\ n = at(j)
      BY <2>2 DEF Ordered, Distinct, Cut
    <3> QED
      BY <2>2, <3>1
  <2>3. CASE /\ at(i) \in DOMAIN list /\ all[i] = list[at(i)]
             /\ at(j) \in DOMAIN list /\ all[j] = list[at(j)]
    <3>1. m = at(i) /\ n = at(j)
      BY <2>3 DEF Ordered, Distinct
    <3> QED
      BY <1>2, <3>1
  <2>4. ~(i > Len(got) /\ j \in DOMAIN got)
    BY <1>2
  <2> QED
    BY <1>3, <2>1, <2>2, <2>3, <2>4
<1>6. Follows(all, start)
  <2> SUFFICES ASSUME NEW i \in DOMAIN all, NEW j \in DOMAIN all, NEW m \in DOMAIN start,
                      NEW n \in DOMAIN start, i < j, all[i].id = start[m].id, all[j].id = start[n].id
               PROVE m < n
    BY DEF Follows
  <2>1. CASE i \in DOMAIN got /\ all[i] = got[i] /\ j \in DOMAIN got /\ all[j] = got[j]
    BY <2>1 DEF Ordered, Follows
  <2>2. CASE /\ i \in DOMAIN got /\ all[i] = got[i] /\ at(j) \in DOMAIN list
             /\ p < at(j) /\ all[j] = list[at(j)]
    <3>1. start[m].id \in Ids(got)
      BY <2>2, IdsOf
    <3> QED
      BY <2>2, <3>1 DEF Cut
  <2>3. CASE /\ at(i) \in DOMAIN list /\ all[i] = list[at(i)]
             /\ at(j) \in DOMAIN list /\ all[j] = list[at(j)]
    <3>1. at(i) < at(j)
      BY <1>2
    <3> QED
      BY <2>3, <3>1 DEF Ordered, Follows
  <2>4. ~(i > Len(got) /\ j \in DOMAIN got)
    BY <1>2
  <2> QED
    BY <1>3, <2>1, <2>2, <2>3, <2>4
<1>7. ASSUME NEW id PROVE id \in Ids(all) <=> \/ id \in Ids(got)
                                              \/ \E m \in DOMAIN list : p < m /\ m <= e /\ list[m].id = id
  <2>1. ASSUME NEW i \in DOMAIN got PROVE i \in DOMAIN all /\ all[i] = got[i]
    <3>1. i \in 1..(Len(got) + Len(items)) /\ i <= Len(got)
      BY <1>1
    <3> QED
      BY <1>2, <3>1
  <2>2. ASSUME NEW m \in DOMAIN list, p < m, m <= e
        PROVE \E i \in DOMAIN all : all[i] = list[m]
    <3>1. m - p + Len(got) \in DOMAIN all /\ m - p + Len(got) > Len(got)
      BY <1>1, <1>2, <2>2
    <3>2. at(m - p + Len(got)) = m /\ m - p + Len(got) \notin DOMAIN got
      BY <3>1
    <3> QED
      BY <1>3, <3>1, <3>2
  <2> QED
    BY <1>3, <2>1, <2>2, IdsOf
<1>8. Cut(start, all, list, e)
  <2>1. ASSUME NEW i \in DOMAIN all, NEW m \in DOMAIN list, all[i].id = list[m].id PROVE m <= e
    <3>1. CASE i \in DOMAIN got /\ all[i] = got[i]
      <4>1. m <= p
        BY <2>1, <3>1 DEF Cut
      <4> QED
        BY <4>1
    <3>2. CASE at(i) \in DOMAIN list /\ at(i) <= e /\ all[i] = list[at(i)]
      <4>1. m = at(i)
        BY <2>1, <3>2 DEF Ordered, Distinct
      <4> QED
        BY <3>2, <4>1
    <3> QED
      BY <1>3, <3>1, <3>2
  <2>2. ASSUME NEW a \in DOMAIN start, NEW m \in DOMAIN list, m <= e, start[a].id = list[m].id
        PROVE start[a].id \in Ids(all)
    <3>1. CASE m <= p
      BY <1>7, <2>2, <3>1 DEF Cut
    <3>2. CASE m > p
      BY <1>7, <2>2, <3>2
    <3> QED
      BY <3>1, <3>2
  <2>3. ASSUME NEW a \in DOMAIN start, NEW b \in DOMAIN start, NEW m \in DOMAIN list,
               start[a].id \in Ids(all), start[b].id = list[m].id, e < m
        PROVE a < b
    <3>1. CASE start[a].id \in Ids(got)
      <4>1. p < m
        BY <2>3
      <4> QED
        BY <2>3, <3>1, <4>1 DEF Cut
    <3>2. CASE \E k \in DOMAIN list : p < k /\ k <= e /\ list[k].id = start[a].id
      <4>1. PICK k \in DOMAIN list : k <= e /\ list[k].id = start[a].id
        BY <3>2
      <4>2. k < m
        BY <2>3, <4>1
      <4> QED
        BY <2>3, <4>1, <4>2 DEF Ordered, Follows
    <3> QED
      BY <1>7, <2>3, <3>1, <3>2
  <2> QED
    BY <2>1, <2>2, <2>3 DEF Cut
<1> QED
  BY <1>2, <1>4, <1>5, <1>6, <1>8 DEF Ordered, all, items

\* Where a page ends: after one item at least when there is one.
LEMMA PageEnds ==
    ASSUME NEW list \in Seq(PageItems), NEW p \in Nat, p <= Len(list),
           NEW max_words, NEW max_items \in {Absent, 2}
    PROVE LET e == V!page_end(list, p, max_words, max_items)
          IN e \in Nat /\ p <= e /\ e <= Len(list) /\ (p < Len(list) => p < e)
<1> DEFINE words(n) == V!WordsOf(list, p + 1, p + n)
           sizes == {n \in 0..(Len(list) - p) :
                       /\ max_items # Absent => n <= max_items
                       /\ n > 1 => words(n) <= max_words
                       /\ \A k \in 1..(n - 1) : words(k) < max_words}
<1>1. V!page_end(list, p, max_words, max_items) = p + V!Max(sizes)
  BY DEF V!page_end
<1>2. V!Max(sizes) = CHOOSE x \in sizes : \A y \in sizes : x >= y
  BY DEF V!Max
<1>3. Len(list) \in Nat /\ Len(list) - p \in Nat
  OBVIOUS
<1> HIDE DEF words
<1>4. 0 \in sizes
  BY <1>3
<1>5. p < Len(list) => 1 \in sizes
  BY <1>3
<1>6. sizes \subseteq 0..(Len(list) - p)
  OBVIOUS
<1> HIDE DEF sizes
<1>7. IsFiniteSet(sizes)
  <2>1. IsFiniteSet(0..(Len(list) - p))
    BY <1>3, FS_Interval
  <2> QED
    BY <1>6, <2>1, FS_Subset
<1>8. sizes \in SUBSET Int
  BY <1>6
<1>9. \E x \in sizes : \A y \in sizes : x >= y
  BY <1>4, <1>7, <1>8, GreatestInteger
<1>10. V!Max(sizes) \in sizes /\ \A y \in sizes : V!Max(sizes) >= y
  BY <1>2, <1>9
<1> HIDE DEF sizes
<1>11. V!Max(sizes) \in 0..(Len(list) - p) /\ (p < Len(list) => V!Max(sizes) >= 1)
  BY <1>5, <1>6, <1>10
<1> QED
  BY <1>1, <1>3, <1>11

\* Where a page starts: at the beginning, or after the item that the cursor
\* names.
LEMMA PageStarts ==
    ASSUME NEW list \in Seq(PageItems), NEW cursor
    PROVE LET p == V!page_start(list, cursor, "scope")
          IN \/ p = Bad
             \/ cursor = Absent /\ p = 0
             \/ cursor # Absent /\ p \in DOMAIN list /\ Named(list, cursor, p)
<1> DEFINE c == V!decode_cursor(cursor, "scope")
           named == {i \in DOMAIN list : /\ V!cursor_anchor(list[i]) = c.after
                                         /\ V!SameAnchor(list, c.after, i) = c.occurrence}
           p == V!page_start(list, cursor, "scope")
<1>1. c = Bad \/ c = cursor
  BY DEF V!decode_cursor
<1>2. p = CASE cursor = Absent -> 0
            [] cursor # Absent /\ c = Bad -> Bad
            [] OTHER -> IF named = {} THEN Bad ELSE V!Min(named)
  BY DEF V!page_start
<1>3. V!Min(named) = CHOOSE x \in named : \A y \in named : x <= y
  BY DEF V!Min
<1>4. named # {} => V!Min(named) \in named
  <2> SUFFICES ASSUME named # {} PROVE V!Min(named) \in named
    OBVIOUS
  <2>1. named \in SUBSET Nat
    OBVIOUS
  <2> HIDE DEF named
  <2>2. \E x \in named : \A y \in named : x <= y
    BY <2>1, LeastNumber
  <2> QED
    BY <1>3, <2>2
<1>5. c = cursor => \A i \in named : i \in DOMAIN list /\ Named(list, cursor, i)
  BY DEF Named, V!cursor_anchor
<1> HIDE DEF c, named, p
<1>6. CASE cursor = Absent
  <2>1. p = 0
    BY <1>2, <1>6, Zenon
  <2> QED
    BY <1>6, <2>1 DEF p
<1>7. CASE cursor # Absent /\ c = Bad
  <2>1. p = Bad
    BY <1>2, <1>7, Zenon
  <2> QED
    BY <2>1 DEF p
<1>8. CASE cursor # Absent /\ c # Bad
  <2>1. p = IF named = {} THEN Bad ELSE V!Min(named)
    BY <1>2, <1>8, Zenon
  <2> QED
    BY <1>1, <1>4, <1>5, <1>8, <2>1 DEF p
<1> QED
  BY <1>6, <1>7, <1>8

\* The page is the items after the one that the cursor names, and its cursor
\* names the last of them unless it is the last of the list.
PageAfter(list, cursor, answer) ==
    \E p \in Nat, e \in Nat :
      /\ \/ cursor = Absent /\ p = 0
         \/ cursor # Absent /\ p \in DOMAIN list /\ Named(list, cursor, p)
      /\ p <= e /\ e <= Len(list) /\ (p < Len(list) => p < e)
      /\ answer.items = SubSeq(list, p + 1, e)
      /\ answer.next_cursor = IF e < Len(list)
           THEN [after |-> list[e].content,
                 occurrence |-> V!SameAnchor(list, list[e].content, e), scope |-> "scope"]
           ELSE Absent

\* What page_with_item_limit answers: Bad, or such a page.
LEMMA PageAnswers ==
    ASSUME NEW list \in Seq(PageItems), NEW cursor, NEW max_words, NEW max_items \in {Absent, 2},
           NEW answer,
           answer = V!page_with_item_limit(list, cursor, max_words, "scope", Absent, max_items),
           answer # Bad
    PROVE PageAfter(list, cursor, answer)
<1> DEFINE p == V!page_start(list, cursor, "scope")
           e == V!page_end(list, p, max_words, max_items)
<1>1. p # Bad /\ answer = V!page_from(list, p, e, "scope", Len(list))
  BY DEF V!page_with_item_limit
<1>2. \/ cursor = Absent /\ p = 0
      \/ cursor # Absent /\ p \in DOMAIN list /\ Named(list, cursor, p)
  BY <1>1, PageStarts
<1>3. p \in Nat /\ p <= Len(list)
  BY <1>2
<1>4. e \in Nat /\ p <= e /\ e <= Len(list) /\ (p < Len(list) => p < e)
  BY <1>3, PageEnds
<1> HIDE DEF p, e
<1>5. answer.items = SubSeq(list, p + 1, e)
  BY <1>1 DEF V!page_from
<1>6. answer.next_cursor = IF e < Len(list) /\ e > p
        THEN [after |-> list[e].content,
              occurrence |-> V!SameAnchor(list, list[e].content, e), scope |-> "scope"]
        ELSE Absent
  BY <1>1 DEF V!page_from, V!encode_cursor, V!cursor_anchor, V!occurrence_of
<1>7. e < Len(list) => e > p
  BY <1>3, <1>4
<1> QED
  BY <1>2, <1>3, <1>4, <1>5, <1>6, <1>7 DEF PageAfter

\* The commands of an empty project_context: Bad, or such a page.
LEMMA ContextPage ==
    ASSUME NEW fixed, NEW list, NEW cursor, NEW max_words,
           NEW context, context = V!project_context(fixed, list, <<>>, cursor, max_words, "scope"),
           context # Bad
    PROVE \E words, max_items :
            /\ max_items \in {Absent, 2}
            /\ context.page = V!page_with_item_limit(list, cursor, words, "scope", Absent, max_items)
<1> DEFINE shown == V!Min({Len(<<>>), 1})
           left == max_words - fixed[shown]
           bounds == IF list = <<>> THEN <<max_words, Absent>> ELSE <<left, 2>>
           paged == V!page_with_item_limit(list, cursor, bounds[1], "scope", Absent, bounds[2])
           all == [page |-> paged, active |-> SubSeq(<<>>, 1, shown),
                   active_truncated |-> Len(<<>>) > 1]
           words == fixed[shown] + paged.words
<1>1. context # Bad => context = IF paged = Bad THEN Bad ELSE V!apply_budget(all, words, max_words)
  BY DEF V!project_context
<1>2. context = V!apply_budget(all, words, max_words)
  BY <1>1
<1>3. context = all
  BY <1>2 DEF V!apply_budget
<1>4. context.page = paged
  BY <1>3
<1>5. bounds[2] \in {Absent, 2}
  OBVIOUS
<1> HIDE DEF bounds
<1> QED
  BY <1>4, <1>5

\* What the client of the run gets from either of them.
LEMMA FetchedPage ==
    ASSUME Fetch, case.list \in Seq(PageItems)
    PROVE \/ case' = [case EXCEPT !.cursor = Absent, !.got = <<>>, !.start = case.list]
          \/ \E answer, words, max_items :
               /\ max_items \in {Absent, 2} /\ answer # Bad
               /\ answer = V!page_with_item_limit(case.list, case.cursor, words, "scope", Absent,
                                                  max_items)
               /\ case' = [case EXCEPT !.cursor = answer.next_cursor, !.got = @ \o answer.items,
                                       !.done = answer.next_cursor = Absent]
<1> DEFINE context == V!project_context([n \in 0..5 |-> 0], case.list, <<>>, case.cursor,
                                        case.max_words, "scope")
           plain == V!page(case.list, case.cursor, case.max_words, "scope", Absent)
           beside == IF context = Bad THEN Bad ELSE context.page
<1>1. PICK answer \in {plain, beside} :
         case' = IF answer = Bad
                   THEN [case EXCEPT !.cursor = Absent, !.got = <<>>, !.start = case.list]
                   ELSE [case EXCEPT !.cursor = answer.next_cursor, !.got = @ \o answer.items,
                                     !.done = answer.next_cursor = Absent]
  BY DEF Fetch
<1>2. plain = V!page_with_item_limit(case.list, case.cursor, case.max_words, "scope", Absent, Absent)
  BY DEF V!page
<1>3. context # Bad => \E words, max_items :
        /\ max_items \in {Absent, 2}
        /\ context.page = V!page_with_item_limit(case.list, case.cursor, words, "scope", Absent,
                                                 max_items)
  BY ContextPage
<1> HIDE DEF context, plain
<1>4. CASE answer = Bad
  BY <1>1, <1>4
<1>5. CASE answer # Bad /\ answer = plain
  BY <1>1, <1>2, <1>5
<1>6. CASE answer # Bad /\ answer = beside
  <2>1. context # Bad /\ answer = context.page
    BY <1>6
  <2>2. PICK words, max_items :
          /\ max_items \in {Absent, 2}
          /\ context.page = V!page_with_item_limit(case.list, case.cursor, words, "scope", Absent,
                                                   max_items)
    BY <1>3, <2>1
  <2>3. answer = V!page_with_item_limit(case.list, case.cursor, words, "scope", Absent, max_items)
    BY <2>1, <2>2
  <2>4. case' = [case EXCEPT !.cursor = answer.next_cursor, !.got = @ \o answer.items,
                             !.done = answer.next_cursor = Absent]
    BY <1>1, <1>6
  <2> QED
    BY <1>6, <2>2, <2>3, <2>4
<1> QED
  BY <1>1, <1>4, <1>5, <1>6

\* New items have the next numbers.
Numbered(items, changes) ==
    \A i \in DOMAIN items : items[i].id < 10 + changes /\ items[i].content < 10 + changes

\* What the client knows.
PageCases ==
    [kind : {"pages"}, max_words : {1, 2, 3}, cursor : Cursors \cup {Absent}, done : BOOLEAN,
     got : Seq(PageItems), start : Seq(PageItems), list : Seq(PageItems), changes : Nat]

\* The cursor separates what was read from what was not, whatever was inserted
\* or removed since.
PagesInv ==
    case.kind = "pages" =>
      /\ case \in PageCases
      /\ Ordered(case.start, case.got, case.list)
      /\ Numbered(case.start, case.changes) /\ Numbered(case.got, case.changes)
      /\ Numbered(case.list, case.changes)
      /\ ~case.done =>
           /\ case.cursor = Absent => case.got = <<>>
           /\ case.cursor # Absent =>
                /\ case.cursor.after < 10 + case.changes
                /\ \A p \in DOMAIN case.list :
                     Named(case.list, case.cursor, p) => Cut(case.start, case.got, case.list, p)
      /\ case.done => Ids(case.start) \cap Ids(case.list) \subseteq Ids(case.got)

\* At first the client has nothing.
LEMMA PagesStarted == StartPages => PagesInv'
<1> SUFFICES ASSUME StartPages PROVE PagesInv'
  OBVIOUS
<1>1. PICK list \in Lists, max_words \in {1, 2, 3} :
        case' = [kind |-> "pages", max_words |-> max_words, cursor |-> Absent, done |-> FALSE,
                 got |-> <<>>, start |-> list, list |-> list, changes |-> 0]
  BY DEF StartPages
<1>2. PICK n \in 0..3 : list \in {[i \in 1..n |-> Item(i, c[i], c[i])] : c \in [1..n -> {1, 2}]}
  BY DEF Lists
<1>3. PICK c \in [1..n -> {1, 2}] : list = [i \in 1..n |-> Item(i, c[i], c[i])]
  BY <1>2
<1>4. \A i \in 1..n : list[i].id = i /\ list[i].content = c[i] /\ list[i] \in PageItems
  BY <1>3 DEF Item, PageItems
<1>5. DOMAIN list = 1..n /\ list \in Seq(PageItems)
  <2>1. list = [i \in 1..n |-> list[i]] /\ n \in Nat
    BY <1>3
  <2>2. list \in [1..n -> PageItems]
    BY <1>4, <2>1
  <2> QED
    BY <2>1, <2>2
<1>6. Distinct(list) /\ Follows(list, list)
  BY <1>4, <1>5 DEF Distinct, Follows
<1>7. Numbered(list, 0)
  <2>1. \A i \in 1..n : i < 10 + 0 /\ c[i] < 10 + 0
    BY <1>3
  <2> QED
    BY <1>4, <1>5, <2>1 DEF Numbered
<1>8. Distinct(<<>>) /\ Follows(<<>>, list) /\ Numbered(<<>>, 0) /\ <<>> \in Seq(PageItems)
  BY DEF Distinct, Follows, Numbered
<1> HIDE DEF Numbered
<1>9. case' \in PageCases
  BY <1>1, <1>5, <1>8 DEF PageCases
<1> QED
  BY <1>1, <1>6, <1>7, <1>8, <1>9 DEF PagesInv, Ordered

\* A page goes on behind the position that the cursor names.
LEMMA PagesFetched == PagesInv /\ Fetch => PagesInv'
<1> SUFFICES ASSUME PagesInv, Fetch PROVE PagesInv'
  OBVIOUS
<1> DEFINE start == case.start
           got == case.got
           list == case.list
           n == case.changes
<1>1. /\ case \in PageCases /\ ~case.done /\ Ordered(start, got, list)
      /\ Numbered(start, n) /\ Numbered(got, n) /\ Numbered(list, n)
      /\ case.cursor = Absent => got = <<>>
      /\ case.cursor # Absent =>
           \A p \in DOMAIN list : Named(list, case.cursor, p) => Cut(start, got, list, p)
  BY DEF PagesInv, Fetch
<1>2. start \in Seq(PageItems) /\ got \in Seq(PageItems) /\ list \in Seq(PageItems) /\ n \in Nat
  BY <1>1 DEF PageCases
<1>3. CASE case' = [case EXCEPT !.cursor = Absent, !.got = <<>>, !.start = list]
  <2>1. Distinct(<<>>) /\ Follows(<<>>, list) /\ Numbered(<<>>, n) /\ <<>> \in Seq(PageItems)
    BY DEF Distinct, Follows, Numbered
  <2>2. Distinct(list) /\ Follows(list, list)
    BY <1>1 DEF Ordered, Distinct, Follows
  <2>3. case' \in PageCases
    BY <1>1, <1>2, <1>3, <2>1 DEF PageCases
  <2>4. /\ case'.cursor = Absent /\ case'.got = <<>> /\ case'.start = list /\ case'.list = list
        /\ case'.changes = n /\ case'.done = FALSE
    BY <1>1, <1>3 DEF PageCases
  <2> QED
    BY <1>1, <2>1, <2>2, <2>3, <2>4 DEF PagesInv, Ordered
<1>4. ASSUME NEW answer, NEW words, NEW max_items \in {Absent, 2}, answer # Bad,
             answer = V!page_with_item_limit(list, case.cursor, words, "scope", Absent, max_items),
             case' = [case EXCEPT !.cursor = answer.next_cursor, !.got = @ \o answer.items,
                                  !.done = answer.next_cursor = Absent]
      PROVE PagesInv'
  <2>1. PICK p \in Nat, e \in Nat :
          /\ \/ case.cursor = Absent /\ p = 0
             \/ case.cursor # Absent /\ p \in DOMAIN list /\ Named(list, case.cursor, p)
          /\ p <= e /\ e <= Len(list) /\ (p < Len(list) => p < e)
          /\ answer.items = SubSeq(list, p + 1, e)
          /\ answer.next_cursor = IF e < Len(list)
               THEN [after |-> list[e].content,
                     occurrence |-> V!SameAnchor(list, list[e].content, e), scope |-> "scope"]
               ELSE Absent
    <3>1. PageAfter(list, case.cursor, answer)
      BY <1>2, <1>4, PageAnswers
    <3> QED
      BY <3>1 DEF PageAfter
  <2>2. Cut(start, got, list, p)
    <3>1. CASE case.cursor = Absent /\ p = 0
      <4>1. got = <<>>
        BY <1>1, <3>1
      <4>2. \A m \in DOMAIN list : ~(m <= p)
        BY <1>2, <3>1
      <4>3. Ids(got) = {} /\ DOMAIN got = {}
        BY <4>1 DEF Ids
      <4> QED
        BY <4>2, <4>3 DEF Cut
    <3>2. CASE case.cursor # Absent /\ p \in DOMAIN list /\ Named(list, case.cursor, p)
      BY <1>1, <3>2
    <3> QED
      BY <2>1, <3>1, <3>2
  <2> DEFINE all == got \o SubSeq(list, p + 1, e)
             next == [after |-> list[e].content,
                      occurrence |-> V!SameAnchor(list, list[e].content, e), scope |-> "scope"]
  <2>3. all \in Seq(PageItems) /\ Ordered(start, all, list) /\ Cut(start, all, list, e)
    BY <1>1, <1>2, <2>1, <2>2, PageJoins
  <2>4. Numbered(all, n)
    <3>1. SubSeq(list, p + 1, e) \in Seq(PageItems)
          /\ Len(SubSeq(list, p + 1, e)) = e - p
          /\ \A i \in 1..(e - p) : SubSeq(list, p + 1, e)[i] = list[p + i] /\ p + i \in DOMAIN list
      BY <1>2, <2>1
    <3> DEFINE items == SubSeq(list, p + 1, e)
    <3> HIDE DEF items
    <3>2. Numbered(items, n)
      <4>1. DOMAIN items = 1..(e - p)
            /\ \A i \in 1..(e - p) : items[i] = list[p + i] /\ p + i \in DOMAIN list
        BY <2>1, <3>1 DEF items
      <4>2. \A k \in DOMAIN list : list[k].id < 10 + n /\ list[k].content < 10 + n
        BY <1>1 DEF Numbered
      <4> HIDE DEF list, n
      <4> QED
        BY <4>1, <4>2 DEF Numbered
    <3>3. \A i \in DOMAIN (got \o items) : \/ i \in DOMAIN got /\ (got \o items)[i] = got[i]
                                           \/ \E k \in DOMAIN items : (got \o items)[i] = items[k]
      <4>1. items \in Seq(PageItems)
        BY <3>1 DEF items
      <4>2. /\ got \o items \in Seq(PageItems) /\ Len(got \o items) = Len(got) + Len(items)
            /\ \A i \in 1..(Len(got) + Len(items)) :
                 (got \o items)[i] = IF i <= Len(got) THEN got[i] ELSE items[i - Len(got)]
        BY <1>2, <4>1, ConcatProperties
      <4> SUFFICES ASSUME NEW i \in DOMAIN (got \o items)
                   PROVE \/ i \in DOMAIN got /\ (got \o items)[i] = got[i]
                         \/ \E k \in DOMAIN items : (got \o items)[i] = items[k]
        OBVIOUS
      <4>3. i \in 1..(Len(got) + Len(items)) /\ Len(got) \in Nat /\ Len(items) \in Nat
        BY <1>2, <4>1, <4>2
      <4>4. CASE i <= Len(got)
        BY <1>2, <4>2, <4>3, <4>4
      <4>5. CASE i > Len(got)
        <5>1. i - Len(got) \in DOMAIN items
          BY <4>1, <4>3, <4>5
        <5>2. (got \o items)[i] = items[i - Len(got)]
          BY <4>2, <4>3, <4>5
        <5> QED
          BY <5>1, <5>2
      <4> QED
        BY <4>3, <4>4, <4>5
    <3>4. Numbered(got \o items, n)
      BY <1>1, <3>2, <3>3 DEF Numbered
    <3> QED
      BY <3>4 DEF items
  <2>5. answer.next_cursor = Absent <=> e = Len(list)
    <3>1. CASE e < Len(list)
      <4>1. e \in DOMAIN list /\ list[e].content \in Int
        <5>1. e \in 1..Len(list)
          BY <1>2, <2>1, <3>1
        <5>2. list[e] \in PageItems
          BY <1>2, <5>1
        <5> QED
          BY <1>2, <5>1, <5>2 DEF PageItems
      <4>2. V!SameAnchor(list, list[e].content, e) \in Int
        BY <1>2, AnchorCount, FS_CardinalityType
      <4>3. next \in [after : Int \cup {"scope"}, occurrence : Int, scope : {"scope"}]
        BY <4>1, <4>2
      <4> HIDE DEF next
      <4>4. next # Absent
        BY <4>3, SentinelsAreNoData
      <4> QED
        BY <1>2, <2>1, <3>1, <4>4 DEF next
    <3>2. CASE ~(e < Len(list))
      BY <1>2, <2>1, <3>2
    <3> QED
      BY <3>1, <3>2
  <2>6. /\ case'.cursor = answer.next_cursor /\ case'.got = all /\ case'.start = start
        /\ case'.list = list /\ case'.changes = n /\ case'.done = (answer.next_cursor = Absent)
        /\ case'.kind = "pages" /\ case'.max_words = case.max_words
    BY <1>1, <1>4, <2>1 DEF PageCases
  <2>7. e < Len(list) =>
          /\ answer.next_cursor = next /\ next \in Cursors /\ next.after < 10 + n
          /\ \A q \in DOMAIN list : Named(list, next, q) => q = e
    <3> SUFFICES ASSUME e < Len(list)
                 PROVE /\ answer.next_cursor = next /\ next \in Cursors /\ next.after < 10 + n
                       /\ \A q \in DOMAIN list : Named(list, next, q) => q = e
      OBVIOUS
    <3>1. e \in DOMAIN list /\ list[e].content \in Int
      <4>1. e \in 1..Len(list)
        BY <1>2, <2>1
      <4>2. list[e] \in PageItems
        BY <1>2, <4>1
      <4> QED
        BY <1>2, <4>1, <4>2 DEF PageItems
    <3>2. V!SameAnchor(list, list[e].content, e) \in Int
      BY <1>2, AnchorCount, FS_CardinalityType
    <3>3. next \in Cursors /\ next.after < 10 + n
      BY <1>1, <3>1, <3>2 DEF Cursors, Numbered
    <3>4. Named(list, next, e)
      BY <3>1 DEF Named
    <3>5. ASSUME NEW q \in DOMAIN list, Named(list, next, q) PROVE q = e
      <4> HIDE DEF next
      <4> QED
        BY <1>2, <3>1, <3>4, <3>5, NamedOnce
    <3> QED
      BY <2>1, <3>3, <3>5
  <2> HIDE DEF next, all
  <2>8. case' \in PageCases
    <3>1. answer.next_cursor \in Cursors \cup {Absent}
      BY <1>2, <2>1, <2>5, <2>7
    <3>2. case' = [case EXCEPT !.cursor = answer.next_cursor, !.got = all,
                               !.done = answer.next_cursor = Absent]
      BY <1>4, <2>1 DEF all
    <3>3. (answer.next_cursor = Absent) \in BOOLEAN
      OBVIOUS
    <3> QED
      BY <1>1, <2>3, <3>1, <3>2, <3>3 DEF PageCases
  <2>9. e = Len(list) => Ids(start) \cap Ids(list) \subseteq Ids(all)
    <3> SUFFICES ASSUME e = Len(list), NEW id \in Ids(start) \cap Ids(list) PROVE id \in Ids(all)
      OBVIOUS
    <3>1. PICK a \in DOMAIN start : start[a].id = id
      BY IdsOf
    <3>2. PICK m \in DOMAIN list : list[m].id = id
      BY IdsOf
    <3>3. m <= e
      BY <1>2
    <3> QED
      BY <2>3, <3>1, <3>2, <3>3 DEF Cut
  <2>10. CASE e = Len(list)
    <3>1. case'.done /\ case'.cursor = Absent
      BY <2>5, <2>6, <2>10
    <3> QED
      BY <1>1, <2>3, <2>4, <2>6, <2>8, <2>9, <2>10, <3>1 DEF PagesInv
  <2>11. CASE e < Len(list)
    <3>1. ~case'.done /\ case'.cursor = next /\ case'.cursor # Absent
      <4>1. e # Len(list)
        BY <2>11
      <4> QED
        BY <2>5, <2>6, <2>7, <2>11, <4>1
    <3> QED
      BY <1>1, <2>3, <2>4, <2>6, <2>7, <2>8, <2>11, <3>1 DEF PagesInv
  <2> QED
    BY <1>2, <2>1, <2>10, <2>11
<1> QED
  BY <1>2, <1>3, <1>4, FetchedPage

\* An inserted item is before or behind that position, and leaves it a cut.
LEMMA PagesInserted == PagesInv /\ Insert => PagesInv'
<1> SUFFICES ASSUME PagesInv, Insert PROVE PagesInv'
  OBVIOUS
<1> DEFINE start == case.start
           got == case.got
           list == case.list
           n == case.changes
           cursor == case.cursor
           new == Item(10 + n, 10 + n, 1)
<1>1. /\ case \in PageCases /\ ~case.done /\ Ordered(start, got, list)
      /\ Numbered(start, n) /\ Numbered(got, n) /\ Numbered(list, n)
      /\ cursor = Absent => got = <<>>
      /\ cursor # Absent =>
           /\ cursor.after < 10 + n
           /\ \A p \in DOMAIN list : Named(list, cursor, p) => Cut(start, got, list, p)
  BY DEF PagesInv, Insert
<1>2. /\ start \in Seq(PageItems) /\ got \in Seq(PageItems) /\ list \in Seq(PageItems) /\ n \in Nat
      /\ cursor \in Cursors \cup {Absent}
  BY <1>1 DEF PageCases
<1>3. PICK i \in 1..(Len(list) + 1) :
        case' = [case EXCEPT !.list = InsertAt(@, i, new), !.changes = @ + 1]
  BY DEF Insert
<1> DEFINE all == InsertAt(list, i, new)
<1>4. /\ case'.list = all /\ case'.changes = n + 1 /\ case'.start = start /\ case'.got = got
      /\ case'.cursor = cursor /\ case'.done = case.done /\ case'.kind = case.kind
  BY <1>1, <1>3 DEF PageCases
<1>5. new \in PageItems /\ new.id = 10 + n /\ new.content = 10 + n
  BY <1>2 DEF Item, PageItems
<1>6. all \in Seq(PageItems) /\ OneMore(list, all, i) /\ all[i] = new
  <2> HIDE DEF start, got, list, n, cursor, new
  <2> QED
    BY <1>2, <1>5, InsertedItem
<1>7. case' \in PageCases
  <2>1. case' = [case EXCEPT !.list = all, !.changes = n + 1]
    BY <1>3
  <2>2. n + 1 \in Nat
    BY <1>2
  <2> HIDE DEF all, n
  <2> QED
    BY <1>1, <1>6, <2>1, <2>2 DEF PageCases
<1> HIDE DEF all, new, start, got, list, n, cursor
<1>8. ASSUME NEW items \in {start, got, list} PROVE Numbered(items, n + 1) /\ 10 + n \notin Ids(items)
  <2>1. \A k \in DOMAIN items : items[k].id < 10 + n /\ items[k].content < 10 + n
    BY <1>1 DEF Numbered
  <2>2. \A k \in DOMAIN items : items[k].id \in Int /\ items[k].content \in Int
    <3>1. items \in Seq(PageItems)
      BY <1>2
    <3>2. \A k \in DOMAIN items : items[k] \in PageItems
      BY <3>1
    <3> QED
      BY <3>2 DEF PageItems
  <2>3. Numbered(items, n + 1)
    BY <1>2, <2>1, <2>2 DEF Numbered
  <2>4. \A k \in DOMAIN items : items[k].id # 10 + n
    BY <1>2, <2>1, <2>2
  <2> QED
    BY <2>3, <2>4, IdsOf
<1>9. /\ Ordered(start, got, all)
      /\ \A p \in DOMAIN list : Cut(start, got, list, p) => Cut(start, got, all, Shifted(i, p))
  <2>1. all[i].id \notin Ids(start) \cup Ids(got) \cup Ids(list)
    BY <1>5, <1>6, <1>8
  <2> QED
    BY <1>1, <1>2, <1>6, <2>1, InsertedElsewhere
<1>10. /\ \A m \in DOMAIN list : Shifted(i, m) \in DOMAIN all
       /\ \A m \in DOMAIN all \ {i} : \E q \in DOMAIN list : m = Shifted(i, q)
       /\ \A m \in DOMAIN list : all[Shifted(i, m)] = list[m]
  <2>1. \A m \in DOMAIN list : all[Shifted(i, m)] = list[m]
    BY <1>6 DEF OneMore
  <2>2. /\ \A m \in DOMAIN list : Shifted(i, m) \in DOMAIN all
        /\ \A m \in DOMAIN all \ {i} : \E q \in DOMAIN list : m = Shifted(i, q)
    BY <1>2, <1>6, ShiftedPositions
  <2> QED
    BY <2>1, <2>2
<1>11. Numbered(all, n + 1)
  <2> SUFFICES ASSUME NEW m \in DOMAIN all
               PROVE all[m].id < 10 + (n + 1) /\ all[m].content < 10 + (n + 1)
    BY DEF Numbered
  <2>1. CASE m = i
    BY <1>2, <1>5, <1>6, <2>1
  <2>2. CASE m # i
    <3>1. PICK q \in DOMAIN list : m = Shifted(i, q)
      BY <1>10, <2>2
    <3>2. all[m] = list[q] /\ Numbered(list, n + 1)
      BY <1>8, <1>10, <3>1
    <3> QED
      BY <3>2 DEF Numbered
  <2> QED
    BY <2>1, <2>2
<1>12. ASSUME cursor # Absent
       PROVE /\ cursor.after < 10 + (n + 1)
             /\ \A p \in DOMAIN all : Named(all, cursor, p) => Cut(start, got, all, p)
  <2>1. cursor.after \in Int /\ cursor.after < 10 + n
    BY <1>1, <1>2, <1>12 DEF Cursors
  <2>2. cursor.after # all[i].content /\ cursor.after < 10 + (n + 1)
    BY <1>2, <1>5, <1>6, <2>1
  <2>3. ASSUME NEW p \in DOMAIN all, Named(all, cursor, p) PROVE Cut(start, got, all, p)
    <3>1. p # i
      BY <2>2, <2>3 DEF Named
    <3>2. PICK q \in DOMAIN list : p = Shifted(i, q)
      BY <1>10, <3>1
    <3>3. V!SameAnchor(list, cursor.after, q) = V!SameAnchor(all, cursor.after, p)
      BY <1>2, <1>6, <2>2, <3>2, SameAnchors
    <3>4. list[q] = all[p]
      BY <1>10, <3>2
    <3>5. Named(list, cursor, q)
      BY <2>3, <3>3, <3>4 DEF Named
    <3> QED
      BY <1>1, <1>9, <1>12, <3>2, <3>5
  <2> QED
    BY <2>2, <2>3
<1>13. case.done = FALSE
  BY <1>1 DEF PageCases
<1> QED
  BY <1>1, <1>4, <1>7, <1>8, <1>9, <1>11, <1>12, <1>13 DEF PagesInv

\* So does one that is removed; the cursor may then name no position at all.
LEMMA PagesWithdrawn == PagesInv /\ Withdraw => PagesInv'
<1> SUFFICES ASSUME PagesInv, Withdraw PROVE PagesInv'
  OBVIOUS
<1> DEFINE start == case.start
           got == case.got
           list == case.list
           n == case.changes
           cursor == case.cursor
<1>1. /\ case \in PageCases /\ ~case.done /\ Ordered(start, got, list)
      /\ Numbered(start, n) /\ Numbered(got, n) /\ Numbered(list, n)
      /\ cursor = Absent => got = <<>>
      /\ cursor # Absent =>
           /\ cursor.after < 10 + n
           /\ \A p \in DOMAIN list : Named(list, cursor, p) => Cut(start, got, list, p)
  BY DEF PagesInv, Withdraw
<1>2. /\ start \in Seq(PageItems) /\ got \in Seq(PageItems) /\ list \in Seq(PageItems) /\ n \in Nat
      /\ cursor \in Cursors \cup {Absent}
  BY <1>1 DEF PageCases
<1>3. PICK i \in DOMAIN list :
        /\ V!SameAnchor(list, list[i].content, Len(list)) = 1
        /\ case' = [case EXCEPT !.list = RemoveAt(@, i), !.changes = @ + 1]
  BY DEF Withdraw
<1> DEFINE rest == RemoveAt(list, i)
<1>4. /\ case'.list = rest /\ case'.changes = n + 1 /\ case'.start = start /\ case'.got = got
      /\ case'.cursor = cursor /\ case'.done = case.done /\ case'.kind = case.kind
  BY <1>1, <1>3 DEF PageCases
<1>5. rest \in Seq(PageItems) /\ OneMore(rest, list, i)
  BY <1>2, RemovedItem
<1>6. case' \in PageCases
  <2>1. case' = [case EXCEPT !.list = rest, !.changes = n + 1]
    BY <1>3
  <2>2. n + 1 \in Nat
    BY <1>2
  <2> HIDE DEF rest, n
  <2> QED
    BY <1>1, <1>5, <2>1, <2>2 DEF PageCases
<1> HIDE DEF rest, start, got, list, n, cursor
<1>7. ASSUME NEW items \in {start, got, list} PROVE Numbered(items, n + 1)
  <2>1. \A k \in DOMAIN items : items[k].id < 10 + n /\ items[k].content < 10 + n
    BY <1>1 DEF Numbered
  <2>2. \A k \in DOMAIN items : items[k].id \in Int /\ items[k].content \in Int
    <3>1. items \in Seq(PageItems)
      BY <1>2
    <3>2. \A k \in DOMAIN items : items[k] \in PageItems
      BY <3>1
    <3> QED
      BY <3>2 DEF PageItems
  <2> QED
    BY <1>2, <2>1, <2>2 DEF Numbered
<1>8. /\ Ordered(start, got, rest)
      /\ \A p \in DOMAIN rest : Cut(start, got, list, Shifted(i, p)) => Cut(start, got, rest, p)
  BY <1>1, <1>2, <1>5, RemovedElsewhere
<1>9. /\ \A m \in DOMAIN rest : Shifted(i, m) \in DOMAIN list /\ Shifted(i, m) # i
      /\ \A m \in DOMAIN rest : list[Shifted(i, m)] = rest[m]
  <2>1. \A m \in DOMAIN rest : list[Shifted(i, m)] = rest[m]
    BY <1>5 DEF OneMore
  <2>2. \A m \in DOMAIN rest : Shifted(i, m) \in DOMAIN list /\ Shifted(i, m) # i
    BY <1>2, <1>5, ShiftedPositions
  <2> QED
    BY <2>1, <2>2
<1>10. Numbered(rest, n + 1)
  BY <1>7, <1>9 DEF Numbered
<1>11. ASSUME cursor # Absent
       PROVE /\ cursor.after < 10 + (n + 1)
             /\ \A p \in DOMAIN rest : Named(rest, cursor, p) => Cut(start, got, rest, p)
  <2>1. cursor.after < 10 + (n + 1)
    <3>1. cursor.after \in Int /\ cursor.after < 10 + n
      BY <1>1, <1>2, <1>11 DEF Cursors
    <3> QED
      BY <1>2, <3>1
  <2>2. ASSUME NEW p \in DOMAIN rest, Named(rest, cursor, p) PROVE Cut(start, got, rest, p)
    <3> DEFINE a == cursor.after
    <3>1. list[Shifted(i, p)].content = a /\ Shifted(i, p) \in DOMAIN list /\ Shifted(i, p) # i
      BY <1>9, <2>2 DEF Named
    <3>2. list[i].content # a
      <4> SUFFICES ASSUME list[i].content = a PROVE FALSE
        OBVIOUS
      <4>1. Len(list) \in Nat /\ DOMAIN list = 1..Len(list)
        BY <1>2
      <4>2. /\ Cardinality(AnchoredAt(list, a, Len(list))) = 1
            /\ IsFiniteSet(AnchoredAt(list, a, Len(list)))
        BY <1>2, <1>3, <4>1, AnchorCount
      <4>3. i \in AnchoredAt(list, a, Len(list)) /\ Shifted(i, p) \in AnchoredAt(list, a, Len(list))
        BY <1>3, <3>1, <4>1 DEF AnchoredAt
      <4>4. PICK x : AnchoredAt(list, a, Len(list)) = {x}
        BY <4>2, FS_Singleton
      <4> QED
        BY <3>1, <4>3, <4>4
    <3>3. V!SameAnchor(rest, a, p) = V!SameAnchor(list, a, Shifted(i, p))
      BY <1>2, <1>5, <3>2, SameAnchors
    <3>4. Named(list, cursor, Shifted(i, p))
      BY <2>2, <3>1, <3>3 DEF Named
    <3> QED
      BY <1>1, <1>8, <1>11, <3>1, <3>4
  <2> QED
    BY <2>1, <2>2
<1>12. case.done = FALSE
  BY <1>1 DEF PageCases
<1> QED
  BY <1>1, <1>4, <1>6, <1>7, <1>8, <1>10, <1>11, <1>12 DEF PagesInv

-----------------------------------------------------------------------------
(* A client that reads duplicate groups *)

\* The tests of a group, by their numbers.
Members(g) == InOrder(g, [n \in g |-> <<n>>])

\* A group fits the page, and none of its tests is anything else.
LEMMA MembersInOrder ==
    ASSUME NEW n \in Nat, NEW g \in SUBSET (1..n)
    PROVE Members(g) \in Seq(g) /\ Len(Members(g)) <= n
<1> DEFINE key == [m \in g |-> <<m>>]
<1>1. IsFiniteSet(g) /\ Cardinality(g) \in Nat /\ Cardinality(g) <= n
  <2>1. IsFiniteSet(1..n) /\ Cardinality(1..n) = n
    BY PositionCount
  <2>2. IsFiniteSet(g) /\ Cardinality(g) <= n
    BY <2>1, FS_Subset
  <2> QED
    BY <2>2, FS_CardinalityType
<1>2. key \in [g -> [1..1 -> Int]] /\ \A x, y \in g : key[x] = key[y] => x = y
  <2>1. \A m \in g : <<m>> \in [1..1 -> Int]
    <3> SUFFICES ASSUME NEW m \in g PROVE <<m>> \in [1..1 -> Int]
      OBVIOUS
    <3>1. m \in Int
      OBVIOUS
    <3> QED
      BY <3>1
  <2>2. \A x, y : <<x>> = <<y>> => x = y
    OBVIOUS
  <2> QED
    BY <2>1, <2>2
<1>3. Members(g) = InOrder(g, key)
  BY DEF Members
<1> HIDE DEF key
<1>4. 1 \in Nat
  OBVIOUS
<1>5. SortedBy(g, key, InOrder(g, key))
  BY <1>1, <1>2, <1>4, EverythingInOrder
<1> QED
  BY <1>1, <1>3, <1>5 DEF SortedBy

\* What the client knows.
GroupCases ==
    [kind : {"groups"}, seen : [1..4 -> {{}, {1}, {2}}],
     cursor : [after : {"scope"}, occurrence : Int, scope : {"scope"}] \cup {Absent},
     got : Seq(UNION {Seq(g) : g \in SUBSET (1..4)}), done : BOOLEAN]

\* The cursor counts the groups that the client has.
GroupsInv ==
    case.kind = "groups" =>
      LET all == D!duplicate_groups(case.seen)
      IN /\ case \in GroupCases
         /\ Len(case.got) <= Len(all)
         /\ \A i \in DOMAIN case.got : case.got[i] = Members(all[i])
         /\ ~case.done =>
              /\ case.cursor = Absent => case.got = <<>>
              /\ case.cursor # Absent => case.cursor.occurrence = Len(case.got) + 1
         /\ case.done => Len(case.got) = Len(all)

\* At first the client has nothing.
LEMMA GroupsStarted == StartGroups => GroupsInv'
<1> SUFFICES ASSUME StartGroups PROVE GroupsInv'
  OBVIOUS
<1>1. PICK seen \in [1..4 -> {{}, {1}, {2}}] :
        case' = [kind |-> "groups", seen |-> seen, cursor |-> Absent, got |-> <<>>, done |-> FALSE]
  BY DEF StartGroups
<1>2. D!duplicate_groups(seen) \in Seq(SUBSET (1..4))
  <2>1. 4 \in Nat
    OBVIOUS
  <2> QED
    BY <2>1, DuplicatesAreGrouped
<1>3. <<>> \in Seq(UNION {Seq(g) : g \in SUBSET (1..4)}) /\ Len(<<>>) = 0 /\ DOMAIN <<>> = {}
  OBVIOUS
<1>4. case' \in GroupCases
  BY <1>1, <1>3 DEF GroupCases
<1>5. Len(D!duplicate_groups(seen)) >= 0
  BY <1>2
<1> QED
  BY <1>1, <1>3, <1>4, <1>5 DEF GroupsInv

\* An answer, and what it should be when it goes on after offset groups.
GroupsFrom(seen, cursor, max_groups) ==
    V!find_duplicate_coverage_tests(
      [o \in 0..4 |-> D!duplicate_coverage_projection(seen, o, max_groups, 4)],
      cursor, "scope", max_groups, 4, 4)

\* The answer holds the groups after offset up to the e-th.
GroupsUpTo(all, offset, answer, e) ==
    /\ offset <= e /\ e <= Len(all) /\ (offset < Len(all) => offset < e)
    /\ answer.groups = [i \in 1..(e - offset) |-> Members(all[offset + i])]
    /\ answer.next_cursor = IF e < Len(all)
         THEN [after |-> "scope", occurrence |-> e + 1, scope |-> "scope"] ELSE Absent

\* The page that starts after offset groups.
LEMMA GroupPage ==
    ASSUME NEW seen \in [1..4 -> {{}, {1}, {2}}], NEW max_groups \in {1, 2},
           NEW offset \in Nat, offset <= Len(D!duplicate_groups(seen)),
           NEW cursor, \/ cursor = Absent /\ offset = 0
                       \/ /\ cursor \in [after : {"scope"}, occurrence : Int, scope : {"scope"}]
                          /\ cursor.occurrence = offset + 1,
           NEW answer, answer = GroupsFrom(seen, cursor, max_groups)
    PROVE \E e \in Nat : GroupsUpTo(D!duplicate_groups(seen), offset, answer, e)
<1> DEFINE all == D!duplicate_groups(seen)
           projection(o) == D!duplicate_coverage_projection(seen, o, max_groups, 4)
           e == IF offset + max_groups <= Len(all) THEN offset + max_groups ELSE Len(all)
           part == SubSeq(all, offset + 1, e)
<1>1. all \in Seq(SUBSET (1..4)) /\ Len(all) <= 4 /\ Len(all) \in Nat /\ offset <= Len(all)
  <2>1. 4 \in Nat
    OBVIOUS
  <2>2. all \in Seq(SUBSET (1..4)) /\ Len(all) <= 4
    BY <2>1, DuplicatesAreGrouped
  <2>3. offset <= Len(all)
    OBVIOUS
  <2> HIDE DEF all
  <2> QED
    BY <2>2, <2>3
<1> HIDE DEF all
<1>2. e \in Nat /\ offset <= e /\ e <= Len(all) /\ (offset < Len(all) => offset < e)
  BY <1>1
<1>3. D!Min({offset + max_groups, Len(all)}) = e
  <2>1. offset + max_groups \in Int /\ Len(all) \in Int
    BY <1>1
  <2> QED
    BY <2>1, LesserOf
<1> HIDE DEF e
<1>4. /\ Len(part) = e - offset /\ DOMAIN part = 1..(e - offset)
      /\ \A i \in 1..(e - offset) : part[i] = all[offset + i] /\ offset + i \in DOMAIN all
  BY <1>1, <1>2, Part DEF all
<1>5. /\ projection(offset).groups
           = [i \in DOMAIN part |-> D!First(D!InOrder(part[i], [m \in part[i] |-> <<m>>]), 4)]
      /\ projection(offset).has_more = (offset + Len(part) < Len(all))
  BY <1>3 DEF D!duplicate_coverage_projection, all
<1>6. ASSUME NEW i \in 1..(e - offset)
      PROVE D!First(D!InOrder(part[i], [m \in part[i] |-> <<m>>]), 4) = Members(all[offset + i])
  <2> DEFINE g == all[offset + i]
             list == Members(g)
  <2> DEFINE tests == SUBSET (1..4)
  <2>1. part[i] = g /\ g \in SUBSET (1..4)
    <3>1. part[i] = g
      BY <1>4
    <3>2. offset + i \in DOMAIN all
      BY <1>4
    <3>3. all \in Seq(tests)
      BY <1>1
    <3> HIDE DEF tests, part, list
    <3>4. g \in tests
      BY <3>2, <3>3
    <3> QED
      BY <3>1, <3>4 DEF tests
  <2>2. D!InOrder(part[i], [m \in part[i] |-> <<m>>]) = list
    BY <2>1, SameOrders DEF Members
  <2>3. list \in Seq(g) /\ Len(list) <= 4 /\ Len(list) \in Nat
    <3>1. 4 \in Nat
      OBVIOUS
    <3>2. list \in Seq(g) /\ Len(list) <= 4
      BY <2>1, <3>1, MembersInOrder
    <3> QED
      BY <3>2
  <2> HIDE DEF list
  <2>4. D!Min({4, Len(list)}) = Len(list)
    <3>1. 4 \in Int /\ Len(list) \in Int
      BY <2>3
    <3>2. D!Min({4, Len(list)}) = IF 4 <= Len(list) THEN 4 ELSE Len(list)
      BY <3>1, LesserOf
    <3> QED
      BY <2>3, <3>2
  <2>5. SubSeq(list, 1, Len(list)) = list
    BY <2>3
  <2> QED
    BY <2>2, <2>4, <2>5 DEF D!First, list
<1>7. projection(offset).groups = [i \in 1..(e - offset) |-> Members(all[offset + i])]
  BY <1>4, <1>5, <1>6
<1>8. Len(projection(offset).groups) = e - offset
  <2>1. e - offset \in Nat
    BY <1>2
  <2> QED
    BY <1>7, <2>1
<1>9. projection(offset).has_more = (e < Len(all))
  BY <1>1, <1>2, <1>4, <1>5
<1> DEFINE c == V!decode_cursor(cursor, "scope")
           start == IF cursor = Absent THEN 0 ELSE c.occurrence - 1
           table == [o \in 0..4 |-> projection(o)]
           got == table[start]
           plain == [groups |-> got.groups,
                     next_cursor |-> IF got.has_more /\ Len(got.groups) > 0
                       THEN V!encode_cursor("scope", "scope", start + Len(got.groups) + 1)
                       ELSE Absent]
<1>10. cursor # Absent => cursor # Bad /\ c = cursor /\ c # Bad /\ c.after = "scope"
  <2> SUFFICES ASSUME cursor # Absent
               PROVE cursor # Bad /\ c = cursor /\ c # Bad /\ c.after = "scope"
    OBVIOUS
  <2>1. /\ cursor \in [after : {"scope"}, occurrence : Int, scope : {"scope"}]
        /\ cursor.occurrence = offset + 1
    OBVIOUS
  <2>2. cursor \in [after : Int \cup {"scope"}, occurrence : Int, scope : {"scope"}]
    BY <2>1
  <2>3. cursor # Bad
    BY <2>2, SentinelsAreNoData
  <2>4. cursor.scope = "scope" /\ ~(cursor.occurrence < 1) /\ cursor.after = "scope"
    BY <2>1
  <2> QED
    BY <2>3, <2>4 DEF V!decode_cursor
<1>11. start = offset
  <2>1. CASE cursor = Absent
    <3>1. offset = 0
      <4>1. Absent \notin [after : Int \cup {"scope"}, occurrence : Int, scope : {"scope"}]
        BY SentinelsAreNoData
      <4> QED
        BY <2>1, <4>1
    <3> QED
      BY <2>1, <3>1
  <2>2. CASE cursor # Absent
    BY <1>10, <2>2
  <2> QED
    BY <2>1, <2>2
<1>12. got = projection(offset)
  <2>1. offset \in 0..4
    <3>1. offset <= 4
      BY <1>1
    <3> QED
      BY <3>1
  <2> HIDE DEF start, projection
  <2> QED
    BY <1>11, <2>1
<1>13. ~(max_groups \notin 1..500 \/ 4 \notin 2..1000 \/ ~V!validate_max_words(4))
  BY DEF V!validate_max_words
<1>14. ~(cursor # Absent /\ (c = Bad \/ c.after # "scope"))
  BY <1>10
<1>15. answer = CASE max_groups \notin 1..500 \/ 4 \notin 2..1000 \/ ~V!validate_max_words(4) -> Bad
                  [] cursor # Absent /\ (c = Bad \/ c.after # "scope") -> Bad
                  [] OTHER -> plain
  BY DEF GroupsFrom, V!find_duplicate_coverage_tests
<1> HIDE DEF c, plain
<1>16. answer = plain
  BY <1>13, <1>14, <1>15, Zenon
<1>17. answer.groups = [i \in 1..(e - offset) |-> Members(all[offset + i])]
  <2> HIDE DEF got
  <2>1. answer.groups = got.groups
    BY <1>16 DEF plain
  <2> QED
    BY <1>7, <1>12, <2>1
<1>18. answer.next_cursor = IF e < Len(all)
         THEN [after |-> "scope", occurrence |-> e + 1, scope |-> "scope"] ELSE Absent
  <2> HIDE DEF got, start
  <2>1. answer.next_cursor = IF got.has_more /\ Len(got.groups) > 0
          THEN [after |-> "scope", occurrence |-> start + Len(got.groups) + 1, scope |-> "scope"]
          ELSE Absent
    BY <1>16 DEF plain, V!encode_cursor
  <2>2. got.has_more = (e < Len(all)) /\ Len(got.groups) = e - offset
    <3> HIDE DEF projection
    <3> QED
      BY <1>8, <1>9, <1>12
  <2>3. start + Len(got.groups) + 1 = e + 1 /\ (e < Len(all) => Len(got.groups) > 0)
    BY <1>1, <1>2, <1>11, <2>2
  <2> QED
    BY <2>1, <2>2, <2>3
<1> QED
  BY <1>2, <1>17, <1>18 DEF all, GroupsUpTo

\* A page goes on where the groups that the client has end.
LEMMA GroupsFetched == GroupsInv /\ FetchGroups => GroupsInv'
<1> SUFFICES ASSUME GroupsInv, FetchGroups PROVE GroupsInv'
  OBVIOUS
<1>1. case.kind = "groups" /\ ~case.done
  BY DEF FetchGroups
<1> DEFINE all == D!duplicate_groups(case.seen)
           got == case.got
           cursor == case.cursor
           offset == Len(got)
           groups == UNION {Seq(g) : g \in SUBSET (1..4)}
<1>2. /\ case \in GroupCases
      /\ offset <= Len(all)
      /\ \A i \in DOMAIN got : got[i] = Members(all[i])
      /\ cursor = Absent => got = <<>>
      /\ cursor # Absent => cursor.occurrence = offset + 1
  BY <1>1 DEF GroupsInv
<1>3. PICK max_groups \in {1, 2} :
        case' = [case EXCEPT !.cursor = GroupsFrom(case.seen, cursor, max_groups).next_cursor,
                             !.got = @ \o GroupsFrom(case.seen, cursor, max_groups).groups,
                             !.done = GroupsFrom(case.seen, cursor, max_groups).next_cursor = Absent]
  BY DEF FetchGroups, GroupsFrom
<1> DEFINE page == GroupsFrom(case.seen, cursor, max_groups)
<1>4. case' = [case EXCEPT !.cursor = page.next_cursor, !.got = got \o page.groups,
                           !.done = page.next_cursor = Absent]
  BY <1>3
<1>5. /\ case.seen \in [1..4 -> {{}, {1}, {2}}] /\ got \in Seq(groups) /\ offset \in Nat
      /\ cursor \in [after : {"scope"}, occurrence : Int, scope : {"scope"}] \cup {Absent}
  BY <1>2 DEF GroupCases
<1>6. \/ cursor = Absent /\ offset = 0
      \/ /\ cursor \in [after : {"scope"}, occurrence : Int, scope : {"scope"}]
         /\ cursor.occurrence = offset + 1
  BY <1>2, <1>5
<1> HIDE DEF page
<1>7. PICK e \in Nat :
        /\ offset <= e /\ e <= Len(all) /\ (offset < Len(all) => offset < e)
        /\ page.groups = [i \in 1..(e - offset) |-> Members(all[offset + i])]
        /\ page.next_cursor = IF e < Len(all)
             THEN [after |-> "scope", occurrence |-> e + 1, scope |-> "scope"] ELSE Absent
  <2>1. PICK e \in Nat : GroupsUpTo(all, offset, page, e)
    <3> DEFINE seen == case.seen
    <3>1. /\ seen \in [1..4 -> {{}, {1}, {2}}] /\ offset <= Len(D!duplicate_groups(seen))
          /\ page = GroupsFrom(seen, cursor, max_groups)
      BY <1>2, <1>5 DEF page
    <3>2. offset \in Nat
      BY <1>5
    <3> HIDE DEF seen, cursor, offset
    <3>3. \E e \in Nat : GroupsUpTo(D!duplicate_groups(seen), offset, page, e)
      BY <1>6, <3>1, <3>2, GroupPage
    <3> QED
      BY <3>3 DEF seen
  <2> QED
    BY <2>1 DEF GroupsUpTo
<1>8. all \in Seq(SUBSET (1..4)) /\ Len(all) \in Nat
  <2>1. 4 \in Nat
    OBVIOUS
  <2>2. all \in Seq(SUBSET (1..4))
    BY <1>5, <2>1, DuplicatesAreGrouped
  <2> QED
    BY <2>2
<1> HIDE DEF all, groups
<1> DEFINE more == page.groups
<1>9. more \in Seq(groups) /\ Len(more) = e - offset
  <2>1. ASSUME NEW i \in 1..(e - offset) PROVE Members(all[offset + i]) \in groups
    <3>1. offset + i \in DOMAIN all
      BY <1>5, <1>7, <1>8
    <3>2. all[offset + i] \in SUBSET (1..4)
      BY <1>8, <3>1
    <3>3. 4 \in Nat
      OBVIOUS
    <3>4. Members(all[offset + i]) \in Seq(all[offset + i])
      BY <3>2, <3>3, MembersInOrder
    <3> QED
      BY <3>2, <3>4 DEF groups
  <2>2. e - offset \in Nat
    BY <1>5, <1>7
  <2> QED
    BY <1>7, <2>1, <2>2
<1>10. got \o more \in Seq(groups) /\ Len(got \o more) = e
  <2> HIDE DEF got, more
  <2> QED
    BY <1>5, <1>7, <1>9
<1>11. ASSUME NEW i \in DOMAIN (got \o more) PROVE (got \o more)[i] = Members(all[i])
  <2>1. i \in 1..e
    <3> DEFINE now == got \o more
    <3>1. now \in Seq(groups) /\ Len(now) = e /\ i \in DOMAIN now
      BY <1>10
    <3> HIDE DEF now
    <3> QED
      BY <3>1
  <2>2. CASE i <= offset
    <3>1. (got \o more)[i] = got[i] /\ i \in DOMAIN got
      <4> HIDE DEF more, got
      <4> QED
        BY <1>5, <1>9, <2>1, <2>2
    <3> QED
      BY <1>2, <3>1
  <2>3. CASE i > offset
    <3>1. (got \o more)[i] = more[i - offset] /\ i - offset \in 1..(e - offset) /\ offset + (i - offset) = i
      <4> HIDE DEF more, got
      <4> QED
        BY <1>5, <1>7, <1>9, <2>1, <2>3
    <3> QED
      BY <1>7, <3>1
  <2> QED
    BY <1>5, <2>1, <2>2, <2>3
<1>12. page.next_cursor = Absent <=> e = Len(all)
  <2>1. [after |-> "scope", occurrence |-> e + 1, scope |-> "scope"] # Absent
    <3>1. [after |-> "scope", occurrence |-> e + 1, scope |-> "scope"]
            \in [after : Int \cup {"scope"}, occurrence : Int, scope : {"scope"}]
      OBVIOUS
    <3> QED
      BY <3>1, SentinelsAreNoData
  <2> QED
    BY <1>7, <1>8, <2>1
<1> DEFINE next == page.next_cursor
           now == got \o more
<1>13. /\ next \in [after : {"scope"}, occurrence : Int, scope : {"scope"}] \cup {Absent}
       /\ next # Absent => next.occurrence = e + 1
  BY <1>7
<1>14. case' = [case EXCEPT !.cursor = next, !.got = now, !.done = next = Absent]
  BY <1>4
<1>15. /\ now \in Seq(groups) /\ Len(now) = e /\ \A i \in DOMAIN now : now[i] = Members(all[i])
       /\ next = Absent <=> e = Len(all)
  BY <1>10, <1>11, <1>12
<1> HIDE DEF next, now
<1>16. case' \in GroupCases
  BY <1>2, <1>13, <1>14, <1>15 DEF GroupCases, groups
<1>17. /\ case'.seen = case.seen /\ case'.got = now /\ case'.cursor = next
       /\ case'.done = (next = Absent)
  BY <1>2, <1>14 DEF GroupCases
<1> QED
  BY <1>7, <1>13, <1>15, <1>16, <1>17 DEF GroupsInv, all

-----------------------------------------------------------------------------
(* A client that reads gaps *)

\* The first groups of a page; the next one starts at the first group dropped.
Shorter(page, kept) ==
    LET end == IF page.next_offset = Absent THEN page.group_count ELSE page.next_offset
    IN [page EXCEPT !.groups = SubSeq(@, 1, kept),
                    !.next_offset = end - (Len(page.groups) - kept)]

\* bounded of src/query.rs, for groups of any size: an answer that does not
\* fit keeps its first groups, at least one unless not even that fits.
THEOREM AnswersAreCut ==
    ASSUME NEW page, NEW S, page.groups \in Seq(S), NEW size, NEW cap \in Nat,
           page.groups # <<>> => size[1] \in Nat
    PROVE LET len == Len(page.groups)
              answer == Q!bounded(page, size, cap)
          IN \/ answer = page
             \/ answer = Bad /\ len > 0 /\ size[1] > cap
             \/ \E kept \in 1..(len - 1) : answer = Shorter(page, kept)
<1> DEFINE len == Len(page.groups)
           answer == Q!bounded(page, size, cap)
           bytes == CHOOSE f : f = [n \in 0..len |-> IF n = 0 THEN 0 ELSE f[n - 1] + size[n]]
           fits == {n \in 0..len : bytes[n] <= cap}
           kept == Q!Max(fits)
<1>1. len \in Nat
  OBVIOUS
<1>2. answer = IF kept = len THEN page ELSE IF kept = 0 THEN Bad ELSE Shorter(page, kept)
  BY DEF Q!bounded, Shorter
<1>3. bytes[0] = 0 /\ \A n \in 1..len : bytes[n] = bytes[n - 1] + size[n]
  <2> HIDE DEF len
  <2> QED
    BY <1>1, SumOneByOne
<1> HIDE DEF bytes, answer
<1>4. fits \in SUBSET (0..len) /\ 0 \in fits
  BY <1>1, <1>3
<1>5. len > 0 /\ ~(size[1] > cap) => 1 \in fits
  <2> SUFFICES ASSUME len > 0, ~(size[1] > cap) PROVE 1 \in fits
    OBVIOUS
  <2>1. 1 \in 1..len /\ page.groups # <<>>
    OBVIOUS
  <2>2. bytes[1] = 0 + size[1] /\ size[1] \in Nat
    BY <1>3, <2>1
  <2> QED
    BY <2>1, <2>2
<1> HIDE DEF fits
<1>6. kept \in fits /\ \A n \in fits : kept >= n
  <2>1. IsFiniteSet(0..len)
    <3>1. 0 \in Int /\ len \in Int
      BY <1>1
    <3> QED
      BY <3>1, FS_Interval
  <2>2. IsFiniteSet(fits) /\ fits \in SUBSET Int /\ fits # {}
    <3> DEFINE numbers == 0..len
    <3>1. fits \in SUBSET Int /\ fits # {}
      BY <1>1, <1>4
    <3>2. fits \in SUBSET numbers /\ IsFiniteSet(numbers)
      BY <1>4, <2>1
    <3> HIDE DEF numbers
    <3>3. IsFiniteSet(fits)
      BY <3>2, FS_Subset
    <3> QED
      BY <3>1, <3>3
  <2>3. \E n \in fits : \A m \in fits : n >= m
    BY <2>2, GreatestInteger
  <2> QED
    BY <2>3 DEF Q!Max
<1> HIDE DEF kept
<1>7. kept \in 0..len
  BY <1>4, <1>6
<1>8. kept = 0 /\ kept # len => len > 0 /\ size[1] > cap
  BY <1>1, <1>5, <1>6
<1>9. kept # 0 /\ kept # len => kept \in 1..(len - 1)
  BY <1>1, <1>7
<1>10. \/ answer = page
       \/ answer = Bad /\ len > 0 /\ size[1] > cap
       \/ kept \in 1..(len - 1) /\ answer = Shorter(page, kept)
  BY <1>2, <1>8, <1>9
<1> QED
  BY <1>10 DEF answer

\* The page that starts after offset groups.
GapsUpTo(all, offset, answer, e) ==
    /\ offset <= e /\ e <= Len(all) /\ (offset < Len(all) => offset < e)
    /\ answer.groups = SubSeq(all, offset + 1, e)
    /\ answer.next_offset = IF e < Len(all) THEN e ELSE Absent

\* The page is never Bad: two bytes, one group, always fit.
LEMMA GapPage ==
    ASSUME NEW rows, NEW S, Q!group_rows({r \in rows : r.hits <= 0}) \in Seq(S),
           NEW limit \in {1, 3}, NEW cap \in {2, 4},
           NEW offset \in Nat, offset <= Len(Q!group_rows({r \in rows : r.hits <= 0}))
    PROVE \E e \in Nat : GapsUpTo(Q!group_rows({r \in rows : r.hits <= 0}), offset,
                                  Q!bounded(Q!find(rows, limit, offset), [i \in 1..limit |-> 2], cap), e)
<1> DEFINE all == Q!group_rows({r \in rows : r.hits <= 0})
           to == IF offset + limit <= Len(all) THEN offset + limit ELSE Len(all)
           items == SubSeq(all, offset + 1, to)
           found == Q!find(rows, limit, offset)
           size == [i \in 1..limit |-> 2]
           answer == Q!bounded(found, size, cap)
<1>1. all \in Seq(S) /\ Len(all) \in Nat /\ offset <= Len(all)
  OBVIOUS
<1>2. Q!Min({offset + limit, Len(all)}) = to
  <2> HIDE DEF all
  <2>1. offset + limit \in Int /\ Len(all) \in Int
    BY <1>1
  <2> QED
    BY <2>1, LesserOf
<1>3. Q!groups(all, limit, offset) = items
  <2> HIDE DEF all, to
  <2> QED
    BY <1>2 DEF Q!groups
<1>4. /\ found.groups = items /\ found.group_count = Len(all)
      /\ found.next_offset = IF offset + Len(items) < Len(all) THEN offset + Len(items) ELSE Absent
      /\ DOMAIN found = {"groups", "group_count", "next_offset", "status"}
  BY <1>3 DEF Q!find
<1> HIDE DEF all, found, answer, size
<1>5. to \in Nat /\ offset <= to /\ to <= Len(all) /\ (offset < Len(all) => offset < to)
  BY <1>1
<1> HIDE DEF to
<1>6. items \in Seq(S) /\ Len(items) = to - offset
  BY <1>1, <1>5, Part
<1>7. found.next_offset = IF to < Len(all) THEN to ELSE Absent
  <2>1. offset + Len(items) = to
    BY <1>5, <1>6
  <2> QED
    BY <1>4, <2>1
<1> DEFINE end == IF found.next_offset = Absent THEN found.group_count ELSE found.next_offset
<1>8. size[1] = 2 /\ ~(size[1] > cap)
  BY DEF size
<1>9. answer = found \/ \E k \in 1..(Len(found.groups) - 1) : answer = Shorter(found, k)
  <2>1. found.groups \in Seq(S) /\ cap \in Nat /\ size[1] \in Nat
    BY <1>4, <1>6, <1>8
  <2>2. \/ answer = found
        \/ answer = Bad /\ Len(found.groups) > 0 /\ size[1] > cap
        \/ \E k \in 1..(Len(found.groups) - 1) : answer = Shorter(found, k)
    BY <2>1, AnswersAreCut DEF answer
  <2> QED
    BY <1>8, <2>2
<1>10. end = to
  <2>1. \A n \in Int : n # Absent
    BY SentinelsAreNoData
  <2> QED
    BY <1>1, <1>4, <1>5, <1>7, <2>1
<1> HIDE DEF items, end
<1>11. CASE answer = found
  <2>1. GapsUpTo(all, offset, answer, to)
    BY <1>4, <1>5, <1>7, <1>11 DEF GapsUpTo, items
  <2> QED
    BY <1>5, <2>1 DEF all, answer, found, size
<1>12. ASSUME NEW k \in 1..(Len(found.groups) - 1), answer = Shorter(found, k)
       PROVE \E e \in Nat : GapsUpTo(all, offset, answer, e)
  <2>1. k \in 1..(to - offset - 1)
    BY <1>4, <1>6
  <2>2. offset + k \in Nat /\ offset < offset + k /\ offset + k < to /\ offset + k < Len(all)
    BY <1>1, <1>5, <2>1
  <2>3. answer.groups = SubSeq(items, 1, k) /\ answer.next_offset = end - (Len(found.groups) - k)
    BY <1>4, <1>12 DEF Shorter, end
  <2>4. end - (Len(found.groups) - k) = offset + k
    BY <1>4, <1>5, <1>6, <1>10, <2>1
  <2>5. SubSeq(items, 1, k) = SubSeq(all, offset + 1, offset + k)
    BY <1>1, <1>5, <2>1, <2>2 DEF items
  <2>6. GapsUpTo(all, offset, answer, offset + k)
    BY <2>2, <2>3, <2>4, <2>5 DEF GapsUpTo
  <2> QED
    BY <2>2, <2>6
<1> QED
  BY <1>9, <1>11, <1>12 DEF all, answer, found, size

\* The rows of the run: at most eight, with whole numbers.
LEMMA FewGapRows ==
    ASSUME NEW rows \in SUBSET GapRows
    PROVE LET gaps == {r \in rows : r.hits <= 0}
          IN /\ IsFiniteSet(gaps)
             /\ \A r \in gaps : r.path \in Int /\ r.symbol \in Int /\ r.span \in [1..2 -> Int]
<1> DEFINE row(p, s, h) == [path |-> p, symbol |-> s, span |-> <<1, 1>>, kind |-> "lines",
                            arm |-> "", hits |-> h]
           row_of == [i \in 0..7 |-> row(IF i < 4 THEN 1 ELSE 2,
                                        IF i \in {0, 1, 4, 5} THEN 1 ELSE 2,
                                        IF i \in {0, 2, 4, 6} THEN 0 ELSE 1)]
           numbered == {row_of[i] : i \in 0..7}
<1>1. \A r \in GapRows : \E p \in {1, 2}, s \in {1, 2}, h \in {0, 1} : r = row(p, s, h)
  <2> SUFFICES ASSUME NEW r \in GapRows PROVE r = row(r.path, r.symbol, r.hits)
    BY DEF GapRows
  <2>1. r = [path |-> r.path, symbol |-> r.symbol, span |-> r.span, kind |-> r.kind,
             arm |-> r.arm, hits |-> r.hits]
    BY DEF GapRows
  <2>2. r.span = <<1, 1>> /\ r.kind = "lines" /\ r.arm = ""
    BY DEF GapRows
  <2> QED
    BY <2>1, <2>2
<1>2. ASSUME NEW p \in {1, 2}, NEW s \in {1, 2}, NEW h \in {0, 1}
      PROVE \E i \in 0..7 : row(p, s, h) = row_of[i]
  <2> DEFINE i == 4 * (p - 1) + 2 * (s - 1) + h
  <2>1. /\ i \in 0..7 /\ (IF i < 4 THEN 1 ELSE 2) = p
        /\ (IF i \in {0, 1, 4, 5} THEN 1 ELSE 2) = s /\ (IF i \in {0, 2, 4, 6} THEN 0 ELSE 1) = h
    OBVIOUS
  <2> HIDE DEF i, row
  <2>2. row_of[i] = row(p, s, h)
    BY <2>1
  <2> QED
    BY <2>1, <2>2
<1>3. PICK T : row_of \in [0..7 -> T]
  <2>1. row_of \in [0..7 -> numbered]
    <3> HIDE DEF row
    <3> QED
      OBVIOUS
  <2> QED
    BY <2>1
<1> HIDE DEF row_of
<1>4. IsFiniteSet(0..7)
  <2>1. 0 \in Int /\ 7 \in Int
    OBVIOUS
  <2> QED
    BY <2>1, FS_Interval
<1>5. IsFiniteSet(numbered)
  BY <1>3, <1>4, FiniteImage
<1> DEFINE gaps == {r \in rows : r.hits <= 0}
<1>6. gaps \in SUBSET numbered
  <2> HIDE DEF row
  <2>1. \A r \in GapRows : r \in numbered
    BY <1>1, <1>2
  <2> QED
    BY <2>1
<1>7. IsFiniteSet(gaps)
  <2> HIDE DEF numbered, gaps
  <2> QED
    BY <1>5, <1>6, FS_Subset
<1>8. \A p \in {1, 2}, s \in {1, 2}, h \in {0, 1} :
        /\ row(p, s, h).path \in Int /\ row(p, s, h).symbol \in Int
        /\ row(p, s, h).span \in [1..2 -> Int]
  OBVIOUS
<1>9. \A r \in GapRows : r.path \in Int /\ r.symbol \in Int /\ r.span \in [1..2 -> Int]
  <2> HIDE DEF row
  <2> QED
    BY <1>1, <1>8
<1> QED
  BY <1>7, <1>9

\* What the client knows.
GapCases ==
    [kind : {"gaps"}, rows : SUBSET GapRows, offset : Nat \cup {Absent},
     got : Seq({Place(r) : r \in GapRows}), done : BOOLEAN]

\* The offset counts the groups that the client has.
GapsInv ==
    case.kind = "gaps" =>
      LET all == Q!group_rows({r \in case.rows : r.hits <= 0})
      IN /\ case \in GapCases
         /\ Len(case.got) <= Len(all)
         /\ \A i \in DOMAIN case.got : case.got[i] = all[i]
         /\ ~case.done => case.offset = Len(case.got)
         /\ case.done => Len(case.got) = Len(all)

\* The groups of the run's rows.
LEMMA GroupsOfGaps ==
    ASSUME NEW rows \in SUBSET GapRows
    PROVE LET all == Q!group_rows({r \in rows : r.hits <= 0})
          IN all \in Seq({Place(r) : r \in GapRows}) /\ Len(all) \in Nat
<1> DEFINE gaps == {r \in rows : r.hits <= 0}
           all == Q!group_rows(gaps)
           places == {Place(r) : r \in gaps}
           possible == {Place(r) : r \in GapRows}
<1>1. /\ IsFiniteSet(gaps)
      /\ \A r \in gaps : r.path \in Int /\ r.symbol \in Int /\ r.span \in [1..2 -> Int]
  BY FewGapRows
<1>2. places \in SUBSET possible
  OBVIOUS
<1>3. all \in Seq(places)
  <2> HIDE DEF gaps
  <2> QED
    BY <1>1, GapsAreGrouped
<1> HIDE DEF all, places, possible
<1>4. all \in Seq(possible) /\ Len(all) \in Nat
  BY <1>2, <1>3
<1> QED
  BY <1>4 DEF all, possible

\* At first the client has nothing.
LEMMA GapsStarted == StartGaps => GapsInv'
<1> SUFFICES ASSUME StartGaps PROVE GapsInv'
  OBVIOUS
<1>1. PICK rows \in SUBSET GapRows :
        case' = [kind |-> "gaps", rows |-> rows, offset |-> 0, got |-> <<>>, done |-> FALSE]
  BY DEF StartGaps
<1>2. <<>> \in Seq({Place(r) : r \in GapRows}) /\ Len(<<>>) = 0 /\ DOMAIN <<>> = {}
  OBVIOUS
<1>3. case' \in GapCases
  BY <1>1, <1>2 DEF GapCases
<1>4. Len(Q!group_rows({r \in rows : r.hits <= 0})) \in Nat
  BY GroupsOfGaps
<1>5. 0 <= Len(Q!group_rows({r \in rows : r.hits <= 0}))
  BY <1>4
<1> QED
  BY <1>1, <1>2, <1>3, <1>5 DEF GapsInv

\* A page goes on where the groups that the client has end.
LEMMA GapsFetched == GapsInv /\ FetchGaps => GapsInv'
<1> SUFFICES ASSUME GapsInv, FetchGaps PROVE GapsInv'
  OBVIOUS
<1>1. case.kind = "gaps" /\ ~case.done
  BY DEF FetchGaps
<1> DEFINE rows == case.rows
           all == Q!group_rows({r \in rows : r.hits <= 0})
           got == case.got
           places == {Place(r) : r \in GapRows}
           page(limit, cap) == Q!bounded(Q!find(rows, limit, Len(got)), [i \in 1..limit |-> 2], cap)
<1>2. /\ case \in GapCases /\ Len(got) <= Len(all) /\ \A i \in DOMAIN got : got[i] = all[i]
      /\ case.offset = Len(got)
  BY <1>1 DEF GapsInv
<1>3. rows \in SUBSET GapRows /\ got \in Seq(places) /\ Len(got) \in Nat
  BY <1>2 DEF GapCases
<1>4. PICK limit \in {1, 3}, cap \in {2, 4} :
        case' = [case EXCEPT !.offset = page(limit, cap).next_offset,
                             !.got = @ \o page(limit, cap).groups,
                             !.done = page(limit, cap).next_offset = Absent]
  BY <1>2 DEF FetchGaps
<1>5. all \in Seq(places) /\ Len(all) \in Nat
  <2> HIDE DEF rows
  <2> QED
    BY <1>3, GroupsOfGaps
<1> DEFINE answer == page(limit, cap)
<1>6. PICK e \in Nat : GapsUpTo(all, Len(got), answer, e)
  <2> DEFINE offset == Len(got)
  <2> HIDE DEF rows, places
  <2>1. Q!group_rows({r \in rows : r.hits <= 0}) \in Seq(places) /\ offset \in Nat
        /\ offset <= Len(Q!group_rows({r \in rows : r.hits <= 0}))
    BY <1>2, <1>3, <1>5
  <2> HIDE DEF offset
  <2>2. \E e \in Nat : GapsUpTo(Q!group_rows({r \in rows : r.hits <= 0}), offset,
            Q!bounded(Q!find(rows, limit, offset), [i \in 1..limit |-> 2], cap), e)
    BY <2>1, GapPage
  <2> QED
    BY <2>2 DEF offset
<1>7. case' = [case EXCEPT !.offset = answer.next_offset, !.got = got \o answer.groups,
                           !.done = answer.next_offset = Absent]
  BY <1>4
<1> HIDE DEF answer, all, places, page
<1> DEFINE more == answer.groups
           next == answer.next_offset
           now == got \o more
<1>8. /\ Len(got) <= e /\ e <= Len(all) /\ more = SubSeq(all, Len(got) + 1, e)
      /\ next = IF e < Len(all) THEN e ELSE Absent
  BY <1>6 DEF GapsUpTo
<1>9. /\ more \in Seq(places) /\ Len(more) = e - Len(got)
      /\ \A i \in 1..(e - Len(got)) : more[i] = all[Len(got) + i]
  <2> HIDE DEF got, more
  <2> QED
    BY <1>3, <1>5, <1>8, Part
<1>10. now \in Seq(places) /\ Len(now) = e
  <2> HIDE DEF got, more
  <2> QED
    BY <1>3, <1>8, <1>9
<1>11. ASSUME NEW i \in DOMAIN now PROVE now[i] = all[i]
  <2> HIDE DEF got, more
  <2>1. i \in 1..e
    <3> HIDE DEF now
    <3> QED
      BY <1>10
  <2>2. CASE i <= Len(got)
    <3>1. now[i] = got[i] /\ i \in DOMAIN got
      BY <1>3, <1>9, <2>1, <2>2
    <3> QED
      BY <1>2, <3>1
  <2>3. CASE i > Len(got)
    <3>1. now[i] = more[i - Len(got)] /\ i - Len(got) \in 1..(e - Len(got))
          /\ Len(got) + (i - Len(got)) = i
      BY <1>3, <1>8, <1>9, <2>1, <2>3
    <3> QED
      BY <1>9, <3>1
  <2> QED
    BY <1>3, <2>1, <2>2, <2>3
<1>12. next \in Nat \cup {Absent} /\ (next = Absent <=> e = Len(all)) /\ (next # Absent => next = e)
  <2>1. e # Absent
    BY SentinelsAreNoData
  <2> HIDE DEF next
  <2> QED
    BY <1>5, <1>8, <2>1 DEF next
<1>13. case' = [case EXCEPT !.offset = next, !.got = now, !.done = next = Absent]
  BY <1>7
<1>14. now \in Seq(places) /\ Len(now) = e /\ \A i \in DOMAIN now : now[i] = all[i]
  BY <1>10, <1>11
<1> HIDE DEF next, now, rows
<1>15. case' \in GapCases
  BY <1>2, <1>12, <1>13, <1>14 DEF GapCases, places
<1>16. /\ case'.rows = rows /\ case'.got = now /\ case'.offset = next /\ case'.done = (next = Absent)
  BY <1>2, <1>13 DEF GapCases, rows
<1> QED
  BY <1>8, <1>12, <1>14, <1>15, <1>16 DEF GapsInv, all

-----------------------------------------------------------------------------
(* The cases of the run *)

\* Whatever the client pages, its inventory of what it has is kept.
LEMMA PagedStep ==
    ASSUME CaseInv, PagesInv, GroupsInv, GapsInv, [Next]_case
    PROVE PagesInv' /\ GroupsInv' /\ GapsInv'
<1>1. CASE UnpagedCases
  BY <1>1, UnpagedStay DEF PagesInv, GroupsInv, GapsInv
<1>2. CASE MeasuredCases
  BY <1>2, MeasuredStay DEF PagesInv, GroupsInv, GapsInv
<1>3. CASE PagesCases
  <2>1. case'.kind = "pages"
    BY <1>3, PagedStay DEF PagedCases
  <2>2. PagesInv'
    BY <1>3, PagesStarted, PagesFetched, PagesInserted, PagesWithdrawn DEF PagesCases
  <2> QED
    BY <2>1, <2>2 DEF GroupsInv, GapsInv
<1>4. CASE GroupsCases
  <2>1. case'.kind = "groups"
    BY <1>4, PagedStay DEF PagedCases
  <2>2. GroupsInv'
    BY <1>4, GroupsStarted, GroupsFetched DEF GroupsCases
  <2> QED
    BY <2>1, <2>2 DEF PagesInv, GapsInv
<1>5. CASE GapsCases
  <2>1. case'.kind = "gaps"
    BY <1>5, PagedStay DEF PagedCases
  <2>2. GapsInv'
    BY <1>5, GapsStarted, GapsFetched DEF GapsCases
  <2> QED
    BY <2>1, <2>2 DEF PagesInv, GroupsInv
<1>6. CASE UNCHANGED case
  <2>1. PagesInv'
    BY <1>6 DEF PagesInv
  <2>2. GroupsInv'
    BY <1>6 DEF GroupsInv
  <2>3. GapsInv'
    BY <1>6 DEF GapsInv
  <2> QED
    BY <2>1, <2>2, <2>3
<1> QED
  BY <1>1, <1>2, <1>3, <1>4, <1>5, <1>6
     DEF Next, UnpagedCases, MeasuredCases, PagesCases, GroupsCases, GapsCases

\* Whatever is paged, a client that follows the cursors has received every
\* item once and in order: PagesCoverEverything.
THEOREM PagesAreExact == Spec => []PagesCoverEverything
<1> DEFINE PagedInv == PagesInv /\ GroupsInv /\ GapsInv
<1>1. Init => PagedInv
  BY DEF Init, PagesInv, GroupsInv, GapsInv
<1>2. CaseInv /\ PagedInv /\ [Next]_case => PagedInv'
  BY PagedStep
<1>3. PagedInv => PagesCoverEverything
  <2>1. ASSUME PagesInv, case.kind = "pages"
        PROVE /\ \A i, j \in DOMAIN case.got : case.got[i].id = case.got[j].id => i = j
              /\ Follows(case.got, case.start)
              /\ case.done => /\ Follows(case.got, case.list)
                              /\ Ids(case.start) \cap Ids(case.list) \subseteq Ids(case.got)
    BY <2>1 DEF PagesInv, Ordered, Distinct
  <2>2. ASSUME GroupsInv, case.kind = "groups"
        PROVE LET all == D!duplicate_groups(case.seen)
              IN /\ IsPrefix(case.got, [i \in DOMAIN all |->
                                          InOrder(all[i], [n \in all[i] |-> <<n>>])])
                 /\ case.done => Len(case.got) = Len(all)
    <3> DEFINE all == D!duplicate_groups(case.seen)
               lists == [i \in DOMAIN all |-> Members(all[i])]
               got == case.got
    <3>1. /\ case \in GroupCases /\ Len(got) <= Len(all)
          /\ \A i \in DOMAIN got : got[i] = Members(all[i])
          /\ case.done => Len(got) = Len(all)
      BY <2>2 DEF GroupsInv
    <3>2. all \in Seq(SUBSET (1..4))
      <4>1. 4 \in Nat /\ case.seen \in [1..4 -> {{}, {1}, {2}}]
        BY <3>1 DEF GroupCases
      <4> QED
        BY <4>1, DuplicatesAreGrouped
    <3>3. got \in Seq(UNION {Seq(g) : g \in SUBSET (1..4)})
      BY <3>1 DEF GroupCases
    <3> HIDE DEF all, got
    <3>4. lists \in Seq({lists[i] : i \in DOMAIN all}) /\ Len(lists) = Len(all)
      BY <3>2
    <3>5. \A i \in DOMAIN got : got[i] = lists[i]
      BY <3>1, <3>2, <3>3
    <3>6. IsPrefix(got, lists)
      <4> HIDE DEF lists
      <4> QED
        BY <3>1, <3>3, <3>4, <3>5, FirstItems
    <3> QED
      BY <3>1, <3>6 DEF all, got, Members
  <2>3. ASSUME GapsInv, case.kind = "gaps"
        PROVE LET all == Q!group_rows({r \in case.rows : r.hits <= 0})
              IN IsPrefix(case.got, all) /\ (case.done => case.got = all)
    <3> DEFINE rows == case.rows
               all == Q!group_rows({r \in rows : r.hits <= 0})
               got == case.got
               places == {Place(r) : r \in GapRows}
    <3>1. /\ case \in GapCases /\ Len(got) <= Len(all)
          /\ \A i \in DOMAIN got : got[i] = all[i]
          /\ case.done => Len(got) = Len(all)
      BY <2>3 DEF GapsInv
    <3>2. rows \in SUBSET GapRows /\ got \in Seq(places)
      BY <3>1 DEF GapCases
    <3>3. all \in Seq(places)
      <4> HIDE DEF rows
      <4> QED
        BY <3>2, GroupsOfGaps
    <3> HIDE DEF all, got, places
    <3>4. IsPrefix(got, all) /\ (Len(got) = Len(all) => got = all)
      BY <3>1, <3>2, <3>3, FirstItems
    <3> QED
      BY <3>1, <3>4 DEF all, got, rows
  <2> QED
    BY <2>1, <2>2, <2>3 DEF PagesCoverEverything
<1> HIDE DEF PagedInv
<1> QED
  BY <1>1, <1>2, <1>3, CasesAreMeasured, PTL DEF Spec
=============================================================================
