----------------------------- MODULE UnionProofs -----------------------------
(***************************************************************************)
(* The union of a baseline with any number of incremental runs, and its    *)
(* diff: UnionIsSound.  Reports of a path that are sound are united        *)
(* soundly, whatever they list.                                            *)
(***************************************************************************)
EXTENDS AlgorithmsProofs

-----------------------------------------------------------------------------
(* Parts and places *)

\* The elements of some parts, and as many places as they have sizes.
AllOf(X, part) == UNION {part[x] : x \in X}
PlacesOf(X, size) == UNION {{x} \X (1..size[x]) : x \in X}

\* A union has no more elements than its parts together.
LEMMA ManyParts ==
    ASSUME NEW X, IsFiniteSet(X), NEW size \in [X -> Nat], NEW T, NEW part \in [X -> SUBSET T],
           \A x \in X : IsFiniteSet(part[x]) /\ Cardinality(part[x]) <= size[x]
    PROVE /\ IsFiniteSet(PlacesOf(X, size)) /\ IsFiniteSet(AllOf(X, part))
          /\ Cardinality(AllOf(X, part)) <= Cardinality(PlacesOf(X, size))
          /\ \A x \in X : size[x] <= Cardinality(PlacesOf(X, size))
<1> DEFINE place == [x \in X |-> {x} \X (1..size[x])]
           places == UNION {place[x] : x \in X}
           all == UNION {part[x] : x \in X}
<1>1. ASSUME NEW x \in X PROVE IsFiniteSet(place[x]) /\ Cardinality(place[x]) = size[x]
  <2>1. size[x] \in Nat
    OBVIOUS
  <2>2. IsFiniteSet({x}) /\ Cardinality({x}) = 1
    BY FS_Singleton
  <2>3. IsFiniteSet(1..size[x]) /\ Cardinality(1..size[x]) = size[x]
    BY <2>1, PositionCount
  <2>4. IsFiniteSet({x} \X (1..size[x]))
        /\ Cardinality({x} \X (1..size[x])) = Cardinality({x}) * Cardinality(1..size[x])
    BY <2>2, <2>3, FS_Product
  <2> QED
    BY <2>1, <2>2, <2>3, <2>4
<1>2. IsFiniteSet(places)
  <2>1. PICK C : place \in [X -> C]
    <3> DEFINE C == {place[x] : x \in X}
    <3>1. place = [x \in X |-> place[x]]
      OBVIOUS
    <3>2. \A x \in X : place[x] \in C
      OBVIOUS
    <3> HIDE DEF place
    <3>3. place \in [X -> C]
      BY <3>1, <3>2
    <3> QED
      BY <3>3
  <2> HIDE DEF place
  <2>2. IsFiniteSet({place[x] : x \in X})
    BY <2>1, FiniteImage
  <2> QED
    BY <1>1, <2>2, FS_UNION
<1>3. IsFiniteSet(all)
  <2>1. IsFiniteSet({part[x] : x \in X})
    BY FiniteImage
  <2> QED
    BY <2>1, FS_UNION
<1>4. \A x \in X : \E h : h \in [part[x] -> 1..size[x]] /\ \A e, f \in part[x] : h[e] = h[f] => e = f
  <2> SUFFICES ASSUME NEW x \in X
               PROVE \E h : h \in [part[x] -> 1..size[x]]
                            /\ \A e, f \in part[x] : h[e] = h[f] => e = f
    OBVIOUS
  <2> DEFINE n == Cardinality(part[x])
  <2>1. n \in Nat /\ ExistsBijection(1..n, part[x])
    BY FS_CardinalityType
  <2>2. PICK b : b \in [1..n -> part[x]] /\ \A e \in part[x] : \E i \in 1..n : b[i] = e
    BY <2>1 DEF ExistsBijection, Bijection, Surjection
  <2> DEFINE h == [e \in part[x] |-> CHOOSE i \in 1..n : b[i] = e]
  <2>3. \A e \in part[x] : h[e] \in 1..n /\ b[h[e]] = e
    BY <2>2
  <2>4. n <= size[x] /\ size[x] \in Nat
    OBVIOUS
  <2>5. h = [e \in part[x] |-> h[e]]
    OBVIOUS
  <2> HIDE DEF h, n
  <2>6. \A e \in part[x] : h[e] \in 1..size[x]
    BY <2>1, <2>3, <2>4
  <2>7. h \in [part[x] -> 1..size[x]]
    BY <2>5, <2>6
  <2>8. \A e, f \in part[x] : h[e] = h[f] => e = f
    BY <2>3
  <2> QED
    BY <2>7, <2>8
<1>5. PICK number : \A x \in X : /\ number[x] \in [part[x] -> 1..size[x]]
                                  /\ \A e, f \in part[x] : number[x][e] = number[x][f] => e = f
  <2> DEFINE Numbers(x, h) == /\ h \in [part[x] -> 1..size[x]]
                              /\ \A e, f \in part[x] : h[e] = h[f] => e = f
             number == [x \in X |-> CHOOSE h : Numbers(x, h)]
  <2>1. \A x \in X : \E h : Numbers(x, h)
    BY <1>4
  <2> HIDE DEF Numbers
  <2>2. \A x \in X : Numbers(x, number[x])
    BY <2>1
  <2> HIDE DEF number
  <2> QED
    BY <2>2 DEF Numbers
<1>6. PICK owner : \A e \in all : owner[e] \in X /\ e \in part[owner[e]]
  <2> DEFINE owner == [e \in all |-> CHOOSE x \in X : e \in part[x]]
  <2>1. \A e \in all : owner[e] \in X /\ e \in part[owner[e]]
    OBVIOUS
  <2> HIDE DEF owner
  <2> QED
    BY <2>1
<1> DEFINE at == [e \in all |-> <<owner[e], number[owner[e]][e]>>]
<1>7. \A e \in all : at[e] = <<owner[e], number[owner[e]][e]>>
  OBVIOUS
<1>8. at = [e \in all |-> at[e]]
  OBVIOUS
<1>9. Cardinality(all) <= Cardinality(places)
  <2> HIDE DEF at
  <2>1. \A e \in all : at[e] \in place[owner[e]]
    <3> SUFFICES ASSUME NEW e \in all PROVE at[e] \in place[owner[e]]
      OBVIOUS
    <3>1. owner[e] \in X /\ number[owner[e]][e] \in 1..size[owner[e]]
      BY <1>5, <1>6
    <3>2. place[owner[e]] = {owner[e]} \X (1..size[owner[e]])
      BY <3>1
    <3>3. at[e] = <<owner[e], number[owner[e]][e]>>
      BY <1>7
    <3> HIDE DEF place, at
    <3> QED
      BY <3>1, <3>2, <3>3
  <2>2. \A e \in all : at[e] \in places
    <3> HIDE DEF place
    <3> QED
      BY <2>1, <1>6
  <2>3. \A e, f \in all : at[e] = at[f] => e = f
    <3> SUFFICES ASSUME NEW e \in all, NEW f \in all, at[e] = at[f] PROVE e = f
      OBVIOUS
    <3>1. owner[e] = owner[f] /\ number[owner[e]][e] = number[owner[e]][f]
      BY <1>7
    <3> QED
      BY <3>1, <1>5, <1>6
  <2> HIDE DEF all, places
  <2>4. at \in Injection(all, places)
    BY <1>8, <2>2, <2>3 DEF Injection, IsInjective
  <2> QED
    BY <2>4, <1>2, FS_Injection
<1>10. \A x \in X : size[x] <= Cardinality(places)
  <2> SUFFICES ASSUME NEW x \in X PROVE size[x] <= Cardinality(places)
    OBVIOUS
  <2>1. place[x] \in SUBSET places
    OBVIOUS
  <2> HIDE DEF places, place
  <2> QED
    BY <1>1, <1>2, <2>1, FS_Subset
<1>11. places = PlacesOf(X, size) /\ all = AllOf(X, part)
  BY DEF PlacesOf, AllOf
<1> HIDE DEF places, all
<1> QED
  BY <1>2, <1>3, <1>9, <1>10, <1>11

\* Places in their own order.
LEMMA PlacesInOrder ==
    ASSUME NEW n \in Nat PROVE InOrder(1..n, [i \in 1..n |-> <<i>>]) = [i \in 1..n |-> i]
<1> DEFINE key == [i \in 1..n |-> <<i>>]
           before(x) == {y \in 1..n : Less(key[y], key[x])}
<1>1. ASSUME NEW x \in 1..n, NEW y \in 1..n PROVE Less(key[y], key[x]) <=> y < x
  <2>1. key[y] = <<y>> /\ key[x] = <<x>>
    OBVIOUS
  <2> HIDE DEF key
  <2>2. Less(<<y>>, <<x>>) <=> y < x
    <3>1. /\ DOMAIN <<y>> = {1} /\ <<y>>[1] = y /\ <<x>>[1] = x
          /\ \A j \in 1..(1 - 1) : <<y>>[j] = <<x>>[j]
      OBVIOUS
    <3>2. Less(<<y>>, <<x>>) <=>
            \E i \in {1} : <<y>>[i] < <<x>>[i] /\ \A j \in 1..(i - 1) : <<y>>[j] = <<x>>[j]
      BY <3>1 DEF Less
    <3> QED
      BY <3>1, <3>2
  <2> QED
    BY <2>1, <2>2
<1>2. ASSUME NEW x \in 1..n PROVE Cardinality(before(x)) = x - 1
  <2> HIDE DEF key
  <2>1. before(x) = {y \in 1..n : y < x}
    BY <1>1
  <2>2. {y \in 1..n : y < x} = 1..(x - 1) /\ x - 1 \in Nat
    OBVIOUS
  <2>3. Cardinality(1..(x - 1)) = x - 1
    BY <2>2, PositionCount
  <2> QED
    BY <2>1, <2>2, <2>3
<1>3. \A i \in 1..n : (CHOOSE x \in 1..n : Cardinality(before(x)) = i - 1) = i
  <2> HIDE DEF before
  <2> QED
    BY <1>2
<1>4. Cardinality(1..n) = n
  BY PositionCount
<1> QED
  BY <1>3, <1>4 DEF InOrder

-----------------------------------------------------------------------------
(* Unions                                                                   *)

\* What the reports of one path should be: whole numbers, no more covered than
\* there is; at least as many lines as are listed; covered rows count; and
\* named units, where there are as many as the report counts, that give the
\* covered number too.
SoundReport(s, path) ==
    /\ IsFiniteSet(DOMAIN s.lines)
    /\ s.files[path] # Absent
    /\ \A m \in V!C!Metrics :
         /\ s.files[path][m].covered \in Nat /\ s.files[path][m].total \in Nat
         /\ s.files[path][m].covered <= s.files[path][m].total
    /\ Cardinality(V!C!Counted(path, s.lines)) <= s.files[path]["lines"].total
    /\ \A k \in DOMAIN s.lines : k[1] = path /\ s.lines[k].covered => s.lines[k].count_line
    /\ \A m \in V!C!Metrics \ {"lines"} :
         LET units == V!C!coverage_units(path, s.files[path], m)
         IN IF units = Absent THEN s.files[path][m].total = 0 => s.files[path][m].covered = 0
            ELSE /\ IsFiniteSet(units.total) /\ units.covered \subseteq units.total
                 /\ Cardinality(units.total) = s.files[path][m].total
                      => Cardinality(units.covered) = s.files[path][m].covered

\* The modules count alike.
LEMMA SameCounts == \A T : V!C!Cardinality(T) = Cardinality(T)
  BY DEF V!C!Cardinality, Cardinality

\* The largest of some numbers, and 0.
LEMMA LargestCount ==
    ASSUME NEW T \in SUBSET Nat, IsFiniteSet(T)
    PROVE /\ V!C!Largest(T) \in {0} \cup T
          /\ \A n \in T : n <= V!C!Largest(T)
<1>1. {0} \cup T \in SUBSET Int /\ {0} \cup T # {}
  OBVIOUS
<1>2. IsFiniteSet({0} \cup T)
  BY FS_AddElement
<1>3. \E x \in {0} \cup T : \A m \in {0} \cup T : x >= m
  BY <1>1, <1>2, GreatestInteger
<1> DEFINE Greatest(x) == \A m \in {0} \cup T : x >= m
           l == V!C!Largest(T)
<1>4. l = CHOOSE x \in {0} \cup T : Greatest(x)
  BY DEF V!C!Largest, V!C!Max
<1>5. \E x \in {0} \cup T : Greatest(x)
  BY <1>3
<1>6. l \in {0} \cup T /\ Greatest(l)
  <2> HIDE DEF Greatest, l
  <2> QED
    BY <1>4, <1>5
<1> HIDE DEF l
<1>7. \A n \in T : n <= l
  BY <1>1, <1>6
<1> QED
  BY <1>6, <1>7 DEF l

\* A metric of a union before or after it is bounded by the totals.
Merges(m) ==
    /\ m = [total |-> m.total, covered |-> m.covered, newly_covered |-> m.newly_covered,
            exact |-> m.exact]
    /\ m.total \in Nat /\ m.covered \in Nat /\ m.covered <= m.total

\* Files that give as many covered as there are, or fewer.
SoundFiles(files, metric) ==
    /\ IsFiniteSet(files)
    /\ \A f \in files : LET n == V!C!file_metric(f, metric)
                      IN n[1] \in Nat /\ n[2] \in Nat /\ n[1] <= n[2]

\* The totals of the files bound it from below, and one of them is it.
Bounds(b, merge, files, metric) ==
    /\ Merges(b) /\ b.newly_covered = merge.newly_covered /\ b.exact = merge.exact
    /\ merge.total <= b.total
    /\ \A f \in files : /\ V!C!file_metric(f, metric)[1] <= b.covered
                        /\ V!C!file_metric(f, metric)[2] <= b.total
    /\ \/ b.total \in {0, merge.total}
       \/ \E f \in files : b.total = V!C!file_metric(f, metric)[2]

\* union_file_metric_many of src/storage.rs keeps to these bounds whatever it
\* falls back to.
LEMMA FallbackBounds ==
    ASSUME NEW merge, Merges(merge), NEW bf, NEW files, NEW metric,
           SoundFiles({bf} \cup V!C!Range(files), metric)
    PROVE Bounds(V!C!Fallback(merge, bf, files, metric), merge, {bf} \cup V!C!Range(files), metric)
<1> DEFINE all == {bf} \cup V!C!Range(files)
           number == [f \in all |-> V!C!file_metric(f, metric)]
           first == [f \in all |-> number[f][1]]
           second == [f \in all |-> number[f][2]]
           totals == {merge.total} \cup {second[f] : f \in all}
           covered == {merge.covered} \cup {first[f] : f \in all}
           total == V!C!Largest(totals)
           most == V!C!Largest(covered)
           b == V!C!Fallback(merge, bf, files, metric)
<1>1. /\ IsFiniteSet(all)
      /\ \A f \in all : first[f] \in Nat /\ second[f] \in Nat /\ first[f] <= second[f]
  BY DEF SoundFiles
<1>2. first \in [all -> Nat] /\ second \in [all -> Nat]
  BY <1>1
<1>3. /\ totals = {merge.total} \cup {V!C!file_metric(f, metric)[2] : f \in all}
      /\ covered = {merge.covered} \cup {V!C!file_metric(f, metric)[1] : f \in all}
  OBVIOUS
<1>4. b = [merge EXCEPT !.total = total, !.covered = V!C!Min({total, most})]
  BY <1>3 DEF V!C!Fallback
<1>5. \A f \in all : /\ first[f] = V!C!file_metric(f, metric)[1]
                     /\ second[f] = V!C!file_metric(f, metric)[2]
  OBVIOUS
<1> HIDE DEF first, second, number, b
<1>6. IsFiniteSet(totals) /\ IsFiniteSet(covered)
  <2> HIDE DEF all
  <2>1. IsFiniteSet({first[f] : f \in all}) /\ IsFiniteSet({second[f] : f \in all})
    BY <1>1, <1>2, FiniteImage
  <2> QED
    BY <2>1, FS_Singleton, FS_Union
<1>7. totals \in SUBSET Nat /\ covered \in SUBSET Nat
  BY <1>2 DEF Merges
<1>8. /\ total \in {0} \cup totals /\ \A n \in totals : n <= total
      /\ most \in {0} \cup covered /\ \A n \in covered : n <= most
  <2> HIDE DEF totals, covered
  <2> QED
    BY <1>6, <1>7, LargestCount
<1>9. most <= total
  <2>1. /\ merge.covered \in Nat /\ merge.total \in Nat /\ merge.covered <= merge.total
        /\ merge.total <= total /\ total \in Nat
    BY <1>7, <1>8 DEF Merges
  <2>2. \A f \in all : first[f] \in Nat /\ second[f] \in Nat /\ first[f] <= second[f]
                       /\ second[f] <= total
    BY <1>1, <1>2, <1>8
  <2>3. most = 0 \/ most = merge.covered \/ \E f \in all : most = first[f]
    BY <1>8
  <2> HIDE DEF total, most, all
  <2> QED
    BY <2>1, <2>2, <2>3
<1>10. total \in Nat /\ most \in Nat
  BY <1>7, <1>8
<1> HIDE DEF total, most
<1>11. V!C!Min({total, most}) = most
  BY <1>9, <1>10 DEF V!C!Min
<1>12. /\ b = [total |-> total, covered |-> most, newly_covered |-> merge.newly_covered,
               exact |-> merge.exact]
  BY <1>4, <1>11 DEF Merges
<1>13. Merges(b) /\ b.newly_covered = merge.newly_covered /\ b.exact = merge.exact
  BY <1>9, <1>10, <1>12 DEF Merges
<1>14. merge.total <= b.total
  BY <1>8, <1>12
<1>15. \A f \in all : first[f] <= b.covered /\ second[f] <= b.total
  BY <1>8, <1>12
<1>16. b.total \in {0, merge.total} \/ \E f \in all : b.total = second[f]
  BY <1>8, <1>12
<1> HIDE DEF all
<1>17. /\ \A f \in all : /\ V!C!file_metric(f, metric)[1] <= b.covered
                         /\ V!C!file_metric(f, metric)[2] <= b.total
       /\ b.total \in {0, merge.total} \/ \E f \in all : b.total = V!C!file_metric(f, metric)[2]
  BY <1>5, <1>15, <1>16
<1> QED
  BY <1>13, <1>14, <1>17 DEF b, all, Bounds

\* The runs of a union, by path: their lines and their files.
Maps(currents) == [i \in DOMAIN currents |-> currents[i].lines]
Files(currents, path) == [i \in DOMAIN currents |-> currents[i].files[path]]

\* The baseline and the runs.
Reports(baseline, currents) == {baseline} \cup {currents[i] : i \in DOMAIN currents}

\* As many places as the reports have units.
UnitPlaces(reports, path, m) == UNION {{s} \X (1..s.files[path][m].total) : s \in reports}

\* What the union of one metric should be, for all its reports.
UnitesCounts(union, baseline, reports, path, m) ==
    /\ Merges(union)
    /\ \A s \in reports : /\ s.files[path][m].covered <= union.covered
                          /\ s.files[path][m].total <= union.total
    /\ union.total <= Cardinality(UnitPlaces(reports, path, m))
    /\ union.exact => union.covered = baseline.files[path][m].covered + union.newly_covered

\* Finitely many reports, and what their files say of a metric.
FilesOfReports(baseline, currents, path, m) ==
    LET reports == Reports(baseline, currents)
        files == {baseline.files[path]} \cup V!C!Range(Files(currents, path))
    IN /\ IsFiniteSet(reports)
       /\ files = {s.files[path] : s \in reports}
       /\ SoundFiles(files, m)
       /\ \A s \in reports :
            V!C!file_metric(s.files[path], m) = <<s.files[path][m].covered, s.files[path][m].total>>

\* They are the files of the reports, of any number of currents.
LEMMA ReportNumbers ==
    ASSUME NEW path, NEW baseline, NEW S, NEW currents \in Seq(S), NEW m \in V!C!Metrics,
           \A s \in Reports(baseline, currents) : SoundReport(s, path)
    PROVE FilesOfReports(baseline, currents, path, m)
<1> DEFINE reports == Reports(baseline, currents)
           file == [s \in reports |-> s.files[path]]
           files == {baseline.files[path]} \cup V!C!Range(Files(currents, path))
<1>1. IsFiniteSet(reports)
  <2>1. DOMAIN currents = 1..Len(currents) /\ Len(currents) \in Nat
    OBVIOUS
  <2>2. IsFiniteSet(DOMAIN currents)
    BY <2>1, PositionCount
  <2>3. currents \in [DOMAIN currents -> S]
    BY <2>1
  <2>4. IsFiniteSet({currents[i] : i \in DOMAIN currents})
    BY <2>2, <2>3, FiniteImage
  <2> QED
    BY <2>4, FS_Singleton, FS_Union DEF Reports
<1>2. files = {s.files[path] : s \in reports}
  BY DEF V!C!Range, Files, Reports
<1>3. file \in [reports -> {s.files[path] : s \in reports}]
      /\ {file[s] : s \in reports} = {s.files[path] : s \in reports}
  OBVIOUS
<1>4. IsFiniteSet(files)
  <2> HIDE DEF files, file, reports
  <2>1. PICK T : file \in [reports -> T]
    BY <1>3
  <2>2. IsFiniteSet({file[s] : s \in reports})
    BY <1>1, <2>1, FiniteImage
  <2> QED
    BY <1>2, <1>3, <2>2
<1>5. ASSUME NEW s \in reports
      PROVE /\ V!C!file_metric(s.files[path], m) = <<s.files[path][m].covered,
                                                     s.files[path][m].total>>
            /\ s.files[path][m].covered \in Nat /\ s.files[path][m].total \in Nat
            /\ s.files[path][m].covered <= s.files[path][m].total
  BY DEF V!C!file_metric, SoundReport
<1>6. ASSUME NEW f \in files
      PROVE LET n == V!C!file_metric(f, m) IN n[1] \in Nat /\ n[2] \in Nat /\ n[1] <= n[2]
  <2>1. PICK s \in reports : f = s.files[path]
    BY <1>2
  <2> HIDE DEF files, reports
  <2> QED
    BY <1>5, <2>1
<1> QED
  BY <1>1, <1>2, <1>4, <1>5, <1>6 DEF FilesOfReports, SoundFiles

\* They are finitely many, and no report has more units.
LEMMA PlacesAreMany ==
    ASSUME NEW reports, IsFiniteSet(reports), NEW path, NEW m,
           \A s \in reports : s.files[path][m].total \in Nat
    PROVE /\ IsFiniteSet(UnitPlaces(reports, path, m))
          /\ \A s \in reports : s.files[path][m].total <= Cardinality(UnitPlaces(reports, path, m))
<1> DEFINE size == [s \in reports |-> s.files[path][m].total]
           none == [s \in reports |-> {}]
<1>1. size \in [reports -> Nat] /\ none \in [reports -> SUBSET {}]
  OBVIOUS
<1>2. \A s \in reports : IsFiniteSet(none[s]) /\ Cardinality(none[s]) <= size[s]
  BY FS_EmptySet
<1>3. \A s \in reports : size[s] = s.files[path][m].total
  OBVIOUS
<1> HIDE DEF size, none
<1>4. /\ IsFiniteSet(PlacesOf(reports, size))
      /\ \A s \in reports : size[s] <= Cardinality(PlacesOf(reports, size))
  BY <1>1, <1>2, ManyParts
<1>5. UnitPlaces(reports, path, m) = PlacesOf(reports, size)
  BY <1>3 DEF UnitPlaces, PlacesOf
<1> QED
  BY <1>3, <1>4, <1>5

\* union_line_metric_many of src/storage.rs: the lines of a file in a baseline
\* and any number of runs.
LEMMA LinesAreUnited ==
    ASSUME NEW path, NEW baseline, NEW S, NEW currents \in Seq(S),
           \A s \in Reports(baseline, currents) : SoundReport(s, path)
    PROVE UnitesCounts(V!C!union_line_metric_many(path, baseline.lines, Maps(currents),
                                                  baseline.files[path], Files(currents, path)),
                       baseline, Reports(baseline, currents), path, "lines")
<1> DEFINE reports == Reports(baseline, currents)
           size == [s \in reports |-> s.files[path]["lines"].total]
           counted == [s \in reports |-> V!C!Counted(path, s.lines)]
           places == UNION {{s} \X (1..size[s]) : s \in reports}
           maps == Maps(currents)
           files == Files(currents, path)
           before == baseline.lines
           keys == V!C!Counted(path, before) \cup UNION {V!C!Counted(path, c) : c \in V!C!Range(maps)}
           was == V!C!CoveredOf(before, keys)
           now == UNION {V!C!CoveredOf(c, keys) : c \in V!C!Range(maps)}
           merge == [total |-> V!C!Cardinality(keys), covered |-> V!C!Cardinality(was \cup now),
                     newly_covered |-> V!C!Cardinality(now \ was), exact |-> TRUE]
           complete ==
             /\ V!C!line_detail_matches_file_summary(path, before, baseline.files[path])
             /\ files # <<>> =>
                  /\ Len(files) = Len(maps)
                  /\ \A i \in DOMAIN files :
                       V!C!line_detail_matches_file_summary(path, maps[i], files[i])
           bounded == V!C!Fallback(merge, baseline.files[path], files, "lines")
           union == V!C!union_line_metric_many(path, before, maps, baseline.files[path], files)
           sparse == [bounded EXCEPT !.exact = FALSE]
           rowless == [bounded EXCEPT !.exact = (bounded.total = 0)]
<1>1. "lines" \in V!C!Metrics
  BY DEF V!C!Metrics
<1>2. /\ keys # {} /\ complete => union = merge
      /\ keys # {} /\ ~complete => union = sparse
      /\ keys = {} => union = rowless
  <2>1. union = IF keys = {} THEN rowless ELSE IF complete THEN merge ELSE sparse
    BY DEF V!C!union_line_metric_many
  <2> HIDE DEF union, keys, complete, merge, bounded, sparse, rowless
  <2> QED
    BY <2>1
<1>3. /\ V!C!Range(maps) = {currents[i].lines : i \in DOMAIN currents}
      /\ maps = [i \in DOMAIN currents |-> currents[i].lines]
  BY DEF V!C!Range, Maps
<1>4. keys = UNION {counted[s] : s \in reports}
  <2>1. /\ \A c \in V!C!Range(maps) : \E s \in reports : c = s.lines
        /\ \A s \in reports : s = baseline \/ s.lines \in V!C!Range(maps)
        /\ baseline \in reports /\ \A s \in reports : counted[s] = V!C!Counted(path, s.lines)
    BY <1>3 DEF Reports
  <2> HIDE DEF maps, reports, counted
  <2>2. ASSUME NEW k PROVE (k \in keys) <=> (\E s \in reports : k \in counted[s])
    BY <2>1
  <2> HIDE DEF keys
  <2> QED
    BY <2>2
<1>5. \A s \in reports : size[s] \in Nat /\ IsFiniteSet(counted[s])
                         /\ Cardinality(counted[s]) <= size[s]
  <2> SUFFICES ASSUME NEW s \in reports
               PROVE size[s] \in Nat /\ IsFiniteSet(counted[s])
                     /\ Cardinality(counted[s]) <= size[s]
    OBVIOUS
  <2>1. /\ s.files[path]["lines"].total \in Nat /\ IsFiniteSet(DOMAIN s.lines)
        /\ Cardinality(V!C!Counted(path, s.lines)) <= s.files[path]["lines"].total
    BY <1>1 DEF SoundReport
  <2>2. IsFiniteSet(V!C!Counted(path, s.lines))
    BY <2>1, FS_Subset DEF V!C!Counted
  <2> QED
    BY <2>1, <2>2
<1>6. FilesOfReports(baseline, currents, path, "lines") /\ IsFiniteSet(reports)
  <2>1. FilesOfReports(baseline, currents, path, "lines")
    BY <1>1, ReportNumbers
  <2> QED
    BY <2>1 DEF FilesOfReports
<1>7. /\ IsFiniteSet(keys) /\ IsFiniteSet(places) /\ Cardinality(keys) <= Cardinality(places)
      /\ \A s \in reports : size[s] <= Cardinality(places)
  <2>1. \A s \in reports : counted[s] \subseteq keys
    BY <1>4
  <2>2. counted = [s \in reports |-> counted[s]] /\ size = [s \in reports |-> size[s]]
    OBVIOUS
  <2> HIDE DEF counted, size, keys, reports
  <2>3. counted \in [reports -> SUBSET keys] /\ size \in [reports -> Nat]
    BY <1>5, <2>1, <2>2
  <2>4. /\ IsFiniteSet(PlacesOf(reports, size)) /\ IsFiniteSet(AllOf(reports, counted))
        /\ Cardinality(AllOf(reports, counted)) <= Cardinality(PlacesOf(reports, size))
        /\ \A s \in reports : size[s] <= Cardinality(PlacesOf(reports, size))
    BY <1>5, <1>6, <2>3, ManyParts
  <2>5. places = PlacesOf(reports, size) /\ keys = AllOf(reports, counted)
    BY <1>4 DEF PlacesOf, AllOf
  <2> QED
    BY <2>4, <2>5
<1>8. /\ was \subseteq keys /\ now \subseteq keys
      /\ was = {k \in keys : k \in DOMAIN before /\ before[k].covered}
  BY DEF V!C!CoveredOf
<1>9. /\ merge.total = Cardinality(keys) /\ merge.covered = Cardinality(was \cup now)
      /\ merge.newly_covered = Cardinality(now \ was) /\ merge.exact = TRUE
  BY SameCounts
<1>10. /\ Merges(merge)
       /\ Cardinality(was) \in Nat /\ Cardinality(now \ was) \in Nat
       /\ Cardinality(was \cup now) = Cardinality(was) + Cardinality(now \ was)
  <2>1. /\ merge = [total |-> merge.total, covered |-> merge.covered,
                    newly_covered |-> merge.newly_covered, exact |-> merge.exact]
    OBVIOUS
  <2> HIDE DEF merge, keys, was, now
  <2>2. /\ IsFiniteSet(was) /\ IsFiniteSet(now) /\ was \cup now \in SUBSET keys
    BY <1>7, <1>8, FS_Subset
  <2>3. IsFiniteSet(now \ was) /\ was \cup now = was \cup (now \ was) /\ was \cap (now \ was) = {}
    BY <2>2, FS_Difference
  <2>4. /\ Cardinality(was \cup now) = Cardinality(was) + Cardinality(now \ was) - Cardinality({})
    BY <2>2, <2>3, FS_Union
  <2>5. /\ Cardinality(was) \in Nat /\ Cardinality(now \ was) \in Nat /\ Cardinality({}) = 0
        /\ Cardinality(keys) \in Nat /\ Cardinality(was \cup now) \in Nat
        /\ Cardinality(was \cup now) <= Cardinality(keys)
    BY <1>7, <2>2, <2>3, FS_CardinalityType, FS_EmptySet, FS_Subset, FS_Union
  <2> QED
    BY <1>9, <2>1, <2>4, <2>5 DEF Merges
<1> DEFINE all == {baseline.files[path]} \cup V!C!Range(files)
<1>11. /\ Merges(bounded) /\ bounded.newly_covered = merge.newly_covered
       /\ merge.total <= bounded.total
       /\ \A s \in reports : /\ s.files[path]["lines"].covered <= bounded.covered
                             /\ s.files[path]["lines"].total <= bounded.total
       /\ \/ bounded.total \in {0, merge.total}
          \/ \E s \in reports : bounded.total = s.files[path]["lines"].total
  <2>2. SoundFiles(all, "lines") /\ all = {s.files[path] : s \in reports}
    BY <1>6 DEF FilesOfReports
  <2>3. Bounds(bounded, merge, all, "lines")
    <3> HIDE DEF merge, files
    <3> QED
      BY <1>10, <2>2, FallbackBounds
  <2>4. \A s \in reports :
          V!C!file_metric(s.files[path], "lines") = <<s.files[path]["lines"].covered,
                                                      s.files[path]["lines"].total>>
    BY <1>6 DEF FilesOfReports
  <2> HIDE DEF bounded, all, reports, merge
  <2> QED
    BY <2>2, <2>3, <2>4 DEF Bounds
<1>12. ASSUME complete, NEW s \in reports
       PROVE /\ s.files[path]["lines"].total = Cardinality(counted[s])
             /\ s.files[path]["lines"].covered
                  = Cardinality(V!C!CoveredOf(s.lines, V!C!Counted(path, s.lines)))
  <2>1. V!C!line_detail_matches_file_summary(path, s.lines, s.files[path])
    <3>1. CASE s = baseline
      BY <1>12, <3>1
    <3>2. CASE s # baseline
      <4>1. PICK i \in DOMAIN currents : s = currents[i]
        BY <3>2 DEF Reports
      <4>2. files # <<>> /\ i \in DOMAIN files /\ files[i] = s.files[path] /\ maps[i] = s.lines
        BY <4>1 DEF Files, Maps
      <4> QED
        BY <1>12, <4>2
    <3> QED
      BY <3>1, <3>2
  <2>2. s.files[path] # Absent
    BY DEF SoundReport
  <2>3. V!C!file_metric(s.files[path], "lines") = <<s.files[path]["lines"].covered,
                                                    s.files[path]["lines"].total>>
    BY <1>6 DEF FilesOfReports
  <2> QED
    BY <2>1, <2>2, <2>3, SameCounts DEF V!C!line_detail_matches_file_summary
<1>13. \A s \in reports : V!C!CoveredOf(s.lines, V!C!Counted(path, s.lines)) \subseteq was \cup now
  <2> SUFFICES ASSUME NEW s \in reports
               PROVE V!C!CoveredOf(s.lines, V!C!Counted(path, s.lines)) \subseteq was \cup now
    OBVIOUS
  <2>1. V!C!Counted(path, s.lines) \subseteq keys
    BY <1>4
  <2>2. s = baseline \/ s.lines \in V!C!Range(maps)
    BY <1>3 DEF Reports
  <2> HIDE DEF keys
  <2> QED
    BY <2>1, <2>2 DEF V!C!CoveredOf
<1>14. was = V!C!CoveredOf(before, V!C!Counted(path, before))
  <2>1. /\ baseline \in reports
        /\ \A k \in DOMAIN before : k[1] = path /\ before[k].covered => before[k].count_line
    BY DEF Reports, SoundReport
  <2>2. \A k \in keys : k[1] = path
    BY DEF V!C!Counted
  <2>3. V!C!Counted(path, before) \subseteq keys
    OBVIOUS
  <2> HIDE DEF keys
  <2> QED
    BY <1>8, <2>1, <2>2, <2>3 DEF V!C!CoveredOf, V!C!Counted
<1>15. /\ places = UnitPlaces(reports, path, "lines")
       /\ \A s \in reports : size[s] = s.files[path]["lines"].total
  <2> HIDE DEF reports
  <2> QED
    BY DEF UnitPlaces
<1>16. baseline \in reports
  BY DEF Reports
<1> SUFFICES UnitesCounts(union, baseline, reports, path, "lines")
  OBVIOUS
<1> HIDE DEF merge, bounded, union, complete, keys, was, now, places, counted, maps, files, all,
             size, sparse, rowless, reports
<1>17. CASE keys # {} /\ complete
  <2>1. union = merge
    BY <1>2, <1>17
  <2>2. ASSUME NEW s \in reports
        PROVE /\ s.files[path]["lines"].covered <= merge.covered
              /\ s.files[path]["lines"].total <= merge.total
    <3>1. /\ s.files[path]["lines"].total = Cardinality(counted[s])
          /\ s.files[path]["lines"].covered
               = Cardinality(V!C!CoveredOf(s.lines, V!C!Counted(path, s.lines)))
      BY <1>12, <1>17
    <3>2. IsFiniteSet(was \cup now) /\ counted[s] \in SUBSET keys
          /\ V!C!CoveredOf(s.lines, V!C!Counted(path, s.lines)) \in SUBSET (was \cup now)
      BY <1>4, <1>7, <1>8, <1>13, FS_Subset
    <3>3. /\ Cardinality(counted[s]) <= Cardinality(keys)
          /\ Cardinality(V!C!CoveredOf(s.lines, V!C!Counted(path, s.lines)))
               <= Cardinality(was \cup now)
      BY <1>7, <3>2, FS_Subset
    <3> QED
      BY <1>9, <3>1, <3>3
  <2>3. merge.covered = baseline.files[path]["lines"].covered + merge.newly_covered
    BY <1>9, <1>10, <1>12, <1>14, <1>16, <1>17
  <2> QED
    BY <1>7, <1>9, <1>10, <1>15, <2>1, <2>2, <2>3 DEF UnitesCounts
<1>18. bounded.total <= Cardinality(places)
  <2>1. Cardinality(places) \in Nat
    BY <1>7, FS_CardinalityType
  <2> QED
    BY <1>7, <1>9, <1>11, <1>15, <2>1
<1>19. ASSUME NEW exact \in BOOLEAN, union = [bounded EXCEPT !.exact = exact],
              exact => bounded.covered = baseline.files[path]["lines"].covered
                                         + bounded.newly_covered
       PROVE UnitesCounts(union, baseline, reports, path, "lines")
  BY <1>11, <1>15, <1>18, <1>19 DEF UnitesCounts, Merges
<1>20. CASE keys # {} /\ ~complete
  BY <1>2, <1>19, <1>20 DEF sparse
<1>21. CASE keys = {}
  <2>1. now \ was = {} /\ merge.newly_covered = 0
    BY <1>8, <1>9, <1>21, FS_EmptySet
  <2>2. bounded.total = 0 => bounded.covered = baseline.files[path]["lines"].covered
                                               + bounded.newly_covered
    <3>1. baseline.files[path]["lines"].covered \in Nat
      BY <1>1, <1>16 DEF SoundReport, reports
    <3> QED
      BY <1>11, <1>16, <2>1, <3>1 DEF Merges
  <2> QED
    BY <1>2, <1>19, <1>21, <2>2 DEF rowless
<1> QED
  BY <1>17, <1>20, <1>21

\* union_metric_for_file_many of src/storage.rs: the named units of a file.
LEMMA UnitsAreUnited ==
    ASSUME NEW path, NEW baseline, NEW S, NEW currents \in Seq(S), NEW m \in V!C!Metrics \ {"lines"},
           \A s \in Reports(baseline, currents) : SoundReport(s, path)
    PROVE UnitesCounts(V!C!union_metric_for_file_many(path, m, baseline.files[path],
                                                      Files(currents, path)),
                       baseline, Reports(baseline, currents), path, m)
<1> DEFINE reports == Reports(baseline, currents)
           files == Files(currents, path)
           bf == baseline.files[path]
           of(f) == V!C!coverage_units(path, f, m)
           orNone(units) == IF units = Absent THEN V!C!Units({}) ELSE units
           known(f) == orNone(of(f))
           was == known(bf).covered
           now == UNION {known(f).covered : f \in V!C!Range(files)}
           keys == known(bf).total \cup UNION {known(f).total : f \in V!C!Range(files)}
           exact == \A f \in {bf} \cup V!C!Range(files) :
                      V!C!units_match(of(f), V!C!file_metric(f, m)[2])
           bounded == V!C!Fallback(V!C!NoMetric, bf, files, m)
           gain == V!C!Largest({V!C!file_metric(f, m)[1] : f \in V!C!Range(files)})
                     - V!C!file_metric(bf, m)[1]
           merge == [total |-> V!C!Cardinality(keys), covered |-> V!C!Cardinality(was \cup now),
                     newly_covered |-> V!C!Cardinality(now \ was), exact |-> TRUE]
           sparse == [bounded EXCEPT !.newly_covered = gain, !.exact = (bounded.total = 0)]
           union == V!C!union_metric_for_file_many(path, m, bf, files)
           size == [s \in reports |-> s.files[path][m].total]
           named == [s \in reports |-> known(s.files[path]).total]
           ran == [s \in reports |-> known(s.files[path]).covered]
           all == {bf} \cup V!C!Range(files)
           places == UnitPlaces(reports, path, m)
<1> SUFFICES UnitesCounts(union, baseline, reports, path, m)
  OBVIOUS
<1>1. union = IF exact THEN merge ELSE sparse
  BY DEF V!C!union_metric_for_file_many
<1>2. FilesOfReports(baseline, currents, path, m) /\ IsFiniteSet(reports)
  <2>1. FilesOfReports(baseline, currents, path, m)
    BY ReportNumbers
  <2> QED
    BY <2>1 DEF FilesOfReports
<1>3. /\ SoundFiles(all, m) /\ all = {s.files[path] : s \in reports}
      /\ \A s \in reports : V!C!file_metric(s.files[path], m) = <<s.files[path][m].covered,
                                                                  s.files[path][m].total>>
  BY <1>2 DEF FilesOfReports
<1>4. /\ \A s \in reports : s.files[path] \in {bf} \cup V!C!Range(files)
      /\ \A f \in V!C!Range(files) : \E s \in reports : f = s.files[path]
      /\ baseline \in reports /\ bf = baseline.files[path]
  BY <1>3 DEF Reports
<1>5. \A s \in reports : /\ s.files[path][m].total \in Nat /\ s.files[path][m].covered \in Nat
                         /\ size[s] = s.files[path][m].total
                         /\ named[s] = known(s.files[path]).total
                         /\ ran[s] = known(s.files[path]).covered
  BY DEF SoundReport
<1>6. /\ keys = UNION {named[s] : s \in reports}
      /\ \A s \in reports : ran[s] \subseteq was \cup now
      /\ was = ran[baseline]
      /\ \A k \in now : \E s \in reports : k \in ran[s]
  <2>1. /\ \A f \in V!C!Range(files) : \E s \in reports : f = s.files[path]
                                                  /\ named[s] = known(f).total
                                                  /\ ran[s] = known(f).covered
        /\ \A s \in reports : s.files[path] = bf \/ s.files[path] \in V!C!Range(files)
        /\ named[baseline] = known(bf).total /\ ran[baseline] = known(bf).covered
    BY <1>4, <1>5
  <2> HIDE DEF files, reports, named, ran, bf, known
  <2>2. ASSUME NEW k PROVE (k \in keys) <=> (\E s \in reports : k \in named[s])
    BY <1>4, <1>5, <2>1
  <2>3. /\ \A s \in reports : ran[s] \subseteq was \cup now
        /\ was = ran[baseline] /\ \A k \in now : \E s \in reports : k \in ran[s]
    BY <1>4, <1>5, <2>1
  <2> HIDE DEF keys, was, now
  <2> QED
    BY <2>2, <2>3
<1>7. ASSUME exact, NEW s \in reports
      PROVE /\ IsFiniteSet(named[s]) /\ Cardinality(named[s]) = size[s]
            /\ ran[s] \subseteq named[s] /\ Cardinality(ran[s]) = s.files[path][m].covered
  <2> DEFINE units == of(s.files[path])
             total == s.files[path][m].total
             covered == s.files[path][m].covered
  <2>1. V!C!units_match(units, total)
    BY <1>3, <1>4, <1>7
  <2>2. IF units = Absent THEN total = 0 => covered = 0
        ELSE /\ IsFiniteSet(units.total) /\ units.covered \subseteq units.total
             /\ Cardinality(units.total) = total => Cardinality(units.covered) = covered
    BY DEF SoundReport
  <2>3. named[s] = orNone(units).total /\ ran[s] = orNone(units).covered /\ size[s] = total
    BY <1>5
  <2> HIDE DEF units, total, covered, named, ran, size
  <2>4. CASE units = Absent
    <3>1. named[s] = {} /\ ran[s] = {}
      BY <2>3, <2>4 DEF V!C!Units
    <3>2. total = 0 /\ covered = 0
      BY <2>1, <2>2, <2>4 DEF V!C!units_match
    <3> QED
      BY <2>3, <3>1, <3>2, FS_EmptySet DEF covered
  <2>5. CASE units # Absent
    <3>1. named[s] = units.total /\ ran[s] = units.covered
      BY <2>3, <2>5
    <3>2. Cardinality(units.total) = total
      BY <2>1, <2>5, SameCounts DEF V!C!units_match
    <3> QED
      BY <2>2, <2>3, <2>5, <3>1, <3>2 DEF covered
  <2> QED
    BY <2>4, <2>5
<1>8. /\ merge = [total |-> Cardinality(keys), covered |-> Cardinality(was \cup now),
                  newly_covered |-> Cardinality(now \ was), exact |-> TRUE]
  BY SameCounts
<1>9. /\ Bounds(bounded, V!C!NoMetric, all, m)
      /\ V!C!NoMetric = [total |-> 0, covered |-> 0, newly_covered |-> 0, exact |-> TRUE]
  <2>1. /\ V!C!NoMetric = [total |-> 0, covered |-> 0, newly_covered |-> 0, exact |-> TRUE]
        /\ Merges(V!C!NoMetric)
    BY DEF V!C!NoMetric, Merges
  <2> HIDE DEF files, bf
  <2> QED
    BY <1>3, <2>1, FallbackBounds
<1> HIDE DEF merge, bounded, union, exact, keys, was, now, places, named, ran, files, all, size,
             sparse, reports, gain, of, orNone, known
<1>10. CASE exact
  <2>1. named \in [reports -> SUBSET keys] /\ size \in [reports -> Nat]
    <3>1. \A s \in reports : named[s] \subseteq keys /\ size[s] \in Nat
      BY <1>5, <1>6
    <3> QED
      BY <3>1 DEF named, size
  <2>2. IsFiniteSet(keys) /\ IsFiniteSet(places) /\ Cardinality(keys) <= Cardinality(places)
    <3>1. \A s \in reports : IsFiniteSet(named[s]) /\ Cardinality(named[s]) <= size[s]
      BY <1>5, <1>7, <1>10
    <3>2. /\ IsFiniteSet(PlacesOf(reports, size)) /\ IsFiniteSet(AllOf(reports, named))
          /\ Cardinality(AllOf(reports, named)) <= Cardinality(PlacesOf(reports, size))
      BY <1>2, <2>1, <3>1, ManyParts
    <3>3. places = PlacesOf(reports, size) /\ keys = AllOf(reports, named)
      BY <1>5, <1>6 DEF UnitPlaces, places, PlacesOf, AllOf
    <3> QED
      BY <3>2, <3>3
  <2>3. was \cup now \in SUBSET keys /\ was \subseteq keys
    <3>1. \A s \in reports : ran[s] \subseteq keys
      BY <1>6, <1>7, <1>10
    <3> QED
      BY <1>4, <1>6, <3>1
  <2>4. /\ IsFiniteSet(was \cup now) /\ IsFiniteSet(was) /\ IsFiniteSet(now \ was)
        /\ Cardinality(was \cup now) = Cardinality(was) + Cardinality(now \ was)
        /\ Cardinality(was) \in Nat /\ Cardinality(now \ was) \in Nat
        /\ Cardinality(keys) \in Nat /\ Cardinality(was \cup now) \in Nat
        /\ Cardinality(was \cup now) <= Cardinality(keys)
    <3>1. IsFiniteSet(was \cup now) /\ IsFiniteSet(was) /\ IsFiniteSet(now \ was)
      BY <2>2, <2>3, FS_Subset
    <3>2. was \cup now = was \cup (now \ was) /\ was \cap (now \ was) = {}
      OBVIOUS
    <3>3. Cardinality(was \cup now)
            = Cardinality(was) + Cardinality(now \ was) - Cardinality({})
      BY <3>1, <3>2, FS_Union
    <3>4. /\ Cardinality(was) \in Nat /\ Cardinality(now \ was) \in Nat /\ Cardinality({}) = 0
          /\ Cardinality(keys) \in Nat /\ Cardinality(was \cup now) \in Nat
          /\ Cardinality(was \cup now) <= Cardinality(keys)
      BY <2>2, <2>3, <3>1, FS_CardinalityType, FS_EmptySet, FS_Subset
    <3> QED
      BY <3>1, <3>3, <3>4
  <2>5. ASSUME NEW s \in reports
        PROVE /\ s.files[path][m].covered <= Cardinality(was \cup now)
              /\ s.files[path][m].total <= Cardinality(keys)
    <3>1. /\ s.files[path][m].total = Cardinality(named[s])
          /\ s.files[path][m].covered = Cardinality(ran[s])
      BY <1>5, <1>7, <1>10
    <3>2. named[s] \in SUBSET keys /\ ran[s] \in SUBSET (was \cup now)
      BY <1>6
    <3> QED
      BY <2>2, <2>4, <3>1, <3>2, FS_Subset
  <2>6. Cardinality(was) = baseline.files[path][m].covered
    BY <1>4, <1>6, <1>7, <1>10
  <2>7. union = merge
    BY <1>1, <1>10
  <2>8. Merges(union)
    BY <1>8, <2>4, <2>7 DEF Merges
  <2> QED
    BY <1>8, <2>2, <2>4, <2>5, <2>6, <2>7, <2>8 DEF UnitesCounts, places
<1>11. CASE ~exact
  <2>1. union = sparse
    BY <1>1, <1>11
  <2>2. /\ bounded = [total |-> bounded.total, covered |-> bounded.covered,
                      newly_covered |-> bounded.newly_covered, exact |-> bounded.exact]
        /\ bounded.total \in Nat /\ bounded.covered \in Nat /\ bounded.covered <= bounded.total
    BY <1>9 DEF Bounds, Merges
  <2>3. /\ sparse.total = bounded.total /\ sparse.covered = bounded.covered
        /\ sparse.newly_covered = gain /\ (sparse.exact <=> (bounded.total = 0))
        /\ sparse = [total |-> sparse.total, covered |-> sparse.covered,
                     newly_covered |-> sparse.newly_covered, exact |-> sparse.exact]
    <3>1. ASSUME NEW e
          PROVE [bounded EXCEPT !.newly_covered = gain, !.exact = e]
                  = [total |-> bounded.total, covered |-> bounded.covered,
                     newly_covered |-> gain, exact |-> e]
      <4> DEFINE gained == [bounded EXCEPT !.newly_covered = gain]
      <4>1. gained = [total |-> bounded.total, covered |-> bounded.covered,
                      newly_covered |-> gain, exact |-> bounded.exact]
        BY <2>2
      <4> HIDE DEF gained
      <4>2. [gained EXCEPT !.exact = e] = [total |-> bounded.total, covered |-> bounded.covered,
                                           newly_covered |-> gain, exact |-> e]
        BY <4>1
      <4> QED
        BY <4>2 DEF gained
    <3>2. sparse = [total |-> bounded.total, covered |-> bounded.covered,
                    newly_covered |-> gain, exact |-> (bounded.total = 0)]
      BY <3>1, Zenon DEF sparse
    <3> QED
      BY <3>2
  <2>4. \A s \in reports : /\ s.files[path][m].covered <= bounded.covered
                           /\ s.files[path][m].total <= bounded.total
    BY <1>3, <1>9 DEF Bounds
  <2>5. bounded.total <= Cardinality(places)
    <3>1. IsFiniteSet(places) /\ \A s \in reports : size[s] <= Cardinality(places)
      BY <1>2, <1>5, PlacesAreMany DEF places, reports
    <3>2. Cardinality(places) \in Nat
      BY <3>1, FS_CardinalityType
    <3>3. bounded.total = 0 \/ \E s \in reports : bounded.total = size[s]
      BY <1>3, <1>5, <1>9 DEF Bounds
    <3> QED
      BY <3>1, <3>2, <3>3
  <2>6. ASSUME bounded.total = 0
        PROVE bounded.covered = 0 /\ baseline.files[path][m].covered = 0 /\ gain = 0
    <3>1. bounded.covered = 0
      BY <2>2, <2>6
    <3>2. \A s \in reports : s.files[path][m].covered = 0
      BY <1>5, <2>4, <3>1
    <3>3. baseline.files[path][m].covered = 0
      BY <1>4, <3>2
    <3>4. \A f \in all : V!C!file_metric(f, m)[1] = 0
      BY <1>3, <3>2
    <3>5. bf \in all /\ V!C!Range(files) \subseteq all
      BY DEF all
    <3> DEFINE most == {V!C!file_metric(f, m)[1] : f \in V!C!Range(files)}
    <3>6. most \subseteq {0}
      BY <3>4, <3>5
    <3>7. V!C!Largest(most) = 0
      <4> HIDE DEF most
      <4>1. most \in SUBSET Nat /\ IsFiniteSet(most)
        <5>1. most \in SUBSET {0}
          BY <3>6
        <5>2. IsFiniteSet(most)
          BY <5>1, FS_Singleton, FS_Subset
        <5> QED
          BY <5>1, <5>2
      <4> QED
        BY <3>6, <4>1, LargestCount
    <3>8. gain = V!C!Largest(most) - V!C!file_metric(bf, m)[1]
      BY DEF gain
    <3> HIDE DEF most
    <3> QED
      BY <3>1, <3>3, <3>4, <3>5, <3>7, <3>8
  <2>7. Merges(union)
    BY <2>1, <2>2, <2>3 DEF Merges
  <2>8. /\ \A s \in reports : /\ s.files[path][m].covered <= union.covered
                              /\ s.files[path][m].total <= union.total
        /\ union.total <= Cardinality(places)
    BY <2>1, <2>3, <2>4, <2>5
  <2>9. union.exact => union.covered = baseline.files[path][m].covered + union.newly_covered
    <3> SUFFICES ASSUME union.exact
                 PROVE union.covered = baseline.files[path][m].covered + union.newly_covered
      OBVIOUS
    <3>1. bounded.total = 0
      BY <2>1, <2>3, Zenon
    <3>2. union.covered = 0 /\ baseline.files[path][m].covered = 0 /\ union.newly_covered = 0
      BY <2>1, <2>3, <2>6, <3>1
    <3> QED
      BY <3>2
  <2> QED
    BY <2>7, <2>8, <2>9 DEF UnitesCounts, places
<1> QED
  BY <1>10, <1>11

\* The reports of a path in a baseline and any number of runs, as UnionOfFile
\* takes them.
UnionOf(path, baseline, currents) ==
    V!C!UnionOfFile(path, baseline.lines, Maps(currents), baseline.files[path],
                    Files(currents, path))

\* Every metric of a union is sound for all its reports.
THEOREM EveryUnionIsSound ==
    ASSUME NEW path, NEW baseline, NEW S, NEW currents \in Seq(S),
           \A s \in Reports(baseline, currents) : SoundReport(s, path)
    PROVE \A m \in V!C!Metrics :
            UnitesCounts(UnionOf(path, baseline, currents)[m], baseline,
                         Reports(baseline, currents), path, m)
<1>1. ASSUME NEW m \in V!C!Metrics, m = "lines"
      PROVE UnitesCounts(UnionOf(path, baseline, currents)[m], baseline,
                         Reports(baseline, currents), path, m)
  <2>1. UnionOf(path, baseline, currents)[m]
          = V!C!union_line_metric_many(path, baseline.lines, Maps(currents),
                                       baseline.files[path], Files(currents, path))
    BY <1>1 DEF UnionOf, V!C!UnionOfFile
  <2> QED
    BY <1>1, <2>1, LinesAreUnited
<1>2. ASSUME NEW m \in V!C!Metrics, m # "lines"
      PROVE UnitesCounts(UnionOf(path, baseline, currents)[m], baseline,
                         Reports(baseline, currents), path, m)
  <2>1. UnionOf(path, baseline, currents)[m]
          = V!C!union_metric_for_file_many(path, m, baseline.files[path], Files(currents, path))
    BY <1>2 DEF UnionOf, V!C!UnionOfFile
  <2> QED
    BY <1>2, <2>1, UnitsAreUnited
<1> QED
  BY <1>1, <1>2

\* others are the same runs in another order: p tells where each is.
ReorderedBy(p, others, currents) ==
    /\ Len(others) = Len(currents)
    /\ \A i \in DOMAIN currents : p[i] \in DOMAIN currents /\ others[i] = currents[p[i]]
    /\ \A j \in DOMAIN currents : \E i \in DOMAIN currents : j = p[i]

\* union_snapshot_detail_many of src/storage.rs: the order of the runs does not
\* matter.
THEOREM AnyOrderUnites ==
    ASSUME NEW path, NEW baseline, NEW S, NEW currents \in Seq(S), NEW others \in Seq(S),
           NEW p, ReorderedBy(p, others, currents)
    PROVE UnionOf(path, baseline, others) = UnionOf(path, baseline, currents)
<1> USE DEF ReorderedBy
<1> DEFINE maps == Maps(currents)
           files == Files(currents, path)
           maps2 == Maps(others)
           files2 == Files(others, path)
           bf == baseline.files[path]
           before == baseline.lines
           Complete(ms, fs) ==
             /\ V!C!line_detail_matches_file_summary(path, before, bf)
             /\ fs # <<>> =>
                  /\ Len(fs) = Len(ms)
                  /\ \A i \in DOMAIN fs : V!C!line_detail_matches_file_summary(path, ms[i], fs[i])
<1>1. /\ DOMAIN currents = 1..Len(currents) /\ DOMAIN others = DOMAIN currents
      /\ DOMAIN maps = DOMAIN currents /\ DOMAIN files = DOMAIN currents
      /\ DOMAIN maps2 = DOMAIN currents /\ DOMAIN files2 = DOMAIN currents
  BY DEF Maps, Files
<1>2. /\ \A i \in DOMAIN currents : maps[i] = currents[i].lines /\ files[i] = currents[i].files[path]
      /\ \A i \in DOMAIN currents : maps2[i] = others[i].lines /\ files2[i] = others[i].files[path]
  BY <1>1 DEF Maps, Files
<1>3. \A i \in DOMAIN currents : maps2[i] = maps[p[i]] /\ files2[i] = files[p[i]]
  <2> SUFFICES ASSUME NEW i \in DOMAIN currents
               PROVE maps2[i] = maps[p[i]] /\ files2[i] = files[p[i]]
    OBVIOUS
  <2>1. p[i] \in DOMAIN currents /\ others[i] = currents[p[i]]
    OBVIOUS
  <2> HIDE DEF maps, files, maps2, files2
  <2>2. maps2[i] = others[i].lines /\ files2[i] = others[i].files[path]
    BY <1>2
  <2>3. maps[p[i]] = currents[p[i]].lines /\ files[p[i]] = currents[p[i]].files[path]
    BY <1>2, <2>1
  <2> QED
    BY <2>1, <2>2, <2>3
<1>4. /\ Len(maps) = Len(currents) /\ Len(files) = Len(currents)
      /\ Len(maps2) = Len(currents) /\ Len(files2) = Len(currents)
      /\ (files = <<>>) <=> (files2 = <<>>)
  BY <1>1 DEF Maps, Files
<1> HIDE DEF maps, files, maps2, files2
<1>5. V!C!Range(maps2) = V!C!Range(maps) /\ V!C!Range(files2) = V!C!Range(files)
  BY <1>1, <1>3 DEF V!C!Range
<1>6. Complete(maps2, files2) <=> Complete(maps, files)
  <2> DEFINE Fit(i) == V!C!line_detail_matches_file_summary(path, maps[i], files[i])
             Fit2(i) == V!C!line_detail_matches_file_summary(path, maps2[i], files2[i])
  <2>1. \A i \in DOMAIN currents : p[i] \in DOMAIN currents /\ (Fit2(i) <=> Fit(p[i]))
    BY <1>3
  <2> HIDE DEF Fit, Fit2
  <2>2. (\A i \in DOMAIN currents : Fit2(i)) <=> (\A i \in DOMAIN currents : Fit(i))
    BY <2>1
  <2> QED
    BY <1>1, <1>4, <2>2 DEF Fit, Fit2
<1> DEFINE KeysOf(r) == V!C!Counted(path, before) \cup UNION {V!C!Counted(path, c) : c \in r}
           WasOf(r) == V!C!CoveredOf(before, KeysOf(r))
           NowOf(r) == UNION {V!C!CoveredOf(c, KeysOf(r)) : c \in r}
           MergeOf(r) == [total |-> V!C!Cardinality(KeysOf(r)),
                          covered |-> V!C!Cardinality(WasOf(r) \cup NowOf(r)),
                          newly_covered |-> V!C!Cardinality(NowOf(r) \ WasOf(r)), exact |-> TRUE]
           TotalOf(merge, rf, m) ==
             V!C!Largest({merge.total} \cup {V!C!file_metric(f, m)[2] : f \in {bf} \cup rf})
           BoundOf(merge, rf, m) ==
             [merge EXCEPT !.total = TotalOf(merge, rf, m),
                           !.covered = V!C!Min({TotalOf(merge, rf, m),
                                         V!C!Largest({merge.covered} \cup
                                           {V!C!file_metric(f, m)[1] : f \in {bf} \cup rf})})]
           SparseOf(b) == [b EXCEPT !.exact = FALSE]
           RowlessOf(b) == [b EXCEPT !.exact = (b.total = 0)]
<1>7. V!C!union_line_metric_many(path, before, maps2, bf, files2)
        = V!C!union_line_metric_many(path, before, maps, bf, files)
  <2>1. ASSUME NEW ms, NEW fs
        PROVE V!C!union_line_metric_many(path, before, ms, bf, fs)
                = IF KeysOf(V!C!Range(ms)) = {}
                    THEN RowlessOf(BoundOf(MergeOf(V!C!Range(ms)), V!C!Range(fs), "lines"))
                  ELSE IF Complete(ms, fs) THEN MergeOf(V!C!Range(ms))
                  ELSE SparseOf(BoundOf(MergeOf(V!C!Range(ms)), V!C!Range(fs), "lines"))
    BY DEF V!C!union_line_metric_many, V!C!Fallback
  <2> HIDE DEF KeysOf, WasOf, NowOf, MergeOf, TotalOf, BoundOf, SparseOf, RowlessOf, Complete
  <2> QED
    BY <1>5, <1>6, <2>1
<1>8. ASSUME NEW m
      PROVE V!C!union_metric_for_file_many(path, m, bf, files2)
              = V!C!union_metric_for_file_many(path, m, bf, files)
  <2> DEFINE of(f) == V!C!coverage_units(path, f, m)
             orNone(units) == IF units = Absent THEN V!C!Units({}) ELSE units
             known(f) == orNone(of(f))
             was == known(bf).covered
             Now(r) == UNION {known(f).covered : f \in r}
             All(r) == known(bf).total \cup UNION {known(f).total : f \in r}
             Exact(r) == \A f \in {bf} \cup r : V!C!units_match(of(f), V!C!file_metric(f, m)[2])
             GainIn(r) == V!C!Largest({V!C!file_metric(f, m)[1] : f \in r})
                          - V!C!file_metric(bf, m)[1]
             Named(r) == [total |-> V!C!Cardinality(All(r)),
                          covered |-> V!C!Cardinality(was \cup Now(r)),
                          newly_covered |-> V!C!Cardinality(Now(r) \ was), exact |-> TRUE]
             Unnamed(r) == [BoundOf(V!C!NoMetric, r, m) EXCEPT
                              !.newly_covered = GainIn(r),
                              !.exact = (BoundOf(V!C!NoMetric, r, m).total = 0)]
  <2>1. ASSUME NEW fs
        PROVE V!C!union_metric_for_file_many(path, m, bf, fs)
                = IF Exact(V!C!Range(fs)) THEN Named(V!C!Range(fs)) ELSE Unnamed(V!C!Range(fs))
    BY DEF V!C!union_metric_for_file_many, V!C!Fallback
  <2> HIDE DEF Exact, Named, Unnamed
  <2>2. Exact(V!C!Range(files2)) <=> Exact(V!C!Range(files))
    BY <1>5
  <2> QED
    BY <1>5, <2>1, <2>2
<1>9. V!C!UnionOfFile(path, before, maps2, bf, files2) = V!C!UnionOfFile(path, before, maps, bf, files)
  BY <1>7, <1>8 DEF V!C!UnionOfFile
<1> QED
  BY <1>9 DEF UnionOf, maps, files, maps2, files2

\* The lines that the baseline misses and some run covers.
Gained(path, baseline, currents) ==
    {k \in UNION {V!C!CoveredOf(c, {x \in DOMAIN c : c[x].count_line}) :
                    c \in V!C!Range(Maps(currents))} :
       k[1] = path /\ (k \in DOMAIN baseline.lines => ~baseline.lines[k].covered)}

\* What the union counts as new are those lines.
LEMMA GainedLinesAreCounted ==
    ASSUME NEW path, NEW baseline, NEW S, NEW currents \in Seq(S),
           \A s \in Reports(baseline, currents) : SoundReport(s, path)
    PROVE UnionOf(path, baseline, currents)["lines"].newly_covered
            = Cardinality(Gained(path, baseline, currents))
<1> DEFINE reports == Reports(baseline, currents)
           maps == Maps(currents)
           files == Files(currents, path)
           before == baseline.lines
           bf == baseline.files[path]
           keys == V!C!Counted(path, before) \cup UNION {V!C!Counted(path, c) : c \in V!C!Range(maps)}
           was == V!C!CoveredOf(before, keys)
           now == UNION {V!C!CoveredOf(c, keys) : c \in V!C!Range(maps)}
           merge == [total |-> V!C!Cardinality(keys), covered |-> V!C!Cardinality(was \cup now),
                     newly_covered |-> V!C!Cardinality(now \ was), exact |-> TRUE]
           complete ==
             /\ V!C!line_detail_matches_file_summary(path, before, bf)
             /\ files # <<>> =>
                  /\ Len(files) = Len(maps)
                  /\ \A i \in DOMAIN files :
                       V!C!line_detail_matches_file_summary(path, maps[i], files[i])
           bounded == V!C!Fallback(merge, bf, files, "lines")
           sparse == [bounded EXCEPT !.exact = FALSE]
           rowless == [bounded EXCEPT !.exact = (bounded.total = 0)]
           union == V!C!union_line_metric_many(path, before, maps, bf, files)
<1>1. UnionOf(path, baseline, currents)["lines"] = union
  BY DEF UnionOf, V!C!UnionOfFile, V!C!Metrics
<1>2. union = IF keys = {} THEN rowless ELSE IF complete THEN merge ELSE sparse
  BY DEF V!C!union_line_metric_many
<1>3. merge.newly_covered = Cardinality(now \ was)
  BY SameCounts
<1>4. sparse.newly_covered = merge.newly_covered /\ rowless.newly_covered = merge.newly_covered
  <2>1. bounded.newly_covered = merge.newly_covered /\ DOMAIN bounded = DOMAIN merge
    BY DEF V!C!Fallback
  <2>2. DOMAIN merge = {"total", "covered", "newly_covered", "exact"}
    OBVIOUS
  <2> HIDE DEF bounded, merge
  <2> QED
    BY <2>1, <2>2
<1>5. now \ was = Gained(path, baseline, currents)
  <2>1. /\ \A c \in V!C!Range(maps) : \A k \in DOMAIN c : k[1] = path /\ c[k].covered => c[k].count_line
        /\ \A k \in DOMAIN before : k[1] = path /\ before[k].covered => before[k].count_line
    <3>1. \A c \in V!C!Range(maps) : \E s \in reports : c = s.lines
      BY DEF Reports, Maps, V!C!Range
    <3>2. baseline \in reports
      BY DEF Reports
    <3> HIDE DEF maps, reports
    <3>3. \A s \in reports :
            \A k \in DOMAIN s.lines : k[1] = path /\ s.lines[k].covered => s.lines[k].count_line
      BY DEF SoundReport, reports
    <3> QED
      BY <3>1, <3>2, <3>3
  <2> HIDE DEF maps
  <2>2. \A k \in keys : k[1] = path
    BY DEF V!C!Counted
  <2>3. ASSUME NEW k
        PROVE k \in now \ was <=>
                /\ k[1] = path /\ (k \in DOMAIN before => ~before[k].covered)
                /\ \E c \in V!C!Range(maps) : k \in DOMAIN c /\ c[k].covered /\ c[k].count_line
    <3>1. k \in now <=> k \in keys /\ \E c \in V!C!Range(maps) : k \in DOMAIN c /\ c[k].covered
      BY DEF V!C!CoveredOf
    <3>2. k \in was <=> k \in keys /\ k \in DOMAIN before /\ before[k].covered
      BY DEF V!C!CoveredOf
    <3>3. \A c \in V!C!Range(maps) : k \in DOMAIN c /\ c[k].count_line /\ k[1] = path => k \in keys
      BY DEF V!C!Counted
    <3> HIDE DEF keys, now, was
    <3> QED
      BY <2>1, <2>2, <3>1, <3>2, <3>3
  <2>4. ASSUME NEW k
        PROVE k \in Gained(path, baseline, currents) <=>
                /\ k[1] = path /\ (k \in DOMAIN before => ~before[k].covered)
                /\ \E c \in V!C!Range(maps) : k \in DOMAIN c /\ c[k].covered /\ c[k].count_line
    BY DEF Gained, V!C!CoveredOf, maps
  <2> HIDE DEF now, was, before
  <2> QED
    BY <2>3, <2>4
<1> HIDE DEF union, merge, sparse, rowless, complete, keys, now, was
<1> QED
  BY <1>1, <1>2, <1>3, <1>4, <1>5

-----------------------------------------------------------------------------
(* Regions of changed lines *)

\* Lines that follow each other, with none before and none behind them.
LineRuns(numbers) ==
    {<<n, V!C!Min({m \in numbers : n <= m /\ m + 1 \notin numbers})>> :
       n \in {m \in numbers : m - 1 \notin numbers}}

\* Where a run of lines ends.
LEMMA EveryRunEnds ==
    ASSUME NEW numbers \in SUBSET Int, IsFiniteSet(numbers), NEW n \in numbers
    PROVE LET ends == {m \in numbers : n <= m /\ m + 1 \notin numbers}
          IN V!C!Min(ends) \in numbers
<1> DEFINE ends == {m \in numbers : n <= m /\ m + 1 \notin numbers}
           steps == {k \in Nat : n + k \in ends}
<1>1. PICK l \in numbers : \A m \in numbers : l >= m
  BY GreatestInteger
<1>2. l \in ends
  <2>1. l + 1 \notin numbers
    BY <1>1
  <2> QED
    BY <1>1, <2>1
<1>3. l - n \in steps
  BY <1>2
<1>4. PICK k \in steps : \A j \in steps : k <= j
  <2>1. steps \in SUBSET Nat /\ steps # {}
    BY <1>3
  <2> HIDE DEF steps
  <2> QED
    BY <2>1, LeastNumber
<1>5. n + k \in ends /\ \A m \in ends : n + k <= m
  <2>1. n + k \in ends /\ k \in Nat
    OBVIOUS
  <2>2. ASSUME NEW m \in ends PROVE n + k <= m
    <3>1. m \in Int /\ n \in Int /\ n <= m
      OBVIOUS
    <3>2. m - n \in Nat /\ n + (m - n) = m
      BY <3>1
    <3>3. m - n \in steps
      BY <3>2
    <3> HIDE DEF ends, steps
    <3>4. k <= m - n
      BY <1>4, <3>3
    <3> QED
      BY <2>1, <3>1, <3>4
  <2> QED
    BY <2>1, <2>2
<1>6. V!C!Min(ends) = CHOOSE x \in ends : \A y \in ends : x <= y
  BY DEF V!C!Min
<1>7. V!C!Min(ends) \in ends
  <2> HIDE DEF ends
  <2> QED
    BY <1>5, <1>6
<1> QED
  BY <1>7

\* line_regions of src/storage.rs: every run of lines, in their order.
LEMMA RunsInOrder ==
    ASSUME NEW numbers \in SUBSET Int, IsFiniteSet(numbers)
    PROVE LET regions == V!C!Range(V!C!line_regions(numbers))
          IN /\ regions = LineRuns(numbers) /\ IsFiniteSet(regions)
             /\ \A r \in regions : r[1] \in numbers /\ r[2] \in numbers /\ r = <<r[1], r[2]>>
             /\ \A q, r \in regions : q[1] = r[1] => q = r
<1> DEFINE end(n) == V!C!Min({m \in numbers : n <= m /\ m + 1 \notin numbers})
           starts == {m \in numbers : m - 1 \notin numbers}
           region == [n \in starts |-> <<n, end(n)>>]
           runs == {region[n] : n \in starts}
           key == [r \in runs |-> r]
           all == V!C!line_regions(numbers)
<1>1. runs = LineRuns(numbers)
  BY DEF LineRuns
<1>2. all = InOrder(LineRuns(numbers), [r \in LineRuns(numbers) |-> r])
  BY DEF V!C!line_regions, LineRuns, V!C!InOrder, InOrder, V!C!Less, Less,
         V!C!Cardinality, Cardinality
<1>3. \A n \in starts : end(n) \in numbers
  BY EveryRunEnds
<1> HIDE DEF end
<1>4. \A n \in starts : region[n] = <<n, end(n)>>
  OBVIOUS
<1>5. IsFiniteSet(runs)
  <2>1. IsFiniteSet(starts)
    BY FS_Subset
  <2>2. region \in [starts -> {<<n, end(n)>> : n \in starts}]
    OBVIOUS
  <2>3. PICK T : region \in [starts -> T]
    BY <2>2
  <2> HIDE DEF region, starts
  <2> QED
    BY <2>1, <2>3, FiniteImage
<1>6. \A r \in runs : r[1] \in starts /\ r = <<r[1], end(r[1])>>
  BY <1>4
<1>7. \A r \in runs : r[1] \in numbers /\ r[2] \in numbers /\ r = <<r[1], r[2]>>
  <2> SUFFICES ASSUME NEW r \in runs
               PROVE r[1] \in numbers /\ r[2] \in numbers /\ r = <<r[1], r[2]>>
    OBVIOUS
  <2> HIDE DEF runs, region
  <2>1. r[1] \in starts /\ r = <<r[1], end(r[1])>>
    BY <1>6
  <2>2. end(r[1]) \in numbers
    BY <1>3, <2>1
  <2> QED
    BY <2>1, <2>2
<1>8. \A r \in runs : r \in [1..2 -> Int]
  <2> SUFFICES ASSUME NEW r \in runs PROVE r \in [1..2 -> Int]
    OBVIOUS
  <2>1. r[1] \in Int /\ r[2] \in Int /\ r = <<r[1], r[2]>>
    BY <1>7
  <2> QED
    BY <2>1
<1>9. key \in [runs -> [1..2 -> Int]] /\ \A q, r \in runs : key[q] = key[r] => q = r
  <2> HIDE DEF runs
  <2> QED
    BY <1>8
<1>10. SortedBy(runs, key, InOrder(runs, key))
  <2> HIDE DEF runs, key
  <2>1. 2 \in Nat
    OBVIOUS
  <2> QED
    BY <1>5, <1>9, <2>1, EverythingInOrder
<1>11. V!C!Range(all) = runs
  <2>1. SortedBy(runs, key, all)
    BY <1>1, <1>2, <1>10
  <2> HIDE DEF runs, all
  <2>2. all \in Seq(runs) /\ \A x \in runs : \E i \in DOMAIN all : all[i] = x
    BY <2>1 DEF SortedBy
  <2> QED
    BY <2>2 DEF V!C!Range
<1>12. \A q, r \in runs : q[1] = r[1] => q = r
  <2> HIDE DEF runs
  <2> QED
    BY <1>6
<1> HIDE DEF runs, all
<1> QED
  BY <1>1, <1>5, <1>7, <1>11, <1>12 DEF all

\* Changed lines, each of them once.
ChangedLines(changes, label) ==
    /\ IsFiniteSet(changes)
    /\ \A c \in changes : c.path \in Int /\ c.line \in Int
    /\ \A c, d \in changes : c.path = d.path /\ c.line = d.line => c[label] = d[label]

\* The lines of a file that changed alike, and their regions.
Alike(changes, label, g) == {c.line : c \in {x \in changes : <<x.path, x[label]>> = g}}
RegionsAlike(changes, label, g) ==
    {[path |-> g[1], status |-> g[2], start |-> r[1], end |-> r[2]] :
       r \in V!C!Range(V!C!line_regions(Alike(changes, label, g)))}
AllRegions(changes, label) ==
    UNION {RegionsAlike(changes, label, g) : g \in {<<c.path, c[label]>> : c \in changes}}
RegionKey(r) == <<V!C!status_order(r.status), r.path, r.start>>

\* status_order of src/storage.rs is a number for every status.
LEMMA StatusOrder == \A status : V!C!status_order(status) \in Int
<1> SUFFICES ASSUME NEW status PROVE V!C!status_order(status) \in Int
  OBVIOUS
<1>1. V!C!status_order(status) \in {0, 1, 2, 3}
  <2>1. CASE status = "regressed"
    BY <2>1, Zenon DEF V!C!status_order
  <2>2. CASE status \in {"newly_covered", "improved"}
    BY <2>2, Zenon DEF V!C!status_order
  <2>3. CASE status = "removed"
    BY <2>3, Zenon DEF V!C!status_order
  <2>4. CASE status \notin {"regressed", "newly_covered", "improved", "removed"}
    BY <2>4, Zenon DEF V!C!status_order
  <2> QED
    BY <2>1, <2>2, <2>3, <2>4
<1> QED
  BY <1>1

\* changed_line_regions of src/storage.rs: the regions of the changed lines, all
\* of them and in order.
THEOREM RegionsAreInOrder ==
    ASSUME NEW changes, NEW label, ChangedLines(changes, label)
    PROVE SortedBy(AllRegions(changes, label),
                   [r \in AllRegions(changes, label) |-> RegionKey(r)],
                   V!C!changed_line_regions(changes, label))
<1> DEFINE groups == {<<c.path, c[label]>> : c \in changes}
           numbers(g) == Alike(changes, label, g)
           lines(g) == V!C!Range(V!C!line_regions(numbers(g)))
           all == AllRegions(changes, label)
           key == [r \in all |-> RegionKey(r)]
<1>1. IsFiniteSet(groups)
  <2> DEFINE group == [c \in changes |-> <<c.path, c[label]>>]
  <2>1. PICK T : group \in [changes -> T]
    <3>1. group \in [changes -> groups]
      OBVIOUS
    <3> QED
      BY <3>1
  <2>2. groups = {group[c] : c \in changes}
    OBVIOUS
  <2>3. IsFiniteSet(changes)
    BY DEF ChangedLines
  <2> HIDE DEF group, groups
  <2>4. IsFiniteSet({group[c] : c \in changes})
    BY <2>1, <2>3, FiniteImage
  <2> QED
    BY <2>2, <2>4
<1>2. ASSUME NEW g \in groups
      PROVE numbers(g) \in SUBSET Int /\ IsFiniteSet(numbers(g))
            /\ \A n \in numbers(g) : \E c \in changes : c.path = g[1] /\ c[label] = g[2] /\ c.line = n
  <2> DEFINE alike == {x \in changes : <<x.path, x[label]>> = g}
             line == [c \in alike |-> c.line]
  <2>1. IsFiniteSet(alike)
    BY FS_Subset DEF ChangedLines
  <2>2. line \in [alike -> Int]
    BY DEF ChangedLines
  <2>3. numbers(g) = {line[c] : c \in alike}
    BY DEF Alike
  <2>4. IsFiniteSet(numbers(g)) /\ numbers(g) \in SUBSET Int
    <3> HIDE DEF line, alike, numbers
    <3>1. IsFiniteSet({line[c] : c \in alike})
      BY <2>1, <2>2, FiniteImage
    <3>2. {line[c] : c \in alike} \in SUBSET Int
      BY <2>2
    <3> QED
      BY <2>3, <3>1, <3>2
  <2>5. \A n \in numbers(g) : \E c \in changes : c.path = g[1] /\ c[label] = g[2] /\ c.line = n
    BY DEF Alike
  <2> QED
    BY <2>4, <2>5
<1>3. ASSUME NEW g \in groups
      PROVE /\ IsFiniteSet(lines(g))
            /\ \A r \in lines(g) : r[1] \in numbers(g) /\ r = <<r[1], r[2]>>
            /\ \A q, r \in lines(g) : q[1] = r[1] => q = r
  BY <1>2, RunsInOrder
<1>4. ASSUME NEW x \in all
      PROVE \E g \in groups : \E r \in lines(g) :
              x = [path |-> g[1], status |-> g[2], start |-> r[1], end |-> r[2]]
  BY DEF AllRegions, RegionsAlike
<1>5. ASSUME NEW g \in groups PROVE IsFiniteSet(RegionsAlike(changes, label, g))
  <2> DEFINE region == [r \in lines(g) |-> [path |-> g[1], status |-> g[2],
                                            start |-> r[1], end |-> r[2]]]
  <2>1. PICK T : region \in [lines(g) -> T]
    <3> DEFINE T == {region[r] : r \in lines(g)}
    <3>1. region = [r \in lines(g) |-> region[r]] /\ \A r \in lines(g) : region[r] \in T
      OBVIOUS
    <3> HIDE DEF region
    <3>2. region \in [lines(g) -> T]
      BY <3>1
    <3> QED
      BY <3>2
  <2>2. RegionsAlike(changes, label, g) = {region[r] : r \in lines(g)}
    BY DEF RegionsAlike
  <2>3. IsFiniteSet(lines(g))
    BY <1>3
  <2> HIDE DEF region, lines
  <2>4. IsFiniteSet({region[r] : r \in lines(g)})
    BY <2>1, <2>3, FiniteImage
  <2> QED
    BY <2>2, <2>4
<1>6. IsFiniteSet(all)
  <2> DEFINE part == [g \in groups |-> RegionsAlike(changes, label, g)]
  <2>1. PICK T : part \in [groups -> T]
    <3> DEFINE T == {part[g] : g \in groups}
    <3>1. part = [g \in groups |-> part[g]] /\ \A g \in groups : part[g] \in T
      OBVIOUS
    <3> HIDE DEF part
    <3>2. part \in [groups -> T]
      BY <3>1
    <3> QED
      BY <3>2
  <2>2. \A g \in groups : IsFiniteSet(part[g])
    BY <1>5
  <2>3. all = UNION {part[g] : g \in groups}
    BY DEF AllRegions
  <2> HIDE DEF part, groups, all
  <2>4. IsFiniteSet({part[g] : g \in groups})
    BY <1>1, <2>1, FiniteImage
  <2> QED
    BY <2>2, <2>3, <2>4, FS_UNION
<1> HIDE DEF numbers, lines
<1>7. ASSUME NEW x \in all
      PROVE /\ x.path \in Int /\ x.start \in Int
            /\ x = [path |-> x.path, status |-> x.status, start |-> x.start, end |-> x.end]
            /\ \E c \in changes : c.path = x.path /\ c[label] = x.status /\ c.line = x.start
            /\ <<x.path, x.status>> \in groups
            /\ <<x.start, x.end>> \in lines(<<x.path, x.status>>)
  <2>0. PICK g \in groups : \E r \in lines(g) :
          x = [path |-> g[1], status |-> g[2], start |-> r[1], end |-> r[2]]
    BY <1>4
  <2>1. PICK r \in lines(g) : x = [path |-> g[1], status |-> g[2], start |-> r[1], end |-> r[2]]
    BY <2>0
  <2>2. x.path = g[1] /\ x.status = g[2] /\ x.start = r[1] /\ x.end = r[2]
        /\ x = [path |-> x.path, status |-> x.status, start |-> x.start, end |-> x.end]
    BY <2>1
  <2>3. g = <<g[1], g[2]>>
    OBVIOUS
  <2>4. r[1] \in numbers(g) /\ r = <<r[1], r[2]>>
    BY <1>3
  <2>5. PICK c \in changes : c.path = g[1] /\ c[label] = g[2] /\ c.line = r[1]
    BY <1>2, <2>4
  <2>6. c.path \in Int /\ c.line \in Int
    BY DEF ChangedLines
  <2>7. <<x.path, x.status>> = g /\ <<x.start, x.end>> = r
    BY <2>2, <2>3, <2>4
  <2> HIDE DEF groups
  <2> QED
    BY <2>1, <2>2, <2>5, <2>6, <2>7
<1>8. key \in [all -> [1..3 -> Int]]
  <2>1. ASSUME NEW x \in all PROVE RegionKey(x) \in [1..3 -> Int]
    <3>1. V!C!status_order(x.status) \in Int /\ x.path \in Int /\ x.start \in Int
      BY <1>7, StatusOrder
    <3> QED
      BY <3>1 DEF RegionKey
  <2> HIDE DEF all
  <2> QED
    BY <2>1
<1>9. ASSUME NEW x \in all, NEW y \in all, key[x] = key[y] PROVE x = y
  <2>1. x.path = y.path /\ x.start = y.start
    BY <1>9 DEF RegionKey
  <2>2. x.status = y.status
    <3>1. PICK c \in changes : c.path = x.path /\ c[label] = x.status /\ c.line = x.start
      BY <1>7
    <3>2. PICK d \in changes : d.path = y.path /\ d[label] = y.status /\ d.line = y.start
      BY <1>7
    <3>3. c[label] = d[label]
      BY <2>1, <3>1, <3>2 DEF ChangedLines
    <3> QED
      BY <3>1, <3>2, <3>3
  <2>3. x.end = y.end
    <3>1. <<x.start, x.end>> = <<y.start, y.end>>
      BY <1>3, <1>7, <2>1, <2>2
    <3> QED
      BY <3>1
  <2> QED
    BY <1>7, <2>1, <2>2, <2>3
<1>10. SortedBy(all, key, InOrder(all, key))
  <2>1. 3 \in Nat /\ \A x, y \in all : key[x] = key[y] => x = y
    BY <1>9
  <2> HIDE DEF all, key
  <2> QED
    BY <1>6, <1>8, <2>1, EverythingInOrder
<1>11. V!C!changed_line_regions(changes, label) = InOrder(all, key)
  BY DEF V!C!changed_line_regions, AllRegions, RegionsAlike, Alike, RegionKey,
         V!C!InOrder, InOrder, V!C!Less, Less, V!C!Cardinality, Cardinality
<1> QED
  BY <1>10, <1>11

-----------------------------------------------------------------------------
(* The unions of the runs *)

\* The lines a run covered, and its branches one by one.
Covered(lines) == {k \in DOMAIN lines : lines[k].covered}
Branches(lines) == UNION {{k} \X (1..lines[k].covered_branches) : k \in DOMAIN lines}

\* What a run measures of its file's lines.
LEMMA LineMapsAreRows ==
    ASSUME NEW lines \in LineMaps
    PROVE /\ DOMAIN lines \in SUBSET {<<1, 1>>, <<1, 2>>} /\ IsFiniteSet(DOMAIN lines)
          /\ \A k \in DOMAIN lines :
               /\ k[1] = 1 /\ k[2] \in {1, 2} /\ k = <<k[1], k[2]>>
               /\ lines[k].count_line = TRUE /\ lines[k].covered_branches \in 0..2
<1>1. PICK keys \in SUBSET {<<1, 1>>, <<1, 2>>} : lines \in [keys -> Rows]
  BY DEF LineMaps
<1>2. DOMAIN lines = keys
  BY <1>1
<1>3. IsFiniteSet(keys)
  <2>1. IsFiniteSet({<<1, 1>>}) /\ IsFiniteSet({<<1, 2>>})
    BY FS_Singleton
  <2>2. IsFiniteSet({<<1, 1>>} \cup {<<1, 2>>})
    BY <2>1, FS_Union
  <2>3. keys \in SUBSET ({<<1, 1>>} \cup {<<1, 2>>})
    OBVIOUS
  <2> QED
    BY <2>2, <2>3, FS_Subset
<1>4. \A k \in keys : k[1] = 1 /\ k[2] \in {1, 2} /\ k = <<k[1], k[2]>>
  OBVIOUS
<1>5. \A r \in Rows : r.count_line = TRUE /\ r.covered_branches \in 0..2
  BY DEF Rows, Row
<1> QED
  BY <1>1, <1>2, <1>3, <1>4, <1>5

\* What SnapshotOf says.
HasShape(s, lines, n) ==
    LET f == s.files[1]
    IN /\ s.repo = "repo" /\ s.format = "lcov" /\ s.mode = "incremental" /\ s.lines = lines
       /\ DOMAIN s.files = {1} /\ s.source = "relational"
       /\ s.tests = [t \in {"t1"} |-> Covered(lines)]
       /\ f["lines"].covered = Cardinality(Covered(lines)) + n
       /\ f["lines"].total = Cardinality(DOMAIN lines) + n
       /\ f["branches"].covered = Cardinality(Branches(lines))
       /\ f["branches"].total = 2 * Cardinality(DOMAIN lines)
       /\ f["functions"].covered = (IF <<1, 1>> \in Covered(lines) THEN 1 ELSE 0)
       /\ f["functions"].total = 1
       /\ f["regions"].covered = 0 /\ f["regions"].total = 0
       /\ f.llvm_branches = Absent
       /\ f.llvm_functions = {[name |-> "f", count |-> f["functions"].covered,
                               files |-> <<1>>, regions |-> <<>>, branches |-> <<>>]}

\* Every snapshot of a run has this shape.
LEMMA SnapshotShape ==
    ASSUME NEW lines \in LineMaps, NEW n \in {0, 1}
    PROVE HasShape(SnapshotOf(lines, n), lines, n)
  BY DEF HasShape, SnapshotOf, Covered, Branches

\* No more covered branches than two for every line.
LEMMA TwoBranches ==
    ASSUME NEW lines \in LineMaps
    PROVE /\ IsFiniteSet(Branches(lines)) /\ Cardinality(Branches(lines)) \in Nat
          /\ Cardinality(DOMAIN lines) \in Nat
          /\ Cardinality(Branches(lines)) <= 2 * Cardinality(DOMAIN lines)
<1>1. IsFiniteSet(DOMAIN lines) /\ \A k \in DOMAIN lines : lines[k].covered_branches \in 0..2
  BY LineMapsAreRows
<1>2. IsFiniteSet(1..2) /\ Cardinality(1..2) = 2
  BY PositionCount
<1>3. /\ IsFiniteSet((DOMAIN lines) \X (1..2))
      /\ Cardinality((DOMAIN lines) \X (1..2)) = Cardinality(DOMAIN lines) * 2
  BY <1>1, <1>2, FS_Product
<1>4. Branches(lines) \in SUBSET ((DOMAIN lines) \X (1..2))
  <2>1. \A k \in DOMAIN lines : 1..lines[k].covered_branches \subseteq 1..2
    BY <1>1
  <2> QED
    BY <2>1 DEF Branches
<1>5. Cardinality(DOMAIN lines) \in Nat
  BY <1>1, FS_CardinalityType
<1>6. IsFiniteSet(Branches(lines))
      /\ Cardinality(Branches(lines)) <= Cardinality((DOMAIN lines) \X (1..2))
  BY <1>3, <1>4, FS_Subset
<1>7. Cardinality(Branches(lines)) \in Nat
  BY <1>6, FS_CardinalityType
<1> QED
  BY <1>3, <1>5, <1>6, <1>7

\* The units that its function names.
LEMMA UnitsOfSnapshot ==
    ASSUME NEW f, f # Absent, f.llvm_branches = Absent, f.llvm_functions # Absent,
           NEW c \in {0, 1},
           f.llvm_functions = {[name |-> "f", count |-> c, files |-> << 1 >>,
                                regions |-> <<>>, branches |-> <<>>]}
    PROVE /\ V!C!coverage_units(1, f, "functions") = [total |-> {"f"},
                                                      covered |-> IF c = 1 THEN {"f"} ELSE {}]
          /\ \A m \in {"branches", "regions"} :
               V!C!coverage_units(1, f, m) = [total |-> {}, covered |-> {}]
<1> DEFINE g == [name |-> "f", count |-> c, files |-> <<1>>, regions |-> <<>>, branches |-> <<>>]
<1>1. ASSUME NEW m PROVE V!C!coverage_units(1, f, m) = V!C!llvm_function_units(1, {g}, m)
  BY DEF V!C!coverage_units
<1>2. V!C!Units({}) = [total |-> {}, covered |-> {}]
  BY DEF V!C!Units
<1>3. V!C!Units({<<"f", c>>}) = [total |-> {"f"}, covered |-> IF c = 1 THEN {"f"} ELSE {}]
  <2> DEFINE e == <<"f", c>>
             ran == {x \in {e} : x[2] > 0}
  <2>1. V!C!Units({e}) = [total |-> {x[1] : x \in {e}}, covered |-> {x[1] : x \in ran}]
    BY DEF V!C!Units
  <2>2. e[1] = "f" /\ e[2] = c
    OBVIOUS
  <2> HIDE DEF e
  <2>3. {x[1] : x \in {e}} = {"f"}
    BY <2>2
  <2>4. CASE c = 1
    <3>1. ran = {e}
      BY <2>2, <2>4
    <3> QED
      BY <2>1, <2>3, <2>4, <3>1 DEF e
  <2>5. CASE c = 0
    <3>1. ran = {}
      BY <2>2, <2>5
    <3>2. {x[1] : x \in ran} = {}
      BY <3>1
    <3>3. (IF c = 1 THEN {"f"} ELSE {}) = {}
      BY <2>5
    <3>4. V!C!Units({e}) = [total |-> {"f"}, covered |-> {}]
      BY <2>1, <2>3, <3>2
    <3> QED
      BY <3>3, <3>4 DEF e
  <2> QED
    BY <2>4, <2>5
<1>4. V!C!llvm_function_units(1, {g}, "functions") = V!C!Units({<<x.name, x.count>> : x \in {g}})
  BY Zenon DEF V!C!llvm_function_units
<1>5. {<<x.name, x.count>> : x \in {g}} = {<<"f", c>>}
  OBVIOUS
<1> DEFINE index(h) == IF \E i \in DOMAIN h.files : h.files[i] = 1
                         THEN CHOOSE i \in DOMAIN h.files :
                                h.files[i] = 1 /\ \A j \in 1..(i - 1) : h.files[j] # 1
                         ELSE 1
           own(h, entries) == {i \in DOMAIN entries : entries[i].file = index(h)}
           regions(h) == {<<<<h.name, i, h.regions[i].span>>, h.regions[i].hits>> :
                            i \in own(h, h.regions)}
           branches(h) == UNION {{<<<<h.name, i, h.branches[i].span, "true">>, h.branches[i].yes>>,
                                  <<<<h.name, i, h.branches[i].span, "false">>, h.branches[i].no>>} :
                                   i \in own(h, h.branches)}
<1>6. V!C!llvm_function_units(1, {g}, "regions") = V!C!Units(UNION {regions(h) : h \in {g}})
  BY Zenon DEF V!C!llvm_function_units
<1>7. V!C!llvm_function_units(1, {g}, "branches") = V!C!Units(UNION {branches(h) : h \in {g}})
  BY Zenon DEF V!C!llvm_function_units
<1>8. UNION {regions(h) : h \in {g}} = {} /\ UNION {branches(h) : h \in {g}} = {}
  <2>1. g.regions = <<>> /\ g.branches = <<>>
    OBVIOUS
  <2> HIDE DEF g, index
  <2>2. own(g, g.regions) = {} /\ own(g, g.branches) = {}
    BY <2>1
  <2> HIDE DEF own
  <2>3. regions(g) = {} /\ branches(g) = {}
    BY <2>2
  <2> HIDE DEF regions, branches
  <2> QED
    BY <2>3
<1> HIDE DEF g, regions, branches
<1> QED
  BY <1>1, <1>2, <1>3, <1>4, <1>5, <1>6, <1>7, <1>8

\* Every snapshot of the cases is a sound report of its file.
LEMMA SnapshotsAreSound ==
    ASSUME NEW s \in Snapshots
    PROVE /\ SoundReport(s, 1) /\ s.lines \in LineMaps
          /\ s.repo = "repo" /\ s.format = "lcov" /\ s.mode = "incremental"
          /\ DOMAIN s.files = {1} /\ s.source = "relational"
          /\ s.tests = [t \in {"t1"} |-> Covered(s.lines)]
<1>1. PICK lines \in LineMaps, n \in {0, 1} : s = SnapshotOf(lines, n)
  BY DEF Snapshots
<1> DEFINE f == s.files[1]
           keys == DOMAIN lines
           covered == Covered(lines)
           runs == IF <<1, 1>> \in covered THEN 1 ELSE 0
<1>2. /\ s.repo = "repo" /\ s.format = "lcov" /\ s.mode = "incremental" /\ s.lines = lines
      /\ DOMAIN s.files = {1} /\ s.source = "relational"
      /\ s.tests = [t \in {"t1"} |-> covered]
      /\ f["lines"].covered = Cardinality(covered) + n
      /\ f["lines"].total = Cardinality(keys) + n
      /\ f["branches"].covered = Cardinality(Branches(lines))
      /\ f["branches"].total = 2 * Cardinality(keys)
      /\ f["functions"].covered = runs /\ f["functions"].total = 1
      /\ f["regions"].covered = 0 /\ f["regions"].total = 0
      /\ f.llvm_branches = Absent
      /\ f.llvm_functions = {[name |-> "f", count |-> f["functions"].covered,
                              files |-> <<1>>, regions |-> <<>>, branches |-> <<>>]}
  <2>1. HasShape(s, lines, n)
    BY <1>1, SnapshotShape
  <2> QED
    BY <2>1 DEF HasShape
<1>3. f # Absent /\ f.llvm_functions # Absent
  BY AbsentIsNoReport
<1>4. /\ IsFiniteSet(keys)
      /\ \A k \in keys : k[1] = 1 /\ lines[k].count_line = TRUE
  BY LineMapsAreRows
<1>5. /\ Cardinality(keys) \in Nat /\ Cardinality(covered) \in Nat
      /\ Cardinality(covered) <= Cardinality(keys)
  <2>1. covered \in SUBSET keys
    BY DEF Covered
  <2>2. IsFiniteSet(covered) /\ Cardinality(covered) <= Cardinality(keys)
    BY <1>4, <2>1, FS_Subset
  <2> QED
    BY <1>4, <2>2, FS_CardinalityType
<1>6. /\ Cardinality(Branches(lines)) \in Nat
      /\ Cardinality(Branches(lines)) <= 2 * Cardinality(keys)
  BY TwoBranches
<1>7. runs \in {0, 1}
  OBVIOUS
<1>8. V!C!Metrics = {"lines", "branches", "functions", "regions"}
  BY DEF V!C!Metrics
<1> HIDE DEF f, keys, covered, runs
<1>9. ASSUME NEW m \in V!C!Metrics
      PROVE f[m].covered \in Nat /\ f[m].total \in Nat /\ f[m].covered <= f[m].total
  <2>1. CASE m = "lines"
    BY <1>2, <1>5, <2>1
  <2>2. CASE m = "branches"
    BY <1>2, <1>5, <1>6, <2>2
  <2>3. CASE m = "functions"
    BY <1>2, <1>7, <2>3
  <2>4. CASE m = "regions"
    BY <1>2, <2>4
  <2> QED
    BY <1>8, <2>1, <2>2, <2>3, <2>4
<1>10. V!C!Counted(1, s.lines) = keys
  BY <1>2, <1>4 DEF V!C!Counted, keys
<1>11. Cardinality(V!C!Counted(1, s.lines)) <= f["lines"].total
  BY <1>2, <1>5, <1>10
<1>12. \A k \in DOMAIN s.lines : k[1] = 1 /\ s.lines[k].covered => s.lines[k].count_line
  BY <1>2, <1>4 DEF keys
<1>13. /\ V!C!coverage_units(1, f, "functions") = [total |-> {"f"},
                                                   covered |-> IF runs = 1 THEN {"f"} ELSE {}]
       /\ \A m \in {"branches", "regions"} :
            V!C!coverage_units(1, f, m) = [total |-> {}, covered |-> {}]
  BY <1>2, <1>3, <1>7, UnitsOfSnapshot
<1>14. /\ IsFiniteSet({"f"}) /\ Cardinality({"f"}) = 1
       /\ IsFiniteSet({}) /\ Cardinality({}) = 0
  BY FS_Singleton, FS_EmptySet
<1>15. ASSUME NEW m \in V!C!Metrics \ {"lines"}
       PROVE LET units == V!C!coverage_units(1, f, m)
             IN IF units = Absent THEN f[m].total = 0 => f[m].covered = 0
                ELSE /\ IsFiniteSet(units.total) /\ units.covered \subseteq units.total
                     /\ Cardinality(units.total) = f[m].total
                          => Cardinality(units.covered) = f[m].covered
  <2> DEFINE units == V!C!coverage_units(1, f, m)
  <2>1. f[m].total = 0 => f[m].covered = 0
    BY <1>9
  <2>2. CASE m = "functions"
    <3>1. units.total = {"f"} /\ units.covered = IF runs = 1 THEN {"f"} ELSE {}
      BY <1>13, <2>2
    <3>2. f[m].total = 1 /\ f[m].covered = runs
      BY <1>2, <2>2
    <3> HIDE DEF units
    <3>3. Cardinality(units.covered) = runs /\ units.covered \subseteq units.total
      BY <1>7, <1>14, <3>1
    <3> QED
      BY <1>14, <2>1, <3>1, <3>2, <3>3 DEF units
  <2>3. CASE m \in {"branches", "regions"}
    <3>1. units.total = {} /\ units.covered = {}
      BY <1>13, <2>3
    <3> HIDE DEF units
    <3>2. Cardinality(units.total) = f[m].total => Cardinality(units.covered) = f[m].covered
      BY <1>14, <2>1, <3>1
    <3> QED
      BY <1>14, <2>1, <3>1, <3>2 DEF units
  <2> QED
    BY <1>8, <2>2, <2>3
<1>16. SoundReport(s, 1)
  BY <1>2, <1>3, <1>4, <1>9, <1>11, <1>12, <1>15 DEF SoundReport, f, keys
<1>17. s.tests = [t \in {"t1"} |-> Covered(s.lines)]
  BY <1>2 DEF covered
<1> QED
  BY <1>2, <1>16, <1>17

ReviewOf(baseline, currents) == V!IncrementalReview(currents, baseline, Absent, 10)
UnitedDetail(baseline, currents) == V!C!union_snapshot_detail_many(baseline, currents, Absent)

\* The review of some runs is the answer for their union.
LEMMA ReviewIsUnion ==
    ASSUME NEW baseline \in Snapshots, NEW currents \in Seq(Snapshots), currents # <<>>
    PROVE ReviewOf(baseline, currents).union
            = V!C!UnionAnswer(UnitedDetail(baseline, currents), currents, baseline, Absent, 10,
                              "selected_subset")
<1>1. \A i \in DOMAIN currents : currents[i] \in Snapshots
  OBVIOUS
<1>2. 1 \in DOMAIN currents
  OBVIOUS
<1>3. V!incremental_measurement_scope(currents[1]) = "selected_subset"
  BY <1>1, <1>2, SnapshotsAreSound DEF V!incremental_measurement_scope
<1>4. ~V!C!union_refused(currents, baseline, "selected_subset")
  <2>1. \A c \in V!C!Range(currents) : c.repo = "repo" /\ c.format = "lcov"
    BY <1>1, SnapshotsAreSound DEF V!C!Range
  <2>2. baseline.repo = "repo" /\ baseline.format = "lcov"
    BY SnapshotsAreSound
  <2> QED
    BY <2>1, <2>2 DEF V!C!union_refused, V!C!compatible_formats
<1>5. baseline # Absent
  BY AbsentIsNoReport
<1> DEFINE scope == V!incremental_measurement_scope(currents[1])
           union == V!C!incremental_union_compare(currents, baseline, Absent, 10, scope)
           answer == IF V!C!union_refused(currents, baseline, scope) THEN Bad
                     ELSE [status |-> "measured", claim_status |-> "supported", union |-> union,
                           next_action |-> V!incremental_next_action(union.diff.coverage_gain)]
           none == [status |-> "not_measured", claim_status |-> "not_measured",
                    next_action |-> "obtain_measurement"]
<1>6. ReviewOf(baseline, currents) = answer
  <2>1. ReviewOf(baseline, currents)
          = CASE baseline = Absent -> Bad
              [] baseline # Absent /\ currents = <<>> -> none
              [] OTHER -> answer
    BY Zenon DEF ReviewOf, V!IncrementalReview
  <2> HIDE DEF answer, none
  <2> QED
    BY <1>5, <2>1, Zenon
<1>7. answer.union = union
  <2> HIDE DEF union
  <2> QED
    BY <1>3, <1>4
<1>8. union = V!C!UnionAnswer(UnitedDetail(baseline, currents), currents, baseline, Absent, 10,
                              "selected_subset")
  BY <1>3, <1>4 DEF V!C!incremental_union_compare, UnitedDetail
<1> HIDE DEF answer, union
<1> QED
  BY <1>6, <1>7, <1>8

\* Its file is united from the files of all the reports.
LEMMA DetailIsUnion ==
    ASSUME NEW baseline \in Snapshots, NEW currents \in Seq(Snapshots), currents # <<>>
    PROVE /\ UnitedDetail(baseline, currents).files = [p \in {1} |-> UnionOf(p, baseline, currents)]
          /\ UnitedDetail(baseline, currents).newly_covered_lines = Gained(1, baseline, currents)
          /\ UnitedDetail(baseline, currents).current_lines = V!C!merge_line_maps(Maps(currents))
<1> DEFINE maps == Maps(currents)
           paths == DOMAIN baseline.files \cup {k[1] : k \in DOMAIN baseline.lines}
                    \cup UNION {DOMAIN c.files \cup {k[1] : k \in DOMAIN c.lines} :
                                  c \in V!C!Range(currents)}
           with(p) == {i \in DOMAIN currents : p \in DOMAIN currents[i].files}
           order(p) == V!C!InOrder(with(p), [i \in with(p) |-> <<i>>])
           known(p) == [n \in DOMAIN order(p) |-> currents[order(p)[n]].files[p]]
           united == [p \in paths |-> V!C!UnionOfFile(p, baseline.lines, maps,
                                        V!C!Lookup(baseline.files, p), known(p))]
           alone == [p \in paths |-> V!C!merged_current_file(p, maps, known(p))]
           gained == {k \in UNION {V!C!CoveredOf(m, {x \in DOMAIN m : m[x].count_line}) :
                                     m \in V!C!Range(maps)} :
                        /\ Absent \in {Absent, k[1]}
                        /\ k \in DOMAIN baseline.lines => ~baseline.lines[k].covered}
<1>1. UnitedDetail(baseline, currents)
        = V!C!UnionDetail(united, alone, gained, V!C!merge_line_maps(maps))
  BY DEF UnitedDetail, V!C!union_snapshot_detail_many, Maps
<1>2. UnitedDetail(baseline, currents).files = united
      /\ UnitedDetail(baseline, currents).newly_covered_lines = gained
      /\ UnitedDetail(baseline, currents).current_lines = V!C!merge_line_maps(maps)
  <2> HIDE DEF united, alone, gained, maps
  <2> QED
    BY <1>1 DEF V!C!UnionDetail
<1>3. /\ DOMAIN currents = 1..Len(currents) /\ Len(currents) \in Nat
      /\ \A i \in DOMAIN currents : currents[i] \in Snapshots
  OBVIOUS
<1>4. \A s \in Snapshots : /\ DOMAIN s.files = {1} /\ s.lines \in LineMaps
                           /\ \A k \in DOMAIN s.lines : k[1] = 1
  BY SnapshotsAreSound, LineMapsAreRows
<1>5. paths = {1}
  <2>1. DOMAIN baseline.files = {1} /\ \A k \in DOMAIN baseline.lines : k[1] = 1
    BY <1>4
  <2>2. \A c \in V!C!Range(currents) : DOMAIN c.files = {1} /\ \A k \in DOMAIN c.lines : k[1] = 1
    BY <1>3, <1>4 DEF V!C!Range
  <2> QED
    BY <2>1, <2>2
<1>6. with(1) = 1..Len(currents)
  BY <1>3, <1>4
<1>7. order(1) = [i \in 1..Len(currents) |-> i]
  <2>1. V!C!InOrder(1..Len(currents), [i \in 1..Len(currents) |-> <<i>>])
          = InOrder(1..Len(currents), [i \in 1..Len(currents) |-> <<i>>])
    BY DEF V!C!InOrder, InOrder, V!C!Less, Less, V!C!Cardinality, Cardinality
  <2> HIDE DEF with
  <2> QED
    BY <1>3, <1>6, <2>1, PlacesInOrder
<1>8. known(1) = Files(currents, 1)
  <2> HIDE DEF order
  <2> QED
    BY <1>3, <1>7 DEF Files
<1>9. V!C!Lookup(baseline.files, 1) = baseline.files[1]
  BY <1>4 DEF V!C!Lookup
<1>10. united = [p \in {1} |-> UnionOf(p, baseline, currents)]
  <2> HIDE DEF known, paths, maps
  <2>1. united = [p \in {1} |-> V!C!UnionOfFile(p, baseline.lines, maps,
                                  V!C!Lookup(baseline.files, p), known(p))]
    BY <1>5
  <2>2. UnionOf(1, baseline, currents) = V!C!UnionOfFile(1, baseline.lines, maps,
                                           V!C!Lookup(baseline.files, 1), known(1))
    BY <1>8, <1>9 DEF UnionOf, maps
  <2> QED
    BY <2>1, <2>2
<1>11. gained = Gained(1, baseline, currents)
  <2>1. \A m \in V!C!Range(maps) : \A k \in DOMAIN m : k[1] = 1
    BY <1>3, <1>4 DEF Maps, V!C!Range
  <2> HIDE DEF maps
  <2>2. \A k \in gained : k[1] = 1
    BY <2>1 DEF V!C!CoveredOf
  <2> QED
    BY <2>2 DEF Gained, maps
<1> HIDE DEF united, gained
<1> QED
  BY <1>2, <1>10, <1>11 DEF maps

-----------------------------------------------------------------------------
(* The diff of a union *)

LineKeys == {<<1, 1>>, <<1, 2>>}

\* changed_line_values of src/storage.rs: every line at most once.
LEMMA LinesChangeOnce ==
    ASSUME NEW before, NEW after, DOMAIN before \in SUBSET LineKeys, DOMAIN after \in SUBSET LineKeys
    PROVE LET changes == V!C!changed_line_values(before, after, Absent)
          IN /\ ChangedLines(changes, "category")
             /\ \A c \in changes : c = [path |-> c.path, line |-> c.line, status |-> c.status,
                                        category |-> c.category]
<1> DEFINE lookup(f, k) == V!C!Lookup(f, k)
           change == [k \in LineKeys |->
                        [path |-> k[1], line |-> k[2],
                         status |-> V!C!line_status(lookup(before, k), lookup(after, k)),
                         category |-> V!C!incremental_line_category(lookup(before, k),
                                                                    lookup(after, k))]]
           changed == {x \in DOMAIN before \cup DOMAIN after :
                         /\ Absent \in {Absent, x[1]}
                         /\ ~V!C!Same(lookup(before, x), lookup(after, x))}
           changes == V!C!changed_line_values(before, after, Absent)
<1>1. changed \in SUBSET LineKeys
  OBVIOUS
<1>2. changes = {change[k] : k \in changed}
  <2>1. changes = {[path |-> k[1], line |-> k[2],
                    status |-> V!C!line_status(lookup(before, k), lookup(after, k)),
                    category |-> V!C!incremental_line_category(lookup(before, k),
                                                               lookup(after, k))] : k \in changed}
    BY DEF V!C!changed_line_values
  <2>2. \A k \in changed : change[k] = [path |-> k[1], line |-> k[2],
                    status |-> V!C!line_status(lookup(before, k), lookup(after, k)),
                    category |-> V!C!incremental_line_category(lookup(before, k),
                                                               lookup(after, k))]
    BY <1>1
  <2> HIDE DEF change, changed, changes, lookup
  <2> QED
    BY <2>1, <2>2
<1>3. IsFiniteSet(changed)
  <2>1. IsFiniteSet({<<1, 1>>}) /\ IsFiniteSet({<<1, 2>>})
    BY FS_Singleton
  <2>2. IsFiniteSet({<<1, 1>>} \cup {<<1, 2>>})
    BY <2>1, FS_Union
  <2>3. LineKeys = {<<1, 1>>} \cup {<<1, 2>>}
    BY DEF LineKeys
  <2> HIDE DEF changed
  <2> QED
    BY <1>1, <2>2, <2>3, FS_Subset
<1>4. IsFiniteSet(changes)
  <2>1. PICK T : change \in [LineKeys -> T]
    <3> DEFINE T == {change[k] : k \in LineKeys}
    <3>1. change = [k \in LineKeys |-> change[k]] /\ \A k \in LineKeys : change[k] \in T
      OBVIOUS
    <3> HIDE DEF change
    <3>2. change \in [LineKeys -> T]
      BY <3>1
    <3> QED
      BY <3>2
  <2> DEFINE some == [k \in changed |-> change[k]]
  <2>2. some \in [changed -> T]
    BY <1>1, <2>1
  <2>3. \A k \in changed : some[k] = change[k]
    OBVIOUS
  <2> HIDE DEF change, changed, some, changes
  <2>4. IsFiniteSet({some[k] : k \in changed})
    BY <1>3, <2>2, FiniteImage
  <2>5. changes = {some[k] : k \in changed}
    BY <1>2, <2>3
  <2> QED
    BY <2>4, <2>5
<1>5. \A k \in LineKeys : /\ k[1] \in Int /\ k[2] \in Int /\ k = <<k[1], k[2]>>
                          /\ change[k].path = k[1] /\ change[k].line = k[2]
                          /\ change[k] = [path |-> change[k].path, line |-> change[k].line,
                                          status |-> change[k].status,
                                          category |-> change[k].category]
  BY DEF LineKeys
<1>6. ASSUME NEW k \in LineKeys, NEW l \in LineKeys, k[1] = l[1], k[2] = l[2] PROVE k = l
  BY <1>5, <1>6
<1> HIDE DEF change, changed, changes
<1>7. \A c \in changes : /\ c.path \in Int /\ c.line \in Int
                         /\ c = [path |-> c.path, line |-> c.line, status |-> c.status,
                                 category |-> c.category]
  <2> SUFFICES ASSUME NEW c \in changes
               PROVE /\ c.path \in Int /\ c.line \in Int
                     /\ c = [path |-> c.path, line |-> c.line, status |-> c.status,
                             category |-> c.category]
    OBVIOUS
  <2>1. PICK k \in changed : c = change[k]
    BY <1>2
  <2>2. k \in LineKeys
    BY <1>1
  <2> QED
    BY <1>5, <2>1, <2>2
<1>8. ASSUME NEW c \in changes, NEW d \in changes, c.path = d.path, c.line = d.line
      PROVE c = d
  <2>1. PICK k \in changed : c = change[k]
    BY <1>2
  <2>2. PICK l \in changed : d = change[l]
    BY <1>2
  <2>3. k \in LineKeys /\ l \in LineKeys
    BY <1>1
  <2>4. k[1] = l[1] /\ k[2] = l[2]
    BY <1>5, <1>8, <2>1, <2>2, <2>3
  <2>5. k = l
    BY <1>6, <2>3, <2>4
  <2> QED
    BY <2>1, <2>2, <2>5
<1> QED
  BY <1>4, <1>7, <1>8 DEF ChangedLines, changes

\* The diff of some changed lines, before its scope is known.
DiffOf(files, changes, tests, source) ==
    LET regions == V!C!changed_line_regions(changes, "category")
    IN [files |-> files, changed |-> changes, coverage_gain |-> V!C!Summary(changes),
        regions |-> V!C!Take(regions, 10), regions_truncated |-> Len(regions) > 10,
        tests |-> tests, detail_source |-> source]

Kept(label) == label \notin {"regressed", "removed"}

\* annotate_incremental_diff_scope of src/storage.rs: nothing is lost because
\* a subset of the tests did not reach it.
ScopedDiff(diff, scoped) ==
    /\ scoped.tests = diff.tests
    /\ \A c \in scoped.changed : Kept(c.status) /\ Kept(c.category)
    /\ \A r \in Range(scoped.regions) : Kept(r.status)

\* It keeps the tests, and relabels every line and region that a subset missed.
LEMMA SubsetsLoseNothing ==
    ASSUME NEW files, NEW changes, NEW tests, NEW source, ChangedLines(changes, "category"),
           \A c \in changes : c = [path |-> c.path, line |-> c.line, status |-> c.status,
                                   category |-> c.category]
    PROVE ScopedDiff(DiffOf(files, changes, tests, source),
                     V!C!annotate_incremental_diff_scope(DiffOf(files, changes, tests, source),
                                                         "selected_subset"))
<1> DEFINE diff == DiffOf(files, changes, tests, source)
           scoped == V!C!annotate_incremental_diff_scope(diff, "selected_subset")
           relabel(label) == V!C!relabel_scope_absence(label)
           regions == V!C!changed_line_regions(changes, "category")
           shown == V!C!Take(regions, 10)
           all == AllRegions(changes, "category")
<1>1. \A label : Kept(relabel(label))
  BY DEF Kept, V!C!relabel_scope_absence
<1>2. /\ scoped.tests = diff.tests
      /\ scoped.changed = {V!C!relabel_line(c) : c \in changes}
      /\ scoped.regions = [i \in DOMAIN shown |-> V!C!relabel_region(shown[i])]
  <2> DEFINE Marked(f, c, g, r, n, t, d) ==
               [files |-> f, changed |-> {V!C!relabel_line(x) : x \in c},
                coverage_gain |-> [g EXCEPT !["regressed"] = 0, !["removed"] = 0]
                                  @@ "not_observed" :> (g["regressed"] + g["removed"]),
                regions |-> [i \in DOMAIN r |-> V!C!relabel_region(r[i])],
                regions_truncated |-> n, tests |-> t, detail_source |-> d]
  <2>1. ASSUME NEW f, NEW c, NEW g, NEW r, NEW n, NEW t, NEW d
        PROVE V!C!annotate_incremental_diff_scope(
                [files |-> f, changed |-> c, coverage_gain |-> g, regions |-> r,
                 regions_truncated |-> n, tests |-> t, detail_source |-> d], "selected_subset")
              = Marked(f, c, g, r, n, t, d)
    BY DEF V!C!annotate_incremental_diff_scope
  <2>2. scoped = Marked(files, changes, V!C!Summary(changes), shown, Len(regions) > 10, tests, source)
    <3> HIDE DEF Marked, regions, shown
    <3> QED
      BY <2>1 DEF DiffOf, regions, shown
  <2>3. diff.tests = tests
    BY DEF DiffOf
  <2> HIDE DEF scoped, shown, diff, regions
  <2> QED
    BY <2>2, <2>3
<1>3. ASSUME NEW c \in changes
      PROVE LET d == V!C!relabel_line(c) IN Kept(d.status) /\ Kept(d.category)
  <2> DEFINE s == relabel(c.status)
             g == relabel(c.category)
             d == V!C!relabel_line(c)
  <2>1. c = [path |-> c.path, line |-> c.line, status |-> c.status, category |-> c.category]
    OBVIOUS
  <2>2. d.status = s /\ d.category = g
    BY <2>1 DEF V!C!relabel_line
  <2> QED
    BY <1>1, <2>2
<1>4. ASSUME NEW x \in all
      PROVE x = [path |-> x.path, status |-> x.status, start |-> x.start, end |-> x.end]
  BY DEF AllRegions, RegionsAlike
<1>5. regions \in Seq(all)
  <2>1. SortedBy(all, [r \in all |-> RegionKey(r)], regions)
    BY RegionsAreInOrder
  <2> HIDE DEF all, regions
  <2> QED
    BY <2>1 DEF SortedBy
<1>6. \A i \in DOMAIN shown : shown[i] \in all
  <2> HIDE DEF all, regions
  <2>1. /\ Len(regions) \in Nat /\ DOMAIN regions = 1..Len(regions)
        /\ \A i \in DOMAIN regions : regions[i] \in all
    BY <1>5
  <2> QED
    BY <2>1, <1>5 DEF V!C!Take
<1>7. ASSUME NEW i \in DOMAIN shown
      PROVE Kept(V!C!relabel_region(shown[i]).status)
  <2> DEFINE x == shown[i]
             s == relabel(x.status)
  <2>1. x = [path |-> x.path, status |-> x.status, start |-> x.start, end |-> x.end]
    BY <1>4, <1>6
  <2> HIDE DEF shown, x
  <2>2. V!C!relabel_region(x).status = s
    BY <2>1 DEF V!C!relabel_region
  <2> QED
    BY <1>1, <2>2 DEF x
<1> HIDE DEF relabel, shown, diff
<1>8. \A c \in scoped.changed : Kept(c.status) /\ Kept(c.category)
  BY <1>2, <1>3
<1>9. \A r \in Range(scoped.regions) : Kept(r.status)
  BY <1>2, <1>7 DEF Range
<1> QED
  BY <1>2, <1>8, <1>9 DEF ScopedDiff, diff

\* What the selected tests observed together.
ObservedBy(currents) == UNION {currents[i].tests["t1"] : i \in DOMAIN currents}
TestsOf(currents) == [t \in {"t1"} |-> ObservedBy(currents)]

\* UnitedTests, and composite_child_test_sets for the children of a composite:
\* the observations of all the runs.
LEMMA TestsAreUnited ==
    ASSUME NEW currents \in Seq(Snapshots), currents # <<>>
    PROVE /\ V!C!UnitedTests([i \in DOMAIN currents |-> currents[i].tests]) = TestsOf(currents)
          /\ U!composite_child_test_sets([i \in DOMAIN currents |-> i],
                                         [i \in DOMAIN currents |-> currents[i].tests])
               = TestsOf(currents)
          /\ Len(currents) = 1 => currents[1].tests = TestsOf(currents)
          /\ TestsOf(currents) # Absent
<1> DEFINE sets == [i \in DOMAIN currents |-> currents[i].tests]
           all == {sets[i] : i \in DOMAIN currents}
           united == [t \in UNION {DOMAIN s : s \in all} |->
                        UNION {s[t] : s \in {x \in all : t \in DOMAIN x}}]
<1>1. /\ DOMAIN currents = 1..Len(currents) /\ 1 \in DOMAIN currents
      /\ \A i \in DOMAIN currents : i \in Int /\ currents[i] \in Snapshots
  OBVIOUS
<1>2. ASSUME NEW i \in DOMAIN currents
      PROVE /\ sets[i] = currents[i].tests /\ sets[i] # Absent /\ DOMAIN sets[i] = {"t1"}
            /\ currents[i].tests["t1"] = Covered(currents[i].lines)
            /\ currents[i].lines \in LineMaps
            /\ currents[i].tests = [t \in {"t1"} |-> currents[i].tests["t1"]]
  <2> DEFINE s == currents[i]
             tests == [t \in {"t1"} |-> Covered(s.lines)]
  <2>1. s.tests = tests /\ s.lines \in LineMaps /\ s.tests # Absent
    BY <1>1, SnapshotsAreSound, AbsentIsNoReport
  <2>2. sets[i] = s.tests
    OBVIOUS
  <2>3. DOMAIN tests = {"t1"} /\ tests["t1"] = Covered(s.lines)
    OBVIOUS
  <2>4. tests = [t \in {"t1"} |-> tests["t1"]]
    OBVIOUS
  <2> HIDE DEF s, tests, sets
  <2>5. /\ sets[i] # Absent /\ DOMAIN sets[i] = {"t1"} /\ s.tests["t1"] = Covered(s.lines)
        /\ s.tests = [t \in {"t1"} |-> s.tests["t1"]]
    BY <2>1, <2>2, <2>3, <2>4
  <2> QED
    BY <2>1, <2>2, <2>5 DEF s
<1>3. Absent \notin all
  BY <1>2
<1>4. united = TestsOf(currents)
  <2>1. \A s \in all : DOMAIN s = {"t1"}
    BY <1>2
  <2>2. 1 \in DOMAIN currents /\ sets[1] \in all
    BY <1>1
  <2> HIDE DEF all
  <2>3. UNION {DOMAIN s : s \in all} = {"t1"}
    BY <2>1, <2>2
  <2>4. {x \in all : "t1" \in DOMAIN x} = all
    BY <2>1
  <2>5. united = [t \in {"t1"} |-> UNION {s[t] : s \in {x \in all : t \in DOMAIN x}}]
    BY <2>3
  <2>6. united = [t \in {"t1"} |-> UNION {s["t1"] : s \in all}]
    BY <2>4, <2>5
  <2>7. UNION {s["t1"] : s \in all} = ObservedBy(currents)
    <3>1. \A i \in DOMAIN currents : sets[i] = currents[i].tests
      BY <1>2
    <3> HIDE DEF sets
    <3> QED
      BY <3>1 DEF ObservedBy, all
  <2> QED
    BY <2>6, <2>7 DEF TestsOf
<1>5. DOMAIN sets = DOMAIN currents
  OBVIOUS
<1> HIDE DEF sets
<1>6. V!C!UnitedTests(sets) = united
  <2>1. V!C!Range(sets) = all
    BY <1>5 DEF V!C!Range
  <2> HIDE DEF all
  <2> QED
    BY <1>3, <2>1 DEF V!C!UnitedTests
<1>7. U!UnitedTests(sets) = united
  <2>1. U!Range(sets) = all
    BY <1>5 DEF U!Range
  <2> HIDE DEF all
  <2> QED
    BY <1>3, <2>1 DEF U!UnitedTests
<1>8. U!composite_child_test_sets([i \in DOMAIN currents |-> i], sets) = U!UnitedTests(sets)
  <2> DEFINE children == [i \in DOMAIN currents |-> i]
  <2>1. children # <<>> /\ Absent \notin U!Range(children)
    <3>1. DOMAIN children = DOMAIN currents /\ \A i \in DOMAIN currents : children[i] \in Int
      BY <1>1
    <3>2. Absent \notin Int
      BY SentinelsAreNoData
    <3> HIDE DEF children
    <3> QED
      BY <1>1, <3>1, <3>2 DEF U!Range
  <2>2. [i \in DOMAIN children |-> sets[children[i]]] = [i \in DOMAIN sets |-> sets[i]]
    BY <1>5
  <2>3. [i \in DOMAIN sets |-> sets[i]] = sets
    BY DEF sets
  <2> HIDE DEF children
  <2>4. U!composite_child_test_sets(children, sets) = U!UnitedTests(sets)
    BY <2>1, <2>2, <2>3 DEF U!composite_child_test_sets
  <2> QED
    BY <2>4 DEF children
<1>9. ASSUME Len(currents) = 1 PROVE currents[1].tests = TestsOf(currents)
  <2>1. DOMAIN currents = {1}
    BY <1>1, <1>9
  <2>2. ObservedBy(currents) = currents[1].tests["t1"]
    BY <2>1 DEF ObservedBy
  <2> QED
    BY <1>2, <2>1, <2>2 DEF TestsOf
<1>10. TestsOf(currents) # Absent
  <2> DEFINE seen == ObservedBy(currents)
             lines == [k \in seen |-> Row(1, 1)]
  <2>1. \A i \in DOMAIN currents : currents[i].tests["t1"] \in SUBSET LineKeys
    <3> SUFFICES ASSUME NEW i \in DOMAIN currents
                 PROVE currents[i].tests["t1"] \in SUBSET LineKeys
      OBVIOUS
    <3> DEFINE rows == currents[i].lines
    <3>1. rows \in LineMaps /\ currents[i].tests["t1"] = Covered(rows)
      BY <1>2
    <3> HIDE DEF rows
    <3>2. DOMAIN rows \in SUBSET LineKeys
      BY <3>1, LineMapsAreRows DEF LineKeys
    <3> QED
      BY <3>1, <3>2 DEF Covered
  <2>2. seen \in SUBSET LineKeys
    BY <2>1 DEF ObservedBy
  <2>3. lines \in LineMaps
    <3>1. Row(1, 1) \in Rows
      BY DEF Rows
    <3> HIDE DEF seen
    <3>2. lines \in [seen -> Rows]
      BY <3>1
    <3> HIDE DEF lines
    <3> QED
      BY <2>2, <3>2 DEF LineMaps, LineKeys
  <2>4. Covered(lines) = seen
    <3> HIDE DEF seen
    <3>1. Row(1, 1).covered = TRUE
      <4>1. (1 > 0) = TRUE
        OBVIOUS
      <4>2. Row(1, 1).covered = (1 > 0)
        BY DEF Row
      <4> QED
        BY <4>1, <4>2
    <3>2. DOMAIN lines = seen /\ \A k \in seen : lines[k] = Row(1, 1)
      OBVIOUS
    <3> HIDE DEF lines
    <3> QED
      BY <3>1, <3>2 DEF Covered
  <2> DEFINE s == SnapshotOf(lines, 0)
  <2>5. s \in Snapshots
    BY <2>3 DEF Snapshots
  <2>6. s.tests = [t \in {"t1"} |-> Covered(lines)]
    BY <2>3, SnapshotShape DEF HasShape
  <2> HIDE DEF s, lines
  <2>7. s.tests = TestsOf(currents)
    BY <2>4, <2>6 DEF TestsOf
  <2> QED
    BY <2>5, <2>7, AbsentIsNoReport
<1> QED
  BY <1>4, <1>6, <1>7, <1>8, <1>9, <1>10 DEF sets

\* incremental_test_attribution: the test is affected when the runs together
\* observed something else than the baseline.
Attribution(baseline, currents) ==
    V!C!incremental_test_attribution(baseline.tests, TestsOf(currents), 10)

\* incremental_test_attribution of src/storage.rs names a test exactly then.
LEMMA AffectedTests ==
    ASSUME NEW baseline \in Snapshots, NEW currents \in Seq(Snapshots), currents # <<>>
    PROVE Attribution(baseline, currents).affected # {}
            <=> ObservedBy(currents) # baseline.tests["t1"]
<1> DEFINE before == baseline.tests
           after == TestsOf(currents)
           of(sets, t) == IF t \in DOMAIN sets THEN sets[t] ELSE {}
           affected == {t \in DOMAIN before \cup DOMAIN after : of(before, t) # of(after, t)}
           item(t) == [test |-> t, added |-> of(after, t) \ of(before, t),
                       removed |-> of(before, t) \ of(after, t)]
<1>1. DOMAIN before = {"t1"} /\ before # Absent
  <2>1. before = [t \in {"t1"} |-> Covered(baseline.lines)] /\ before # Absent
    BY SnapshotsAreSound, AbsentIsNoReport
  <2> HIDE DEF before
  <2> QED
    BY <2>1
<1>2. DOMAIN after = {"t1"} /\ after["t1"] = ObservedBy(currents)
  BY DEF TestsOf
<1>3. after # Absent
  BY TestsAreUnited
<1> HIDE DEF before, after
<1>4. Attribution(baseline, currents).affected = {item(t) : t \in affected}
  BY <1>1, <1>3 DEF Attribution, V!C!incremental_test_attribution, before, after
<1>5. of(before, "t1") = before["t1"] /\ of(after, "t1") = after["t1"]
  BY <1>1, <1>2
<1>6. affected # {} <=> after["t1"] # before["t1"]
  <2>1. \A t \in affected : t = "t1"
    BY <1>1, <1>2
  <2>2. "t1" \in DOMAIN before \cup DOMAIN after
    BY <1>1
  <2> HIDE DEF of
  <2>3. "t1" \in affected <=> after["t1"] # before["t1"]
    BY <1>5, <2>2
  <2> HIDE DEF affected
  <2> QED
    BY <2>1, <2>3
<1> HIDE DEF affected, item
<1>7. Attribution(baseline, currents).affected # {} <=> affected # {}
  BY <1>4
<1> QED
  BY <1>2, <1>6, <1>7 DEF before

\* incremental_compare and incremental_diff_for_union: the diff of one run,
\* and that of several, before its scope is known.
PlainDiff(baseline, currents) ==
    IF Len(currents) = 1
      THEN V!C!incremental_compare(currents[1], baseline, Absent, 10)
      ELSE V!C!incremental_diff_for_union(baseline, UnitedDetail(baseline, currents), currents,
                                          Absent, 10)

\* Either way its changes are those of the lines, each line once.
LEMMA DiffsAreAlike ==
    ASSUME NEW baseline \in Snapshots, NEW currents \in Seq(Snapshots), currents # <<>>
    PROVE \E files, after, source :
            /\ DOMAIN after \in SUBSET LineKeys
            /\ PlainDiff(baseline, currents)
                 = DiffOf(files, V!C!changed_line_values(baseline.lines, after, Absent),
                          Attribution(baseline, currents), source)
<1>1. /\ DOMAIN currents = 1..Len(currents) /\ 1 \in DOMAIN currents
      /\ \A i \in DOMAIN currents : currents[i] \in Snapshots
  OBVIOUS
<1>2. \A s \in Snapshots : DOMAIN s.lines \in SUBSET LineKeys
  BY SnapshotsAreSound, LineMapsAreRows DEF LineKeys
<1>3. CASE Len(currents) = 1
  <2> DEFINE current == currents[1]
  <2>1. V!C!compatible_formats(current, baseline)
    BY <1>1, SnapshotsAreSound DEF V!C!compatible_formats
  <2>2. current.tests = TestsOf(currents)
    BY <1>3, TestsAreUnited
  <2> DEFINE files == V!C!compare_files(current.files, baseline.files, 10)
             source == <<baseline.source, current.source>>
  <2>3. PlainDiff(baseline, currents) = V!C!incremental_compare(current, baseline, Absent, 10)
    BY <1>3 DEF PlainDiff
  <2>4. V!C!incremental_compare(current, baseline, Absent, 10)
          = DiffOf(files, V!C!changed_line_values(baseline.lines, current.lines, Absent),
                   V!C!incremental_test_attribution(baseline.tests, current.tests, 10), source)
    BY <2>1 DEF V!C!incremental_compare, DiffOf
  <2>5. DOMAIN current.lines \in SUBSET LineKeys
    BY <1>1, <1>2
  <2> HIDE DEF files, source, current
  <2>6. PlainDiff(baseline, currents)
          = DiffOf(files, V!C!changed_line_values(baseline.lines, current.lines, Absent),
                   Attribution(baseline, currents), source)
    BY <2>2, <2>3, <2>4 DEF Attribution
  <2> QED
    BY <2>5, <2>6
<1>4. CASE Len(currents) # 1
  <2> DEFINE detail == UnitedDetail(baseline, currents)
             after == detail.current_lines
             totals(p) == [m \in V!C!Metrics |->
                             [covered |-> detail.current_files[p][m].covered,
                              total |-> detail.current_files[p][m].total]]
             current == [p \in DOMAIN detail.current_files |-> totals(p)]
             files == V!C!Take(V!C!by_line_rate_delta(current, baseline.files,
                                 DOMAIN current \cup DOMAIN baseline.files), 10)
             source == <<baseline.source, V!C!detail_source_many(currents)>>
             tests == V!C!UnitedTests([i \in DOMAIN currents |-> currents[i].tests])
  <2>1. PlainDiff(baseline, currents)
          = V!C!incremental_diff_for_union(baseline, detail, currents, Absent, 10)
    BY <1>4 DEF PlainDiff
  <2>2. V!C!incremental_diff_for_union(baseline, detail, currents, Absent, 10)
          = DiffOf(files, V!C!changed_line_values(baseline.lines, after, Absent),
                   V!C!incremental_test_attribution(baseline.tests, tests, 10), source)
    <3> HIDE DEF detail
    <3> QED
      BY DEF V!C!incremental_diff_for_union, DiffOf
  <2>3. tests = TestsOf(currents)
    BY TestsAreUnited
  <2>4. DOMAIN after \in SUBSET LineKeys
    <3> DEFINE maps == Maps(currents)
    <3>1. after = V!C!merge_line_maps(maps)
      BY DetailIsUnion
    <3>2. \A m \in V!C!Range(maps) : DOMAIN m \in SUBSET LineKeys
      BY <1>1, <1>2 DEF Maps, V!C!Range
    <3> HIDE DEF maps, after
    <3>3. DOMAIN V!C!merge_line_maps(maps) = UNION {DOMAIN m : m \in V!C!Range(maps)}
      BY DEF V!C!merge_line_maps
    <3> QED
      BY <3>1, <3>2, <3>3
  <2> HIDE DEF files, source, after, tests, detail
  <2>5. PlainDiff(baseline, currents)
          = DiffOf(files, V!C!changed_line_values(baseline.lines, after, Absent),
                   Attribution(baseline, currents), source)
    BY <2>1, <2>2, <2>3 DEF Attribution
  <2> QED
    BY <2>4, <2>5
<1> QED
  BY <1>3, <1>4

\* The diff beside the union: the affected test, and nothing lost.
LEMMA DiffIsSound ==
    ASSUME NEW baseline \in Snapshots, NEW currents \in Seq(Snapshots), currents # <<>>
    PROVE LET diff == ReviewOf(baseline, currents).union.diff
          IN /\ diff.tests.affected # {} <=> ObservedBy(currents) # baseline.tests["t1"]
             /\ \A c \in diff.changed : Kept(c.status) /\ Kept(c.category)
             /\ \A r \in Range(diff.regions) : Kept(r.status)
<1> DEFINE plain == PlainDiff(baseline, currents)
           diff == V!C!annotate_incremental_diff_scope(plain, "selected_subset")
<1>1. ReviewOf(baseline, currents).union.diff = diff
  <2> DEFINE union == V!C!UnionAnswer(UnitedDetail(baseline, currents), currents, baseline, Absent,
                                      10, "selected_subset")
  <2>1. ReviewOf(baseline, currents).union = union
    BY ReviewIsUnion
  <2>2. union.diff = diff
    BY DEF V!C!UnionAnswer, PlainDiff
  <2> HIDE DEF union, diff
  <2> QED
    BY <2>1, <2>2
<1>2. PICK files, after, source :
        /\ DOMAIN after \in SUBSET LineKeys
        /\ plain = DiffOf(files, V!C!changed_line_values(baseline.lines, after, Absent),
                          Attribution(baseline, currents), source)
  BY DiffsAreAlike
<1> DEFINE changes == V!C!changed_line_values(baseline.lines, after, Absent)
           tests == Attribution(baseline, currents)
<1>3. DOMAIN baseline.lines \in SUBSET LineKeys
  BY SnapshotsAreSound, LineMapsAreRows DEF LineKeys
<1>4. /\ ChangedLines(changes, "category")
      /\ \A c \in changes : c = [path |-> c.path, line |-> c.line, status |-> c.status,
                                 category |-> c.category]
  BY <1>2, <1>3, LinesChangeOnce
<1> HIDE DEF changes, tests, plain
<1>5. ScopedDiff(plain, diff)
  BY <1>2, <1>4, SubsetsLoseNothing DEF changes, tests
<1>6. plain.tests = tests
  BY <1>2 DEF DiffOf, tests
<1> HIDE DEF diff
<1>7. tests.affected # {} <=> ObservedBy(currents) # baseline.tests["t1"]
  BY AffectedTests DEF tests
<1> QED
  BY <1>1, <1>5, <1>6, <1>7 DEF ScopedDiff

-----------------------------------------------------------------------------
(* The cases of the run *)

\* The runs of a case are snapshots.
LEMMA RunsAreSnapshots == Runs \subseteq Snapshots
  BY DEF Runs, Snapshots

\* The numbers of the union, for one baseline and some runs.
NumbersAreUnited(baseline, currents, answer) ==
    LET reports == {baseline} \cup Range(currents)
        number(r, m) == r.files[1][m]
    IN /\ \A m \in U!Metrics :
            LET union == answer.union.files[1][m]
            IN /\ union.covered <= union.total
               /\ \A r \in reports : /\ union.total >= number(r, m).total
                                     /\ union.covered >= number(r, m).covered
               /\ union.total <= Cardinality(UNION {{r} \X (1..number(r, m).total) : r \in reports})
               /\ union.exact => union.covered = number(baseline, m).covered
                                                 + union.newly_covered
       /\ answer.union.files[1]["lines"].exact =>
            Cardinality(answer.union.newly_covered_lines)
              = answer.union.files[1]["lines"].newly_covered

\* Every number is at least what each run measured and at most the whole.
LEMMA SnapshotsAreUnited ==
    ASSUME NEW baseline \in Snapshots, NEW currents \in Seq(Snapshots), currents # <<>>
    PROVE /\ NumbersAreUnited(baseline, currents, ReviewOf(baseline, currents).union)
          /\ ReviewOf(baseline, currents).union.union.files
               = [p \in {1} |-> UnionOf(p, baseline, currents)]
<1> DEFINE answer == ReviewOf(baseline, currents).union
           detail == UnitedDetail(baseline, currents)
           reports == Reports(baseline, currents)
           union == UnionOf(1, baseline, currents)
<1>1. answer.union = detail
  <2> DEFINE all == V!C!UnionAnswer(detail, currents, baseline, Absent, 10, "selected_subset")
  <2>1. answer = all
    BY ReviewIsUnion
  <2>2. all.union = detail
    BY DEF V!C!UnionAnswer
  <2> HIDE DEF answer, all, detail
  <2> QED
    BY <2>1, <2>2
<1>2. /\ detail.files = [p \in {1} |-> UnionOf(p, baseline, currents)]
      /\ detail.newly_covered_lines = Gained(1, baseline, currents)
  BY DetailIsUnion
<1>3. reports = {baseline} \cup Range(currents)
  BY DEF Reports, Range
<1>4. \A s \in reports : SoundReport(s, 1)
  <2>1. \A s \in reports : s \in Snapshots
    BY DEF Reports
  <2> QED
    BY <2>1, SnapshotsAreSound
<1>5. \A m \in V!C!Metrics : UnitesCounts(union[m], baseline, reports, 1, m)
  BY <1>4, EveryUnionIsSound
<1>6. union["lines"].newly_covered = Cardinality(Gained(1, baseline, currents))
  BY <1>4, GainedLinesAreCounted
<1>7. detail.files[1] = union
  <2> HIDE DEF detail
  <2> QED
    BY <1>2
<1>8. U!Metrics = V!C!Metrics
  BY DEF U!Metrics, V!C!Metrics
<1> HIDE DEF answer, detail, union
<1>9. ASSUME NEW m \in V!C!Metrics
      PROVE /\ union[m].covered <= union[m].total
            /\ \A r \in reports : /\ union[m].total >= r.files[1][m].total
                                  /\ union[m].covered >= r.files[1][m].covered
            /\ union[m].total
                 <= Cardinality(UNION {{r} \X (1..r.files[1][m].total) : r \in reports})
            /\ union[m].exact => union[m].covered = baseline.files[1][m].covered
                                                    + union[m].newly_covered
  <2>1. UnitesCounts(union[m], baseline, reports, 1, m)
    BY <1>5
  <2>2. \A r \in reports : r.files[1][m].total \in Nat /\ r.files[1][m].covered \in Nat
    BY <1>4 DEF SoundReport
  <2> HIDE DEF reports
  <2> QED
    BY <2>1, <2>2 DEF UnitesCounts, Merges, UnitPlaces
<1> HIDE DEF reports
<1>10. NumbersAreUnited(baseline, currents, answer)
  BY <1>1, <1>2, <1>3, <1>6, <1>7, <1>8, <1>9 DEF NumbersAreUnited
<1> QED
  BY <1>1, <1>2, <1>10 DEF answer, detail

\* Whatever the order of the runs.
LEMMA ReversedRunsUnite ==
    ASSUME NEW baseline \in Snapshots, NEW currents \in Seq(Snapshots), currents # <<>>
    PROVE ReviewOf(baseline, Reverse(currents)).union.union.files
            = ReviewOf(baseline, currents).union.union.files
<1> DEFINE n == Len(currents)
           p == [i \in 1..n |-> n - i + 1]
           others == Reverse(currents)
<1>1. n \in Nat /\ n # 0 /\ DOMAIN currents = 1..n /\ \A i \in 1..n : currents[i] \in Snapshots
  OBVIOUS
<1>2. others = [i \in 1..n |-> currents[p[i]]] /\ \A i \in 1..n : p[i] \in 1..n
  BY <1>1 DEF Reverse
<1>3. others \in Seq(Snapshots) /\ Len(others) = n /\ others # <<>>
      /\ \A i \in 1..n : others[i] = currents[p[i]]
  <2> HIDE DEF p, others, n
  <2>1. \A i \in 1..n : currents[p[i]] \in Snapshots
    BY <1>1, <1>2
  <2>2. others \in Seq(Snapshots) /\ Len(others) = n
    BY <1>1, <1>2, <2>1
  <2>3. \A i \in 1..n : others[i] = currents[p[i]]
    BY <1>2
  <2>4. others # <<>>
    BY <1>1, <2>2
  <2> QED
    BY <2>2, <2>3, <2>4
<1>4. \A j \in 1..n : \E i \in 1..n : j = p[i]
  <2> SUFFICES ASSUME NEW j \in 1..n PROVE \E i \in 1..n : j = p[i]
    OBVIOUS
  <2>1. n - j + 1 \in 1..n /\ p[n - j + 1] = j
    BY <1>1
  <2> QED
    BY <2>1
<1> HIDE DEF p, others
<1>5. ASSUME NEW x PROVE UnionOf(x, baseline, others) = UnionOf(x, baseline, currents)
  <2>1. ReorderedBy(p, others, currents)
    BY <1>1, <1>2, <1>3, <1>4 DEF ReorderedBy
  <2>2. others \in Seq(Snapshots)
    BY <1>3
  <2> QED
    BY <2>1, <2>2, AnyOrderUnites
<1>6. ReviewOf(baseline, others).union.union.files = [x \in {1} |-> UnionOf(x, baseline, others)]
  BY <1>3, SnapshotsAreUnited
<1>7. ReviewOf(baseline, currents).union.union.files = [x \in {1} |-> UnionOf(x, baseline, currents)]
  BY SnapshotsAreUnited
<1> QED
  BY <1>5, <1>6, <1>7 DEF others

\* incremental_union_compare of src/storage.rs, whatever the reports of the
\* cases say and however many runs there are: UnionIsSound.
THEOREM UnionsAreSound == Spec => []UnionIsSound
<1>1. ASSUME CaseInv, case.kind = "union", case.currents # <<>> PROVE UnionIsSound
  <2> DEFINE baseline == case.baseline
             currents == case.currents
             answer == ReviewOf(baseline, currents).union
             swapped == ReviewOf(baseline, Reverse(currents)).union
             children == U!composite_child_test_sets([i \in DOMAIN currents |-> i],
                                                     [i \in DOMAIN currents |-> currents[i].tests])
             observed == UNION {r.tests["t1"] : r \in Range(currents)}
  <2>1. baseline \in Snapshots /\ currents \in Seq(Snapshots) /\ currents # <<>>
    <3>1. baseline \in Snapshots /\ currents \in Seq(Runs)
      BY <1>1 DEF CaseInv
    <3> HIDE DEF baseline, currents
    <3>2. currents \in Seq(Snapshots)
      BY <3>1, RunsAreSnapshots
    <3> QED
      BY <1>1, <3>1, <3>2 DEF currents
  <2>2. observed = ObservedBy(currents)
    BY DEF ObservedBy, Range
  <2>3. children["t1"] = observed
    <3> HIDE DEF observed, currents
    <3>1. children = TestsOf(currents)
      BY <2>1, TestsAreUnited
    <3> QED
      BY <2>2, <3>1 DEF TestsOf
  <2> HIDE DEF baseline, currents
  <2>4. NumbersAreUnited(baseline, currents, answer)
    BY <2>1, SnapshotsAreUnited
  <2>5. swapped.union.files = answer.union.files
    BY <2>1, ReversedRunsUnite
  <2>6. /\ answer.diff.tests.affected # {} <=> ObservedBy(currents) # baseline.tests["t1"]
        /\ \A c \in answer.diff.changed : Kept(c.status) /\ Kept(c.category)
        /\ \A r \in Range(answer.diff.regions) : Kept(r.status)
    BY <2>1, DiffIsSound
  <2>7. /\ \A c \in answer.diff.changed :
              {c.status, c.category} \cap {"regressed", "removed"} = {}
        /\ \A r \in Range(answer.diff.regions) : r.status \notin {"regressed", "removed"}
    BY <2>6 DEF Kept
  <2> HIDE DEF answer, swapped, children, observed
  <2>8. /\ NumbersAreUnited(baseline, currents, answer)
        /\ swapped.union.files = answer.union.files
        /\ children["t1"] = observed
        /\ answer.diff.tests.affected # {} <=> observed # baseline.tests["t1"]
    BY <2>2, <2>3, <2>4, <2>5, <2>6
  <2> QED
    BY <2>7, <2>8 DEF UnionIsSound, NumbersAreUnited, answer, swapped, children, observed,
                      baseline, currents, ReviewOf
<1>2. CaseInv => UnionIsSound
  BY <1>1 DEF UnionIsSound
<1> QED
  BY <1>2, CasesAreMeasured, PTL

=============================================================================
