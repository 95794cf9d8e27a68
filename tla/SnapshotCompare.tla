--------------------------- MODULE SnapshotCompare ---------------------------
(***************************************************************************)
(* Comparisons of stored snapshots: replacement diffs, changed regions,    *)
(* and the union of a baseline with incremental runs (src/storage.rs).     *)
(*                                                                         *)
(* A snapshot has repo, suite, format, repo_path, branch, commit_sha;      *)
(*   files:  path -> metric -> [covered, total], and raw LLVM detail       *)
(*   lines:  <<path, line>> -> [covered, hits, count_line, total_branches, *)
(*           covered_branches]                                             *)
(*   tests:  test -> set of observations, or Absent                        *)
(* Paths are numbers, in the order of the paths.  Bad is a refused request.*)
(***************************************************************************)
EXTENDS Integers, Sequences, FiniteSets, FiniteSetsExt, SequencesExt, Orders, TLC

CONSTANTS Bad, Absent

Metrics == {"lines", "branches", "functions", "regions"}

\* At least one record and at most one more than a page can hold.
collection_limit(limit, max) ==
    CASE limit < 1 -> 1 [] limit > max + 1 -> max + 1 [] OTHER -> limit

Take(seq, n) == SubSeq(seq, 1, IF n < Len(seq) THEN n ELSE Len(seq))

Lookup(f, key) == IF key \in DOMAIN f THEN f[key] ELSE Absent

-----------------------------------------------------------------------------
(* Regions *)

\* Consecutive lines become one region <<start, end>>.
line_regions(numbers) ==
    LET end(n) == Min({m \in numbers : n <= m /\ m + 1 \notin numbers})
        regions == {<<n, end(n)>> : n \in {m \in numbers : m - 1 \notin numbers}}
    IN InOrder(regions, [r \in regions |-> r])

status_order(status) ==
    CASE status = "regressed" -> 0
      [] status \in {"newly_covered", "improved"} -> 1
      [] status = "removed" -> 3
      [] OTHER -> 2

\* Regions of changed lines, by file and the field label, regressions first.
changed_line_regions(changes, label) ==
    LET groups == {<<c.path, c[label]>> : c \in changes}
        numbers(g) == {c.line : c \in {x \in changes : <<x.path, x[label]>> = g}}
        regions(g) == {[path |-> g[1], status |-> g[2], start |-> r[1], end |-> r[2]] :
                         r \in Range(line_regions(numbers(g)))}
        all == UNION {regions(g) : g \in groups}
    IN InOrder(all, [r \in all |-> <<status_order(r.status), r.path, r.start>>])

-----------------------------------------------------------------------------
(* Changed lines *)

Same(left, right) ==
    IF Absent \in {left, right} THEN left = right
    ELSE /\ left.covered = right.covered /\ left.hits = right.hits
         /\ left.covered_branches = right.covered_branches
         /\ left.total_branches = right.total_branches

Gap(line) == line.total_branches - line.covered_branches

line_status(left, right) ==
    CASE left = Absent -> "new"
      [] right = Absent -> "removed"
      [] left.covered /\ ~right.covered -> "regressed"
      [] ~left.covered /\ right.covered -> "improved"
      [] Gap(right) > Gap(left) -> "regressed"
      [] Gap(right) < Gap(left) -> "improved"
      [] OTHER -> "changed"

branch_state_changed(left, right) ==
    <<left.total_branches, left.covered_branches>>
      # <<right.total_branches, right.covered_branches>>

incremental_line_category(left, right) ==
    CASE left = Absent -> "added"
      [] right = Absent -> "removed"
      [] ~left.covered /\ right.covered -> "newly_covered"
      [] left.covered /\ ~right.covered -> "regressed"
      [] branch_state_changed(left, right) ->
           (CASE Gap(right) < Gap(left) -> "newly_covered"
              [] Gap(right) > Gap(left) -> "regressed"
              [] OTHER -> "branch_state_changed")
      [] left.hits # right.hits -> "hit_count_only"
      [] OTHER -> "branch_state_changed"

\* changed_line_values_from_maps, and changed_line_values_with_suite without
\* its checks.  file: the selected path, or Absent.
changed_line_values(before, after, file) ==
    {[path |-> k[1], line |-> k[2],
      status |-> line_status(Lookup(before, k), Lookup(after, k)),
      category |-> incremental_line_category(Lookup(before, k), Lookup(after, k))] :
       k \in {x \in DOMAIN before \cup DOMAIN after :
                /\ file \in {Absent, x[1]}
                /\ ~Same(Lookup(before, x), Lookup(after, x))}}

\* One check for each comparison: compare, compare_regions and changed lines
\* need the same suite, incremental comparisons the same format.
compatible_snapshot_pair(current, baseline) ==
    current.repo = baseline.repo /\ current.suite = baseline.suite
compatible_formats(current, baseline) ==
    current.repo = baseline.repo /\ current.format = baseline.format

\* Sorted by status, then place, and cut.
changed_lines(current, baseline, file, only_regressions, limit) ==
    LET changes == changed_line_values(baseline.lines, current.lines, file)
        kept == {c \in changes : only_regressions => c.status = "regressed"}
        before(c, d) ==
            LET m == status_order(c.status) n == status_order(d.status)
            IN \/ m < n
               \/ m = n /\ c.path < d.path
               \/ m = n /\ c.path = d.path /\ c.line < d.line
    IN Take(SetToSortSeq(kept, before), limit)

changed_regions(current, baseline, file, only_regressions, limit) ==
    LET changes == changed_line_values(baseline.lines, current.lines, file)
        kept == {c \in changes : only_regressions => c.status = "regressed"}
    IN Take(changed_line_regions(kept, "status"), limit)

-----------------------------------------------------------------------------
(* Totals and files *)

file_metric(file, metric) ==
    IF file = Absent THEN <<0, 0>> ELSE <<file[metric].covered, file[metric].total>>

\* A rate as the fraction it stands for; no rate without anything to cover.
\* A difference of rates is compared by cross multiplication.
Rate(covered, total) == IF total > 0 THEN <<covered, total>> ELSE Absent
RateBelow(r, s) == r[1] * s[2] < s[1] * r[2]
delta(r, s) == IF Absent \in {r, s} THEN Absent
               ELSE <<r[1] * s[2] - s[1] * r[2], r[2] * s[2]>>

\* overall_delta: counts are subtracted, rates when both exist.
overall_delta(current, baseline) ==
    [m \in Metrics |->
       [covered |-> current[m].covered - baseline[m].covered,
        total |-> current[m].total - baseline[m].total,
        rate |-> delta(Rate(current[m].covered, current[m].total),
                       Rate(baseline[m].covered, baseline[m].total))]]

LineRate(file) == LET n == file_metric(file, "lines") IN Rate(n[1], n[2])

\* The files that lost most line coverage first; a missing rate goes before
\* every other.
by_line_rate_delta(current, baseline, paths) ==
    LET change(p) == delta(LineRate(Lookup(current, p)), LineRate(Lookup(baseline, p)))
        before(p, q) ==
            LET c == change(p) d == change(q)
            IN CASE c = d -> p < q
                 [] c = Absent -> TRUE
                 [] d = Absent -> FALSE
                 [] RateBelow(c, d) -> TRUE
                 [] RateBelow(d, c) -> FALSE
                 [] OTHER -> p < q
    IN SetToSortSeq(paths, before)

\* The files are cut in the order of their paths before they are sorted.
compare_files(current, baseline, limit) ==
    LET paths == SetToSortSeq(DOMAIN current \cup DOMAIN baseline, <)
    IN by_line_rate_delta(current, baseline, Range(Take(paths, limit)))

-----------------------------------------------------------------------------
(* The union of a baseline with incremental runs *)

NoMetric == [total |-> 0, covered |-> 0, newly_covered |-> 0, exact |-> TRUE]

AddMetric(m, n) ==
    [total |-> m.total + n.total, covered |-> m.covered + n.covered,
     newly_covered |-> m.newly_covered + n.newly_covered,
     exact |-> m.exact /\ n.exact]

\* Several incremental runs as one: a line keeps its best observation.
merge_line_maps(maps) ==
    LET at(k) == {maps[i][k] : i \in {j \in DOMAIN maps : k \in DOMAIN maps[j]}}
        best(k, get(_)) == Max({get(line) : line \in at(k)})
    IN [k \in UNION {DOMAIN m : m \in Range(maps)} |->
          [covered |-> \E line \in at(k) : line.covered,
           count_line |-> \E line \in at(k) : line.count_line,
           hits |-> best(k, LAMBDA line : line.hits),
           total_branches |-> best(k, LAMBDA line : line.total_branches),
           covered_branches |-> best(k, LAMBDA line : line.covered_branches)]]

Counted(path, lines) == {k \in DOMAIN lines : k[1] = path /\ lines[k].count_line}
CoveredOf(lines, keys) == {k \in keys : k \in DOMAIN lines /\ lines[k].covered}

\* The stored rows add up to the totals of the file.
line_detail_matches_file_summary(path, lines, file) ==
    file = Absent \/ file_metric(file, "lines")
        = <<Cardinality(CoveredOf(lines, Counted(path, lines))),
            Cardinality(Counted(path, lines))>>

Largest(counts) == Max({0} \cup counts)

\* Where rows are sparse, the totals of the files bound the union from below.
Fallback(merge, baseline_file, files, metric) ==
    LET totals == {file_metric(f, metric)[2] : f \in {baseline_file} \cup Range(files)}
        covered == {file_metric(f, metric)[1] : f \in {baseline_file} \cup Range(files)}
        total == Largest({merge.total} \cup totals)
    IN [merge EXCEPT !.total = total,
                     !.covered = Min({total, Largest({merge.covered} \cup covered)})]

\* Rows are taken as complete whatever the totals of the files say.
union_line_metric_trusts_rows(path, before, currents, baseline_file, files) ==
    LET keys == Counted(path, before) \cup UNION {Counted(path, c) : c \in Range(currents)}
        was == CoveredOf(before, keys)
        now == UNION {CoveredOf(c, keys) : c \in Range(currents)}
    IN [total |-> Cardinality(keys), covered |-> Cardinality(was \cup now),
        newly_covered |-> Cardinality(now \ was), exact |-> TRUE]

\* before: the lines of the baseline; currents: those of each run; files: the
\* totals of the runs that know the file.
union_line_metric_many(path, before, currents, baseline_file, files) ==
    LET keys == Counted(path, before) \cup UNION {Counted(path, c) : c \in Range(currents)}
        was == CoveredOf(before, keys)
        now == UNION {CoveredOf(c, keys) : c \in Range(currents)}
        merge == [total |-> Cardinality(keys), covered |-> Cardinality(was \cup now),
                  newly_covered |-> Cardinality(now \ was), exact |-> TRUE]
        complete ==
            /\ line_detail_matches_file_summary(path, before, baseline_file)
            /\ files # <<>> =>
                 /\ Len(files) = Len(currents)
                 /\ \A i \in DOMAIN files :
                      line_detail_matches_file_summary(path, currents[i], files[i])
        bounded == Fallback(merge, baseline_file, files, "lines")
    IN IF keys = {} THEN [bounded EXCEPT !.exact = (bounded.total = 0)]
       ELSE IF complete THEN merge
       ELSE [bounded EXCEPT !.exact = FALSE]

Units(entries) == [total |-> {e[1] : e \in entries},
                   covered |-> {e[1] : e \in {x \in entries : x[2] > 0}}]

\* LLVM functions name their units: a function, a region or a branch outcome
\* of the file that the function's table of files names.
llvm_function_units(path, functions, metric) ==
    LET index(f) == IF \E i \in DOMAIN f.files : f.files[i] = path
                      THEN CHOOSE i \in DOMAIN f.files :
                             f.files[i] = path /\ \A j \in 1..(i - 1) : f.files[j] # path
                      ELSE 1
        own(f, entries) == {i \in DOMAIN entries : entries[i].file = index(f)}
        regions(f) == {<<<<f.name, i, f.regions[i].span>>, f.regions[i].hits>> :
                         i \in own(f, f.regions)}
        branches(f) == UNION {{<<<<f.name, i, f.branches[i].span, "true">>, f.branches[i].yes>>,
                               <<<<f.name, i, f.branches[i].span, "false">>, f.branches[i].no>>} :
                                i \in own(f, f.branches)}
    IN CASE metric = "functions" -> Units({<<f.name, f.count>> : f \in functions})
         [] metric = "regions" -> Units(UNION {regions(f) : f \in functions})
         [] metric = "branches" -> Units(UNION {branches(f) : f \in functions})

\* The branches of a file are numbered.
llvm_file_branch_units(branches) ==
    Units(UNION {{<<<<i, "true">>, branches[i].yes>>, <<<<i, "false">>, branches[i].no>>} :
                   i \in DOMAIN branches})

coverage_units(path, file, metric) ==
    IF file = Absent THEN Units({})
    ELSE IF metric = "branches" /\ file.llvm_branches # Absent
      THEN llvm_file_branch_units(file.llvm_branches)
    ELSE IF file.llvm_functions # Absent
      THEN llvm_function_units(path, file.llvm_functions, metric)
    ELSE Absent

units_match(units, total) ==
    IF units = Absent THEN total = 0 ELSE Cardinality(units.total) = total

\* Units are united when every report names as many as it counts; otherwise
\* the largest totals are used.
union_metric_for_file_many(path, metric, baseline_file, files) ==
    LET of(f) == coverage_units(path, f, metric)
        orNone(units) == IF units = Absent THEN Units({}) ELSE units
        known(f) == orNone(of(f))
        was == known(baseline_file).covered
        now == UNION {known(f).covered : f \in Range(files)}
        all == known(baseline_file).total \cup UNION {known(f).total : f \in Range(files)}
        exact == \A f \in {baseline_file} \cup Range(files) :
                   units_match(of(f), file_metric(f, metric)[2])
        bounded == Fallback(NoMetric, baseline_file, files, metric)
        gain == Largest({file_metric(f, metric)[1] : f \in Range(files)})
                  - file_metric(baseline_file, metric)[1]
    IN IF exact
         THEN [total |-> Cardinality(all), covered |-> Cardinality(was \cup now),
               newly_covered |-> Cardinality(now \ was), exact |-> TRUE]
         ELSE [bounded EXCEPT !.newly_covered = gain, !.exact = (bounded.total = 0)]

\* One file of the union: every metric.
UnionOfFile(path, before, currents, baseline_file, files) ==
    [m \in Metrics |->
       IF m = "lines"
         THEN union_line_metric_many(path, before, currents, baseline_file, files)
         ELSE union_metric_for_file_many(path, m, baseline_file, files)]

\* The runs without the baseline.  No totals and no lines: no file.
merged_current_file(path, currents, files) ==
    IF files = <<>> /\ \A c \in Range(currents) : \A k \in DOMAIN c : k[1] # path
      THEN Absent
      ELSE UnionOfFile(path, <<>>, currents, Absent, files)

Sum(files, metric) ==
    FoldFunction(AddMetric, NoMetric,
                 [p \in DOMAIN files |-> IF files[p] = Absent THEN NoMetric
                                                              ELSE files[p][metric]])

\* united: the files of the union; alone: those of the runs without the baseline.
UnionDetail(united, alone, gained, lines) ==
    LET summary(files) == [m \in Metrics |-> Sum(files, m)]
    IN [files |-> united, summary |-> summary(united),
        current_files |-> [p \in {q \in DOMAIN alone : alone[q] # Absent} |-> alone[p]],
        current_summary |-> summary(alone),
        exact |-> \A m \in Metrics : Sum(united, m).exact,
        newly_covered_lines |-> gained,
        newly_covered_regions |->
          [p \in {k[1] : k \in gained} |->
             line_regions({k[2] : k \in {x \in gained : x[1] = p}})],
        current_lines |-> lines]

\* baseline and currents are snapshots; file selects the lines that are
\* listed, never the totals.
union_snapshot_detail_many(baseline, currents, file) ==
    LET maps == [i \in DOMAIN currents |-> currents[i].lines]
        paths == DOMAIN baseline.files \cup {k[1] : k \in DOMAIN baseline.lines}
                 \cup UNION {DOMAIN c.files \cup {k[1] : k \in DOMAIN c.lines} :
                               c \in Range(currents)}
        known(p) == LET with == {i \in DOMAIN currents : p \in DOMAIN currents[i].files}
                        order == InOrder(with, [i \in with |-> <<i>>])
                    IN [n \in DOMAIN order |-> currents[order[n]].files[p]]
        united == [p \in paths |-> UnionOfFile(p, baseline.lines, maps,
                                               Lookup(baseline.files, p), known(p))]
        alone == [p \in paths |-> merged_current_file(p, maps, known(p))]
        gained == {k \in UNION {CoveredOf(m, {x \in DOMAIN m : m[x].count_line}) :
                                  m \in Range(maps)} :
                     /\ file \in {Absent, k[1]}
                     /\ k \in DOMAIN baseline.lines => ~baseline.lines[k].covered}
    IN IF currents = <<>> THEN Bad
       ELSE UnionDetail(united, alone, gained, merge_line_maps(maps))

-----------------------------------------------------------------------------
(* Test attribution *)

\* Named observations of several snapshots; one without names hides them all.
UnitedTests(sets) ==
    IF Absent \in Range(sets) THEN Absent
    ELSE [t \in UNION {DOMAIN s : s \in Range(sets)} |->
            UNION {s[t] : s \in {x \in Range(sets) : t \in DOMAIN x}}]

\* Rows first, then a compacted payload; a snapshot without names has none.
test_observation_sets(names, observations, compacted) ==
    LET sets(ns, obs) ==
            [t \in ns \cup {o[1] : o \in obs} |-> {o[2] : o \in {x \in obs : x[1] = t}}]
    IN CASE names # {} -> sets(names, observations)
         [] compacted = Absent -> Absent
         [] DOMAIN sets(compacted.names, compacted.observations) = {} -> Absent
         [] OTHER -> sets(compacted.names, compacted.observations)

incremental_test_attribution(baseline, current, max_test_ids) ==
    LET of(sets, t) == IF t \in DOMAIN sets THEN sets[t] ELSE {}
        affected == {t \in DOMAIN baseline \cup DOMAIN current :
                       of(baseline, t) # of(current, t)}
    IN IF Absent \in {baseline, current}
         THEN [status |-> "unavailable", affected |-> {}, truncated |-> FALSE]
         ELSE [status |-> "measured",
               affected |-> {[test |-> t, added |-> of(current, t) \ of(baseline, t),
                              removed |-> of(baseline, t) \ of(current, t)] : t \in affected},
               truncated |-> Cardinality(affected) > max_test_ids]

\* The children of a composite: no evidence, or a child without a snapshot,
\* leaves nothing to attribute.
composite_child_test_sets(children, tests) ==
    IF children = <<>> \/ Absent \in Range(children) THEN Absent
    ELSE UnitedTests([i \in DOMAIN children |-> tests[children[i]]])

-----------------------------------------------------------------------------
(* Reports *)

Categories == {"newly_covered", "regressed", "hit_count_only", "added", "removed",
               "branch_state_changed"}

Summary(changes) ==
    [c \in Categories |-> Cardinality({x \in changes : x.category = c})]

detail_source_many(snapshots) ==
    IF \E s \in Range(snapshots) : s.source = "compacted_payload"
      THEN "compacted_payload" ELSE "relational"

\* The replacement diff of one run against the baseline.
incremental_compare(current, baseline, file, limit) ==
    LET changes == changed_line_values(baseline.lines, current.lines, file)
        regions == changed_line_regions(changes, "category")
    IN IF ~compatible_formats(current, baseline) THEN Bad
       ELSE [files |-> compare_files(current.files, baseline.files, limit),
             changed |-> changes, coverage_gain |-> Summary(changes),
             regions |-> Take(regions, limit),
             regions_truncated |-> Len(regions) > limit,
             tests |-> incremental_test_attribution(baseline.tests, current.tests, limit),
             detail_source |-> <<baseline.source, current.source>>]

\* The replacement diff of the united runs.
incremental_diff_for_union(baseline, detail, currents, file, limit) ==
    LET changes == changed_line_values(baseline.lines, detail.current_lines, file)
        regions == changed_line_regions(changes, "category")
        totals(p) == [m \in Metrics |-> [covered |-> detail.current_files[p][m].covered,
                                         total |-> detail.current_files[p][m].total]]
        current == [p \in DOMAIN detail.current_files |-> totals(p)]
    IN [files |-> Take(by_line_rate_delta(current, baseline.files,
                         DOMAIN current \cup DOMAIN baseline.files), limit),
        changed |-> changes, coverage_gain |-> Summary(changes),
        regions |-> Take(regions, limit), regions_truncated |-> Len(regions) > limit,
        tests |-> incremental_test_attribution(baseline.tests,
                    UnitedTests([i \in DOMAIN currents |-> currents[i].tests]), limit),
        detail_source |-> <<baseline.source, detail_source_many(currents)>>]

\* A selected subset shows nothing about what it did not run.
relabel_scope_absence(label) ==
    IF label \in {"regressed", "removed"} THEN "not_observed" ELSE label
relabel_line(line) == [line EXCEPT !.status = relabel_scope_absence(@),
                                   !.category = relabel_scope_absence(@)]
relabel_region(region) == [region EXCEPT !.status = relabel_scope_absence(@)]

annotate_incremental_diff_scope(diff, scope) ==
    IF scope # "selected_subset" THEN diff
    ELSE [diff EXCEPT
            !.coverage_gain = [@ EXCEPT !["regressed"] = 0, !["removed"] = 0]
                              @@ "not_observed" :> (@["regressed"] + @["removed"]),
            !.changed = {relabel_line(c) : c \in @},
            !.regions = [i \in DOMAIN @ |-> relabel_region(@[i])]]

\* The union is the primary result; the diff is kept beside it.
UnionAnswer(detail, currents, baseline, file, limit, scope) ==
    LET diff == IF Len(currents) = 1
                  THEN incremental_compare(currents[1], baseline, file, limit)
                  ELSE incremental_diff_for_union(baseline, detail, currents, file, limit)
    IN [union |-> detail,
        diff |-> annotate_incremental_diff_scope(diff, scope),
        claim |-> IF scope = "selected_subset" THEN "limited" ELSE "supported",
        metric_deltas |-> overall_delta(detail.summary, baseline.totals)]

union_refused(currents, baseline, scope) ==
    \/ currents = <<>> \/ scope \notin {"selected_subset", "complete_snapshot"}
    \/ \E c \in Range(currents) : ~compatible_formats(c, baseline)

incremental_union_compare(currents, baseline, file, limit, scope) ==
    IF union_refused(currents, baseline, scope)
      THEN Bad
      ELSE UnionAnswer(union_snapshot_detail_many(baseline, currents, file), currents,
                       baseline, file, limit, scope)

-----------------------------------------------------------------------------
(* Targets and insights *)

\* Stored totals that do not add up cannot be ranked.
uncovered_metric(file, metric) ==
    LET n == file_metric(file, metric)
    IN IF n[1] < 0 \/ n[1] > n[2] THEN Bad ELSE n[2] - n[1]

coverage_target_priority(lines, branches, functions) ==
    100 * lines + 10 * branches + 5 * functions

target_order(t, u, order_by) ==
    LET rank == CASE order_by = "uncovered_lines" -> u.uncovered_lines - t.uncovered_lines
                  [] order_by = "priority" -> u.priority - t.priority
                  [] OTHER -> 0
        rates == <<t.line_rate, u.line_rate>>
        by_rate == CASE rates[1] = rates[2] -> FALSE
                     [] rates[1] = Absent -> FALSE
                     [] rates[2] = Absent -> TRUE
                     [] OTHER -> RateBelow(rates[1], rates[2])
    IN CASE order_by = "line_rate" /\ rates[1] # rates[2] -> by_rate
         [] rank # 0 -> rank < 0
         [] OTHER -> t.path < u.path

\* Files with a gap, ranked, with the regions of their uncovered lines.
targets(snapshot, order_by, limit) ==
    LET gap(p, m) == uncovered_metric(snapshot.files[p], m)
        lines == snapshot.lines
        missed(p) == {k[2] : k \in {x \in Counted(p, lines) : ~lines[x].covered}}
        target(p) == [path |-> p,
                      line_rate |-> LineRate(snapshot.files[p]),
                      uncovered_lines |-> gap(p, "lines"),
                      priority |-> coverage_target_priority(gap(p, "lines"),
                                     gap(p, "branches"), gap(p, "functions")),
                      regions |-> line_regions(missed(p))]
        ranked == {p \in DOMAIN snapshot.files :
                     \E m \in Metrics \ {"regions"} : gap(p, m) # 0}
    IN IF order_by \notin {"priority", "uncovered_lines", "line_rate", "file_path"}
         THEN Bad
         ELSE Take(SetToSortSeq({target(p) : p \in ranked},
                                LAMBDA t, u : target_order(t, u, order_by)), limit)

\* What is worth a look in a snapshot by itself: severity, category, path.
file_insights(path, file) ==
    LET lines == file_metric(file, "lines")
        branches == file_metric(file, "branches")
    IN (IF lines[2] > 0 /\ lines[1] = 0
          THEN {<<IF lines[2] >= 20 THEN 0 ELSE 1, "zero-coverage-file", path>>} ELSE {})
       \cup (IF lines[2] >= 5 /\ lines[1] > 0 /\ 10 * lines[1] < 6 * lines[2]
               THEN {<<1, "low-line-coverage", path>>} ELSE {})
       \cup (IF branches[2] >= 2 /\ 10 * branches[1] < 7 * branches[2]
               THEN {<<1, "low-branch-coverage", path>>} ELSE {})

\* And what a baseline adds.
insights(snapshot, baseline, limit) ==
    LET own == UNION {file_insights(p, snapshot.files[p]) : p \in DOMAIN snapshot.files}
        lost(r) == r # Absent /\ r[1] < 0
        overall == overall_delta(snapshot.totals, baseline.totals)["lines"].rate
        files == {p \in Range(compare_files(snapshot.files, baseline.files, limit)) :
                    lost(delta(LineRate(Lookup(snapshot.files, p)),
                               LineRate(Lookup(baseline.files, p))))}
        lines == SelectSeq(changed_lines(snapshot, baseline, Absent, FALSE, 20 * limit),
                           LAMBDA c : c.status = "regressed")
    IN CASE baseline = Absent -> own
         [] ~compatible_snapshot_pair(snapshot, baseline) -> Bad
         [] OTHER -> own
              \cup (IF lost(overall) THEN {<<0, "overall-regression", Absent>>} ELSE {})
              \cup {<<0, "file-regression", p>> : p \in files}
              \cup {<<0, "line-regression", c.path>> : c \in Range(Take(lines, limit))}

-----------------------------------------------------------------------------
(* Worktrees *)

\* The snapshot of the merge base, or the newest of the base branch.
\* snapshots: newest first.
ensure_lineage_baseline(repo, base_sha, base_ref, snapshots) ==
    LET own == SelectSeq(snapshots, LAMBDA s : s.repo = repo)
        exact == SelectSeq(own, LAMBDA s : base_sha # Absent /\ s.commit_sha = base_sha)
        branch == SelectSeq(own, LAMBDA s : s.branch = base_ref)
    IN CASE exact # <<>> -> exact[1]
         [] branch # <<>> -> branch[1]
         [] OTHER -> Absent

\* The frozen baseline when it has the suite, else one of the suite at the
\* same commit, else the newest of the base branch.
worktree_baseline_snapshot(worktree, suite, snapshots) ==
    LET of_suite == SelectSeq(snapshots, LAMBDA s : s.suite = suite)
        exact == SelectSeq(of_suite, LAMBDA s : /\ worktree.base_sha # Absent
                                                /\ s.commit_sha = worktree.base_sha)
        branch == SelectSeq(of_suite, LAMBDA s : s.branch = worktree.base_ref)
    IN CASE worktree.baseline = Absent -> Absent
         [] worktree.baseline.suite = suite -> worktree.baseline
         [] exact # <<>> -> exact[1]
         [] branch # <<>> -> branch[1]
         [] OTHER -> Absent

\* The snapshots of a worktree, or the totals of one of their files.
trend(worktree, file, snapshots) ==
    LET own == SelectSeq(snapshots, LAMBDA s : worktree # Absent
                                               => s.repo_path = worktree.path)
        with == SelectSeq(own, LAMBDA s : file \in DOMAIN s.files)
    IN IF file = Absent THEN own ELSE [i \in DOMAIN with |-> with[i].files[file]]

\* The current snapshot belongs to the worktree; it is compared with the
\* baseline of its own suite.
worktree_snapshot_pair(worktree, chosen, snapshots) ==
    LET own == trend(worktree, Absent, snapshots)
        current == IF chosen # Absent THEN chosen
                   ELSE IF own = <<>> THEN Absent ELSE own[1]
        baseline == worktree_baseline_snapshot(worktree, current.suite, snapshots)
    IN CASE current = Absent -> Bad
         [] current.repo # worktree.repo \/ current.repo_path # worktree.path -> Bad
         [] baseline = Absent -> Bad
         [] OTHER -> <<current, baseline>>
=============================================================================
