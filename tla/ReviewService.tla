---------------------------- MODULE ReviewService ----------------------------
(***************************************************************************)
(* The service layer: bounded answers built from what the store returns    *)
(* (src/service.rs).  Pages with cursors, word and byte budgets, the       *)
(* choice of a baseline, change reviews, composite reviews and the review  *)
(* that is attached to an incremental run.                                 *)
(*                                                                         *)
(* An item of a collection is [content, words]; snapshots are those of     *)
(* SnapshotCompare with an id, composites those of CompositeAssembly.      *)
(* Bad is an error that the caller sees.                                   *)
(***************************************************************************)
EXTENDS Integers, Sequences, FiniteSets, FiniteSetsExt, SequencesExt, TLC

CONSTANTS Bad, Absent,
          MAX_COLLECTION_RECORDS,       \* 5000
          MAX_CONTEXT_COMMANDS,         \* 8
          MAX_CONTEXT_ACTIVE_RUNS,      \* 10
          MinWords, MaxWords,           \* 50 and 5000
          MaxRanges, MaxRangeLines      \* 10 and 200

C == INSTANCE SnapshotCompare
D == INSTANCE DetailReads WITH COLLECTION_FETCH_LIMIT <- MAX_COLLECTION_RECORDS + 1

-----------------------------------------------------------------------------
(* Budgets and pages *)

validate_max_words(max_words) == max_words \in MinWords..MaxWords
validate_review_byte_budget(max_bytes) == max_bytes \in 1000..2000000

\* The words of the data and the bytes of the whole response.
apply_budget(response, words, max_words) ==
    IF validate_max_words(max_words) /\ words <= max_words THEN response ELSE Bad
apply_byte_budget(response, bytes, max_bytes) ==
    IF bytes <= max_bytes THEN response ELSE Bad

\* The digest of an item: equal for equal content, whatever the key order.
cursor_anchor(item) == item.content

encode_cursor(anchor, scope, occurrence) ==
    [after |-> anchor, occurrence |-> occurrence, scope |-> scope]

decode_cursor(cursor, scope) ==
    IF cursor = Bad \/ cursor.occurrence < 1 \/ cursor.scope # scope THEN Bad ELSE cursor

SameAnchor(values, anchor, n) ==
    Cardinality({i \in 1..n : cursor_anchor(values[i]) = anchor})

\* Mutant: equal items are not told apart.
occurrence_of_first(values, consumed) == 1

\* The how-manieth of its equals the last item of the page is.
occurrence_of(values, consumed) ==
    SameAnchor(values, cursor_anchor(values[consumed]), consumed)

\* Where a page starts: after the item that the cursor names.
page_start(values, cursor, scope) ==
    LET c == decode_cursor(cursor, scope)
        named == {i \in DOMAIN values : /\ cursor_anchor(values[i]) = c.after
                                        /\ SameAnchor(values, c.after, i) = c.occurrence}
    IN CASE cursor = Absent -> 0
         [] cursor # Absent /\ c = Bad -> Bad
         [] OTHER -> IF named = {} THEN Bad ELSE Min(named)

WordsOf(values, first, last) ==
    FoldLeft(LAMBDA w, item : w + item.words, 0, SubSeq(values, first, last))

\* A page has at least one item, stops before the item that exceeds the budget
\* and after the one that reaches it.
page_end(values, start, max_words, max_items) ==
    LET words(n) == WordsOf(values, start + 1, start + n)
    IN start + Max({n \in 0..(Len(values) - start) :
                      /\ max_items # Absent => n <= max_items
                      /\ n > 1 => words(n) <= max_words
                      /\ \A k \in 1..(n - 1) : words(k) < max_words})

page_from(values, start, end, scope, known) ==
    [items |-> SubSeq(values, start + 1, end), words |-> WordsOf(values, start + 1, end),
     total |-> known, truncated |-> end < known,
     next_cursor |-> IF end < known /\ end > start
       THEN encode_cursor(cursor_anchor(values[end]), scope, occurrence_of(values, end))
       ELSE Absent]

\* total: known number of items, or Absent.
page_with_item_limit(values, cursor, max_words, scope, total, max_items) ==
    LET known == IF total = Absent THEN Len(values) ELSE total
        start == page_start(values, cursor, scope)
    IN IF \/ ~validate_max_words(max_words)
          \/ Len(values) > MAX_COLLECTION_RECORDS \/ known > Len(values)
          \/ start = Bad
         THEN Bad
         ELSE page_from(values, start, page_end(values, start, max_words, max_items),
                        scope, known)

page(values, cursor, max_words, scope, total) ==
    page_with_item_limit(values, cursor, max_words, scope, total, Absent)

\* The fixed part first; the commands get the words that are left.
\* fixed[n]: the words of the summary with n active runs.
project_context(fixed, commands, active, cursor, max_words, scope) ==
    LET shown == Min({Len(active), MAX_CONTEXT_ACTIVE_RUNS})
        left == max_words - fixed[shown]
        bounds == IF commands = <<>> THEN <<max_words, Absent>>
                                     ELSE <<left, MAX_CONTEXT_COMMANDS>>
        answer(paged) ==
            IF paged = Bad THEN Bad
            ELSE apply_budget([page |-> paged, active |-> SubSeq(active, 1, shown),
                               active_truncated |-> Len(active) > MAX_CONTEXT_ACTIVE_RUNS],
                              fixed[shown] + paged.words, max_words)
    IN IF \/ ~validate_max_words(max_words) \/ left < 0
          \/ commands # <<>> /\ left < MinWords
         THEN Bad
         ELSE answer(page_with_item_limit(commands, cursor, bounds[1], scope, Absent,
                                          bounds[2]))

\* The cursor of the duplicate groups counts groups, from one.  projection[o]:
\* the page of groups that starts at offset o.
find_duplicate_coverage_tests(projection, cursor, scope, max_groups, max_tests, max_words) ==
    LET c == decode_cursor(cursor, scope)
        offset == IF cursor = Absent THEN 0 ELSE c.occurrence - 1
        answer == projection[offset]
        returned == Len(answer.groups)
    IN CASE max_groups \notin 1..500 \/ max_tests \notin 2..1000 \/ ~validate_max_words(max_words)
              -> Bad
         [] cursor # Absent /\ (c = Bad \/ c.after # scope) -> Bad
         [] OTHER -> [groups |-> answer.groups,
                      next_cursor |-> IF answer.has_more /\ returned > 0
                        THEN encode_cursor(scope, scope, offset + returned + 1) ELSE Absent]

-----------------------------------------------------------------------------
(* Reviews of coverage *)

\* snapshots: newest first; chosen: the ids the caller gave, or Absent.
review_current(snapshots, chosen, branch, suite, checkout) ==
    LET found(id) == SelectSeq(snapshots, LAMBDA s : s.id = id)
    IN CASE chosen = <<>> -> Bad
         [] chosen = Absent -> D!latest_snapshot(snapshots, checkout, branch, suite)
         [] OTHER -> IF found(chosen[1]) = <<>> THEN Bad ELSE found(chosen[1])[1]

\* "none", a snapshot, the baseline of the worktree, or the one before.
review_baseline(given, worktree, current, snapshots) ==
    CASE given = "none" -> Absent
      [] given # Absent -> given
      [] worktree # Absent -> C!worktree_baseline_snapshot(worktree, current.suite, snapshots)
      [] OTHER -> D!previous_snapshot(snapshots, current)

\* What the measurement says of each changed line.
ChangedLineStatus(rows, number) ==
    LET line == rows[number]
    IN CASE number \notin DOMAIN rows -> {"unmeasured"}
         [] number \in DOMAIN rows /\ ~line.count_line -> {"non_executable"}
         [] OTHER -> {IF line.covered THEN "covered" ELSE "uncovered"}
                     \cup (IF C!Gap(line) > 0 THEN {"branch_gap"} ELSE {})

\* range: <<path, start, count>>.  A range of too many lines is refused.
classify_changed_range(detail, range) ==
    LET last == range[2] + range[3] - 1
        read == D!lines_in_ranges(detail, range[1], <<<<range[2], last>>>>)
        row(n) == CHOOSE l \in Range(read) : l.line = n
        rows == [n \in {l.line : l \in Range(read)} |-> row(n)]
    IN IF read = Bad THEN Bad
       ELSE UNION {{<<range[1], n, s>> : s \in ChangedLineStatus(rows, n)} : n \in range[2]..last}

\* ranges: what git reports as changed between the two commits, or Bad.
review_changed_code(detail, baseline, current, ranges, max_regions) ==
    LET answer(lines) ==
            IF Bad \in lines THEN Bad
            ELSE [status |-> IF ranges = <<>> THEN "no_source_changes" ELSE "measured",
                  lines |-> UNION lines]
    IN IF Absent \in {baseline.commit_sha, current.commit_sha} \/ ranges = Bad
         THEN [status |-> "unavailable", lines |-> {}]
         ELSE answer({classify_changed_range(detail, r) : r \in Range(C!Take(ranges, max_regions))})

review_next_action(changed, regions) ==
    CASE changed.status = "measured" ->
           (CASE \E l \in changed.lines : l[3] = "uncovered" -> "add_tests"
              [] \E r \in Range(regions) : r.status = "regressed" -> "inspect_regression"
              [] OTHER -> "review_existing_gaps")
      [] changed.status = "no_source_changes" -> "review_existing_gaps"
      [] changed.status = "no_baseline" -> "establish_baseline"
      [] OTHER -> "obtain_measurement"

annotate_source_lines(rows, numbers) ==
    LET status(n) ==
            LET line == rows[n]
            IN CASE n \notin DOMAIN rows -> "unmeasured"
                 [] n \in DOMAIN rows /\ ~line.count_line -> "non_executable"
                 [] n \in DOMAIN rows /\ line.count_line /\ ~line.covered -> "uncovered"
                 [] OTHER -> IF C!Gap(line) > 0 THEN "branch_gap" ELSE "covered"
    IN [lines |-> [n \in numbers |-> status(n)],
        red_regions |-> C!line_regions({n \in numbers : status(n) = "uncovered"})]

\* Source around the changed regions while lines are left.  The context of a
\* region is cut to the lines that remain.  length: the lines of each file.
review_source(regions, context, max_source_lines, length) ==
    LET step(st, r) ==
            LET start == Max({r.start - context, 1})
                end == Min({r.end + context, start + max_source_lines - st.used - 1})
                shown == Max({0, Min({end, length[r.path]}) - start + 1})
            IN IF st.used >= max_source_lines THEN st
               ELSE [used |-> st.used + shown,
                     source |-> Append(st.source, <<r.path, start, end>>)]
    IN FoldLeft(step, [used |-> 0, source |-> <<>>], regions)

\* Files are cut before the path is selected, as the regions are not.
review_change(current, baseline, detail, file, max_files, max_regions, ranges) ==
    LET files == C!Take(C!compare_files(current.files, baseline.files, Max({max_files, 1})),
                        max_files)
        empty(status) == [status |-> status, files |-> <<>>, regions |-> <<>>,
                          changed |-> [status |-> status, lines |-> {}],
                          next_action |-> review_next_action([status |-> status], <<>>)]
        measured(changed, regions) ==
            IF changed = Bad THEN Bad
            ELSE [status |-> "measured", regions |-> regions, changed |-> changed,
                  files |-> SelectSeq(files, LAMBDA p : file \in {Absent, p}),
                  next_action |-> review_next_action(changed, regions)]
    IN CASE current = Absent -> empty("not_measured")
         [] current # Absent /\ baseline = Absent -> empty("no_baseline")
         [] ~C!compatible_snapshot_pair(current, baseline) -> Bad
         [] OTHER -> measured(
                       review_changed_code(detail, baseline, current, ranges, max_regions),
                       C!changed_regions(current, baseline, file, FALSE, max_regions))

\* points: line rates, newest first.
summarize_history(points) ==
    LET pairs == {i \in 1..(Len(points) - 1) : Absent \notin {points[i], points[i + 1]}}
        better(i) == C!RateBelow(points[i + 1], points[i])
        worse(i) == C!RateBelow(points[i], points[i + 1])
    IN [improvement_runs |-> Cardinality({i \in pairs : better(i)}),
        regression_runs |-> Cardinality({i \in pairs : worse(i)}),
        unchanged_runs |-> Cardinality({i \in pairs : ~better(i) /\ ~worse(i)})]

review_history(snapshots, worktree, file, detail_snapshots, summary_window) ==
    LET points == C!Take(C!trend(worktree, file, snapshots), summary_window)
        rates == [i \in DOMAIN points |->
                    C!LineRate(IF file = Absent THEN points[i].totals ELSE points[i])]
    IN [status |-> IF points = <<>> THEN "not_measured" ELSE "measured",
        detail |-> C!Take(points, detail_snapshots), summary |-> summarize_history(rates)]

review_insight(current, baseline, max_regions) ==
    LET found == C!insights(current, baseline, max_regions)
    IN CASE current = Absent -> [status |-> "not_measured", items |-> <<>>]
         [] current # Absent /\ found = Bad -> Bad
         [] OTHER -> [status |-> "measured", items |-> C!targets(current, "priority", max_regions)]

\* One run's own coverage says nothing about what it did not select.
incremental_measurement_scope(snapshot) ==
    IF snapshot.mode = "incremental" THEN "selected_subset" ELSE "complete_snapshot"

incremental_next_action(gain) ==
    CASE gain["regressed"] > 0 -> "inspect_regression"
      [] gain["newly_covered"] > 0 -> "review_incremental_gain"
      [] OTHER -> "compare_selected_runs"

ReviewBounds(q) ==
    /\ q.representation \in {"review", "compact", "audit"}
    /\ q.detail_snapshots \in 1..5 /\ q.summary_window \in 2..50
    /\ q.max_files \in 1..50 /\ q.max_regions \in 1..100 /\ q.max_test_ids \in 1..100
    /\ q.context_lines <= 20 /\ q.max_source_lines \in 10..500
    /\ validate_review_byte_budget(q.max_bytes) /\ validate_max_words(q.max_words)

\* The union of the selected runs with an explicit baseline; the first of them
\* decides the scope of all.
IncrementalReview(currents, baseline, file, max_regions) ==
    LET scope == incremental_measurement_scope(currents[1])
        answer(union) ==
            IF C!union_refused(currents, baseline, scope) THEN Bad
            ELSE [status |-> "measured", claim_status |-> "supported", union |-> union,
                  next_action |-> incremental_next_action(union.diff.coverage_gain)]
    IN CASE baseline = Absent -> Bad
         [] baseline # Absent /\ currents = <<>> ->
              [status |-> "not_measured", claim_status |-> "not_measured",
               next_action |-> "obtain_measurement"]
         [] OTHER -> answer(C!incremental_union_compare(currents, baseline, file, max_regions,
                                                        scope))

\* What the parts make of the claim.  A part that failed fails the review.
claim_status(focus, current, change, history, insight) ==
    CASE focus \in {"change", "all"} /\ change.status = "measured"
           /\ change.changed.status \in {"measured", "no_source_changes"} -> "supported"
      [] focus = "history" /\ history.status = "measured" -> "supported"
      [] focus = "insight" /\ insight.status = "measured" -> "supported"
      [] OTHER -> IF current = Absent THEN "not_measured" ELSE "limited"

\* size: the words of the data and the bytes of the whole answer.
coverage_review_with_snapshot_ids(q, current, currents, baseline, change, history, insight, size) ==
    LET needed == (IF q.focus \in {"change", "all"} THEN {change} ELSE {})
                  \cup (IF q.focus \in {"history", "all"} THEN {history} ELSE {})
                  \cup (IF q.focus \in {"insight", "all"} THEN {insight} ELSE {})
        within(response) ==
            IF Bad \in {response, apply_budget(response, size.words, q.max_words)} THEN Bad
            ELSE apply_byte_budget(response, size.bytes, q.max_bytes)
    IN CASE q.focus \notin {"change", "history", "insight", "all", "incremental"} -> Bad
         [] ~ReviewBounds(q) \/ current = Bad -> Bad
         [] q.focus = "incremental" ->
              within(IncrementalReview(currents, baseline, q.file, q.max_regions))
         [] Bad \in needed -> Bad
         [] OTHER -> within([claim_status |-> claim_status(q.focus, current, change, history,
                                                           insight),
                             parts |-> needed])

-----------------------------------------------------------------------------
(* Comparisons *)

\* Which comparison a view needs, or Bad when its selectors are missing.
comparison_selectors(view, given, base, worktree, suite, latest, previous) ==
    CASE view = "progress" -> IF Absent \in {worktree, suite} THEN Bad ELSE "progress"
      [] worktree # Absent -> "worktree"
      [] view = "regions" /\ given = Absent /\ latest = Absent -> Bad
      [] view = "regions" /\ base = Absent /\ previous = Absent -> Bad
      [] view # "regions" /\ Absent \in {given, base} -> Bad
      [] OTHER -> "pair"

\* files, lines and regions are paged; the cursor's scope has no file path.
\* words: the words of each item.
coverage_comparison(view, comparison, suite, only_regressions, cursor, max_words, words) ==
    LET values == CASE view = "files" -> comparison.files
                    [] view = "lines" ->
                         SelectSeq(comparison.changed,
                                   LAMBDA c : only_regressions => c.status = "regressed")
                    [] view = "regions" -> comparison.regions
        scope == <<comparison.current, comparison.baseline, view, only_regressions>>
    IN CASE comparison = Bad -> Bad
         [] suite \notin {Absent, comparison.suite} -> Bad
         [] view = "overview" -> [files |-> Len(comparison.files),
                                  lines |-> Len(comparison.changed)]
         [] view \in {"files", "lines", "regions"} ->
              page([i \in DOMAIN values |-> [content |-> values[i], words |-> words[i]]],
                   cursor, max_words, scope, Absent)
         [] OTHER -> Bad

-----------------------------------------------------------------------------
(* Composite reviews *)

ensure_compatible_composites(current, baseline) ==
    /\ current.repo_key = baseline.repo_key /\ current.mapping = baseline.mapping
    /\ current.inventory_hash # Absent
    /\ current.inventory_hash = baseline.inventory_hash

composite_region_covered(row) == row.state = "covered"
composite_region_hits(row) ==
    MapThenSumSet(LAMBDA v : row.variants[v].hits, DOMAIN row.variants)

composite_category_order(category) ==
    CASE category = "newly_covered" -> 0 [] category = "regressed" -> 1
      [] category = "added" -> 2 [] category = "removed" -> 3 [] OTHER -> 4

\* The rows of one key; Absent when nothing changed.
composite_category(before, after) ==
    CASE after = Absent -> "removed"
      [] before = Absent -> "added"
      [] ~composite_region_covered(before) /\ composite_region_covered(after) -> "newly_covered"
      [] composite_region_covered(before) /\ ~composite_region_covered(after) -> "regressed"
      [] composite_region_hits(before) # composite_region_hits(after) -> "hit_count_only"
      [] OTHER -> Absent

\* Start lines next to each other, of one path and category.
grouped_composite_regions(changes) ==
    LET groups == {<<c.path, c.category>> : c \in changes}
        starts(g) == {c.start : c \in {x \in changes : <<x.path, x.category>> = g}}
    IN UNION {{[path |-> g[1], category |-> g[2], start |-> r[1], end |-> r[2]] :
                 r \in Range(C!line_regions(starts(g)))} : g \in groups}

component_deltas(current, baseline) ==
    [c \in DOMAIN current.build.components |->
       LET now == current.build.components[c] before == baseline.build.components[c]
       IN [covered |-> now.covered - before.covered, total |-> now.total - before.total]]

composite_incremental_projection(current, baseline, file, max_regions) ==
    LET rows(c) == [k \in {x \in DOMAIN c.build.rows : file \in {Absent, c.build.rows[x].path}} |->
                      c.build.rows[k]]
        after == rows(current)
        before == rows(baseline)
        change(k) ==
            LET row == IF k \in DOMAIN after THEN after[k] ELSE before[k]
            IN [key |-> k, path |-> row.path, start |-> row.region.start_line,
                category |-> composite_category(C!Lookup(before, k), C!Lookup(after, k))]
        changes == {c \in {change(k) : k \in DOMAIN before \cup DOMAIN after} :
                      c.category # Absent}
        precedes(c, d) ==
            LET m == composite_category_order(c.category)
                n == composite_category_order(d.category)
            IN \/ m < n
               \/ m = n /\ (c.path < d.path \/ (c.path = d.path /\ c.start < d.start))
        shown == C!Take(SetToSortSeq(changes, precedes), max_regions)
        count(category) == Cardinality({c \in changes : c.category = category})
    IN [coverage_gain |-> [g \in {"newly_covered", "regressed", "hit_count_only", "added",
                                  "removed"} |-> count(g)],
        covered_delta |-> current.build.covered - baseline.build.covered,
        total_delta |-> current.build.total - baseline.build.total,
        components |-> component_deltas(current, baseline),
        regions |-> grouped_composite_regions(Range(shown)),
        truncated |-> Cardinality(changes) > max_regions,
        next_action |-> IF count("newly_covered") > 0 THEN "retain_baseline"
                                                      ELSE "inspect_uncovered"]

validate_composite_context(composite, repo_key) == composite.repo_key = repo_key

Insight == {"uncovered", "unmeasured", "missing_artifact", "source_mismatch"}

\* current and baseline are stored composites, Bad when there is no such id.
\* keys: the keys of the current rows in order.  Stale evidence is no insight.
composite_review(focus, current, baseline, keys, repo_key, file, max_regions) ==
    LET complete(c) == c.build.complete
        row(k) == current.build.rows[k]
        wanted == SelectSeq(keys, LAMBDA k : /\ file \in {Absent, row(k).path}
                                             /\ focus = "insight" => row(k).state \in Insight)
        claim(all) == IF all THEN "supported" ELSE "limited"
        incremental == [claim_status |-> claim(complete(current) /\ complete(baseline)),
                        incremental |-> composite_incremental_projection(current, baseline,
                                                                         file, max_regions)]
    IN CASE focus \notin {"change", "history", "insight", "source", "audit", "all", "incremental"}
              \/ max_regions \notin 1..100 -> Bad
         [] current = Bad \/ ~validate_composite_context(current, repo_key) -> Bad
         [] focus = "incremental" ->
              IF \/ baseline \in {Absent, Bad} \/ ~validate_composite_context(baseline, repo_key)
                 \/ ~ensure_compatible_composites(current, baseline)
                THEN Bad ELSE incremental
         [] focus = "history" -> [claim_status |-> claim(complete(current))]
         [] OTHER -> [claim_status |-> claim(complete(current)),
                      regions |-> C!Take(wanted, max_regions),
                      truncated |-> Len(wanted) > max_regions]

-----------------------------------------------------------------------------
(* Runs *)

automatic_incremental_review_placeholder(status, baseline) ==
    [status |-> status, baseline |-> baseline]

\* review: what the coverage or composite review of the run answers.  A run
\* that is not incremental has none; one that has not ended waits for it.
attach_automatic_incremental_review(run, review) ==
    LET not_measured == automatic_incremental_review_placeholder("not_measured", run.baseline)
    IN CASE run.mode # "incremental" -> Absent
         [] run.baseline = Absent -> not_measured
         [] ~run.terminal -> automatic_incremental_review_placeholder("pending", run.baseline)
         [] run.composite = Absent /\ (run.ingested = <<>> \/ Bad \in Range(run.ingested)) ->
              not_measured
         [] OTHER -> IF review = Bad THEN not_measured
                     ELSE [status |-> "measured", baseline |-> run.baseline]

\* Only status attaches the review; cancel answers with the run as it is.
run_state(run, action, review) ==
    CASE action = "status" -> [run |-> run, review |-> attach_automatic_incremental_review(run, review)]
      [] action = "cancel" -> [run |-> run, review |-> Absent]
      [] OTHER -> Bad

run_review(view, query, stream, context, max_matches, state, logs, budget, size) ==
    LET response == CASE view = "status" -> state
                      [] view = "logs" -> IF query = Absent THEN Bad ELSE logs
                      [] OTHER -> Bad
    IN IF \/ ~validate_max_words(budget.words) \/ ~validate_review_byte_budget(budget.bytes)
          \/ context > 20 \/ max_matches \notin 1..50
          \/ stream \notin {"stdout", "stderr", "both"}
          \/ Bad \in {response, apply_budget(response, size.words, budget.words)}
         THEN Bad ELSE apply_byte_budget(response, size.bytes, budget.bytes)
=============================================================================
