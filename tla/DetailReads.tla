----------------------------- MODULE DetailReads -----------------------------
(***************************************************************************)
(* What is read back from a store: snapshot lookups, files, lines, gaps,   *)
(* functions, source, dependencies, tests that cover the same code, run    *)
(* logs and what compaction has saved (src/storage.rs, src/git.rs).        *)
(*                                                                         *)
(* snapshots: the rows of the project, newest first, records with an id, a *)
(* repo_path, branch, suite, format, mode and commit_sha.                  *)
(* detail: the relational rows of a snapshot, [files, lines, tests], and   *)
(* the payload of a compacted one, Absent when there is none.  Names and   *)
(* paths are numbers where their order counts.                             *)
(***************************************************************************)
EXTENDS Integers, Sequences, FiniteSets, FiniteSetsExt, SequencesExt, Orders, TLC

CONSTANTS Bad, Absent,
          COLLECTION_FETCH_LIMIT,   \* rows one collection read may return
          MaxRanges, MaxRangeLines  \* 10 and 200 in the code

collection_limit(limit) == Max({1, Min({limit, COLLECTION_FETCH_LIMIT})})

First(seq, n) == SubSeq(seq, 1, Min({n, Len(seq)}))

-----------------------------------------------------------------------------
(* Snapshots *)

\* Absent selects every value of a column.
list_snapshots(snapshots, repo_path, branch, suite, limit) ==
    First(SelectSeq(snapshots, LAMBDA s : /\ repo_path \in {Absent, s.repo_path}
                                          /\ branch \in {Absent, s.branch}
                                          /\ suite \in {Absent, s.suite}),
          collection_limit(limit))

latest_snapshot(snapshots, repo_path, branch, suite) ==
    LET list == list_snapshots(snapshots, repo_path, branch, suite, 1)
    IN IF list = <<>> THEN Absent ELSE Head(list)

\* The newest of the commit on the branch, else on any branch.
snapshot_for_commit(snapshots, repo_path, branch, suite, commit) ==
    LET found(list) == SelectSeq(list, LAMBDA s : s.commit_sha = commit)
        scoped == found(list_snapshots(snapshots, repo_path, branch, suite,
                                       COLLECTION_FETCH_LIMIT))
        any == found(list_snapshots(snapshots, repo_path, Absent, suite,
                                    COLLECTION_FETCH_LIMIT))
    IN CASE scoped # <<>> -> Head(scoped)
         [] scoped = <<>> /\ any # <<>> -> Head(any)
         [] OTHER -> Absent

\* A snapshot without a branch is compared with others without one.
Siblings(snapshots, current) ==
    SelectSeq(list_snapshots(snapshots, current.repo_path, current.branch, current.suite,
                             COLLECTION_FETCH_LIMIT),
              LAMBDA s : s.branch = current.branch)

\* Mutant: a snapshot precedes itself.
OlderOrSame(list, current) ==
    LET at == {i \in DOMAIN list : list[i].id = current.id}
    IN IF at = {} THEN <<>> ELSE SubSeq(list, Min(at), Len(list))

Older(list, current) ==
    LET at == {i \in DOMAIN list : list[i].id = current.id}
    IN IF at = {} THEN <<>> ELSE SubSeq(list, Min(at) + 1, Len(list))

previous_snapshot(snapshots, current) ==
    LET older == Older(Siblings(snapshots, current), current)
    IN IF older = <<>> THEN Absent ELSE Head(older)

snapshot_is_incremental(s) == s.mode = "incremental"

\* The nearest earlier one of the format that is no incremental subset.
previous_full_snapshot(snapshots, current) ==
    LET full == SelectSeq(Older(Siblings(snapshots, current), current),
                          LAMBDA s : s.format = current.format /\ ~snapshot_is_incremental(s))
    IN IF full = <<>> THEN Absent ELSE Head(full)

-----------------------------------------------------------------------------
(* Files and lines, from the rows or, when there are none, from the payload *)

file_coverage(detail, path) ==
    CASE \E f \in Range(detail.files) : f.path = path ->
           CHOOSE f \in Range(detail.files) : f.path = path
      [] detail.payload # Absent -> (LET files == Range(detail.payload.files)
                                     IN IF \E f \in files : f.path = path
                                          THEN CHOOSE f \in files : f.path = path ELSE Bad)
      [] OTHER -> Bad

\* Rows come in path order up to the limit; a payload comes whole.
files(detail, limit) ==
    CASE detail.files # <<>> -> First(detail.files, collection_limit(limit))
      [] detail.payload # Absent -> detail.payload.files
      [] OTHER -> <<>>

lines(detail, path, limit) ==
    LET of(list) == SelectSeq(list, LAMBDA l : l.path = path)
        rows == First(of(detail.lines), collection_limit(limit))
    IN CASE rows # <<>> -> rows
         [] rows = <<>> /\ detail.payload # Absent -> of(detail.payload.lines)
         [] OTHER -> <<>>

\* The mutant forgets that a range may lie inside the one before it.
extend_last_to(range, end) == [range EXCEPT ![2] = end]

\* The last merged range grows to the end of one that touches it.
extend_last(range, end) == [range EXCEPT ![2] = Max({@, end})]

\* Ranges in order, those that touch merged, within the bounds.
normalize_line_ranges(ranges) ==
    LET ordered == SortSeq(ranges, LAMBDA r, s : r[1] < s[1] \/ (r[1] = s[1] /\ r[2] < s[2]))
        merge(done, r) ==
            IF done # <<>> /\ r[1] <= Last(done)[2] + 1
              THEN Append(Front(done), extend_last(Last(done), r[2]))
              ELSE Append(done, r)
        merged == FoldLeft(merge, <<>>, ordered)
        size == FoldLeft(LAMBDA n, r : n + r[2] - r[1] + 1, 0, merged)
    IN IF \/ Len(ranges) > MaxRanges
          \/ \E r \in Range(ranges) : r[1] < 1 \/ r[2] < r[1]
          \/ size > MaxRangeLines
         THEN Bad ELSE merged

lines_in_ranges(detail, path, ranges) ==
    LET normal == normalize_line_ranges(ranges)
    IN IF normal = Bad THEN Bad
       ELSE SelectSeq(lines(detail, path, COLLECTION_FETCH_LIMIT),
                      LAMBDA l : \E r \in Range(normal) : r[1] <= l.line /\ l.line <= r[2])

\* Runs of uncovered counted lines.  A covered counted line ends a run, and so
\* does a gap in the numbers; a line that is not counted has no effect.
file_gaps(detail, path, max_ranges) ==
    LET counted == SelectSeq(lines(detail, path, COLLECTION_FETCH_LIMIT),
                             LAMBDA l : l.count_line)
        step(st, l) ==
            CASE l.covered -> [st EXCEPT !.open = FALSE]
              [] st.open /\ l.line <= Last(st.ranges)[2] + 1 ->
                   [st EXCEPT !.ranges = Append(Front(@), <<Last(@)[1], l.line>>)]
              [] OTHER -> [ranges |-> Append(st.ranges, <<l.line, l.line>>), open |-> TRUE]
        all == FoldLeft(step, [ranges |-> <<>>, open |-> FALSE], counted).ranges
    IN [uncovered |-> Len(SelectSeq(counted, LAMBDA l : ~l.covered)),
        ranges |-> First(all, max_ranges), truncated |-> Len(all) > max_ranges]

\* Oldest first, of the snapshots that have the line.
line_history(snapshots, details, path, number, branch, suite, limit) ==
    LET chosen == Reverse(list_snapshots(snapshots, Absent, branch, suite, limit))
        point(s) == LET found == SelectSeq(lines(details[s.id], path, COLLECTION_FETCH_LIMIT),
                                           LAMBDA l : l.line = number)
                    IN IF found = <<>> THEN Absent ELSE [id |-> s.id, line |-> Head(found)]
    IN SelectSeq([i \in DOMAIN chosen |-> point(chosen[i])], LAMBDA p : p # Absent)

-----------------------------------------------------------------------------
(* LLVM functions *)

Hit(n) == IF n > 0 THEN 1 ELSE 0

\* Counted lines of the span, else the lines of the regions.
function_line_counts(rows, span, region_lines) ==
    LET inside == IF span = Absent THEN <<>>
                  ELSE SelectSeq(rows, LAMBDA l : /\ span[1] <= l.line /\ l.line <= span[2]
                                                  /\ l.count_line)
        covered == SelectSeq(inside, LAMBDA l : l.covered)
    IN IF inside # <<>> THEN <<Len(covered), Len(inside)>>
       ELSE <<Cardinality({n \in DOMAIN region_lines : region_lines[n]}),
              Cardinality(DOMAIN region_lines)>>

llvm_function_region_values(r) == IF r = Bad \/ r.fields < 8 \/ r.file = Bad THEN Bad ELSE r

MaxRegionLines == 10000

\* Completeness is the worst of the rates, or whether the function ran.
completeness_rate(f) ==
    LET rates == {m \in {f.lines, f.regions, f.branches} : m[2] > 0}
        worst == CHOOSE m \in rates : \A n \in rates : m[1] * n[2] <= n[1] * m[2]
    IN IF rates = {} THEN <<IF f.covered THEN 1 ELSE 0, 1>> ELSE worst

\* The regions and branches of a function that lie in this file; the first of
\* its files when none is this one.
project_llvm_function(path, f, rows) ==
    LET index == LET own == {i \in DOMAIN f.filenames : f.filenames[i] = path}
                 IN IF own = {} THEN 1 ELSE Min(own)
        own(r) == r.file = index
        regions == SelectSeq(f.regions, own)
        branches == SelectSeq(f.branches, own)
        invalid(r) == llvm_function_region_values(r) = Bad
        unreadable(r) == Bad \in {r.first, r.last, r.hits} \/ r.first < 1 \/ r.last < r.first
        span == IF regions = <<>> THEN Absent
                ELSE <<Min({r.first : r \in Range(regions)}), Max({r.last : r \in Range(regions)})>>
        short == {r \in Range(regions) : r.last - r.first <= MaxRegionLines}
        region_lines == [n \in UNION {r.first .. r.last : r \in short} |->
                           \E r \in short : n \in r.first .. r.last /\ r.hits > 0]
        counts ==
            [covered |-> f.count > 0,
             lines |-> function_line_counts(rows, span, region_lines),
             regions |-> <<Len(SelectSeq(regions, LAMBDA r : r.hits > 0)), Len(regions)>>,
             branches |-> <<FoldLeft(LAMBDA n, b : n + Hit(b.hits) + Hit(b.otherwise), 0, branches),
                            2 * Len(branches)>>]
    IN IF \/ f.name = Bad \/ f.count = Bad
          \/ \E r \in Range(f.regions) \cup Range(f.branches) : invalid(r)
         THEN Bad
       ELSE IF \E r \in Range(regions) \cup Range(branches) : unreadable(r) THEN Bad
       ELSE counts @@ [path |-> path, name |-> f.name, span |-> span,
                       completeness |-> completeness_rate(counts)]

\* In order of path, first line and name.
functions(detail, path, limit) ==
    LET chosen == SelectSeq(files(detail, COLLECTION_FETCH_LIMIT),
                            LAMBDA f : path \in {Absent, f.path} /\ f.functions # Absent)
        of(f) == {project_llvm_function(f.path, g, lines(detail, f.path, COLLECTION_FETCH_LIMIT)) :
                    g \in f.functions}
        all == UNION {of(f) : f \in Range(chosen)}
        place(f) == IF f.span = Absent THEN <<1, 0>> ELSE <<0, f.span[1]>>
        before(f, g) ==
            LET p == place(f) q == place(g)
            IN \/ f.path < g.path
               \/ f.path = g.path /\ (\/ p[1] < q[1] \/ (p[1] = q[1] /\ p[2] < q[2])
                                      \/ p = q /\ f.name < g.name)
    IN IF (path # Absent /\ file_coverage(detail, path) = Bad) \/ Bad \in all THEN Bad
       ELSE First(SetToSortSeq(all, before), collection_limit(limit))

-----------------------------------------------------------------------------
(* Source and dependencies.  A path is a sequence of directory names that   *)
(* ends in the name of a Rust file without its extension.                   *)

\* The file at the commit, else Absent; a path outside the repository is refused.
read_file_at_commit(commits, commit, path) ==
    CASE path.outside -> Bad
      [] commit \in DOMAIN commits /\ path.name \in DOMAIN commits[commit] ->
           commits[commit][path.name]
      [] OTHER -> Absent

\* The measured revision first, then the working tree.
snapshot_source_text(snapshot, commits, tree, path) ==
    LET committed == IF snapshot.commit_sha = Absent THEN Absent
                     ELSE read_file_at_commit(commits, snapshot.commit_sha, path)
    IN CASE path.outside -> Bad
         [] ~path.outside /\ committed # Absent -> committed
         [] path.name \in DOMAIN tree -> IF path.escapes THEN Bad ELSE tree[path.name]
         [] OTHER -> Absent

source_lines(snapshot, commits, tree, path, first, last) ==
    LET text == snapshot_source_text(snapshot, commits, tree, path)
    IN IF \/ first < 1 \/ last < first \/ last - first + 1 > MaxRangeLines
          \/ text \in {Bad, Absent}
         THEN Bad
         ELSE SubSeq(text, first, Min({last, Len(text)}))

source_resolution(snapshot, commits, tree, path) ==
    LET committed == read_file_at_commit(commits, snapshot.commit_sha, path)
        here == path.name \in DOMAIN tree
    IN CASE snapshot.commit_sha # Absent /\ committed # Absent ->
              (IF committed = Bad THEN Bad ELSE "snapshot_commit")
         [] ~here -> "unavailable"
         [] snapshot.commit_sha # Absent -> "current_checkout_fallback"
         [] OTHER -> "current_checkout"

\* A source is a sequence of lines, each the segments of the use or mod
\* declaration on it, up to the brace or the new name; others are empty.
rust_dependency_tokens(source) == Range(source) \ {<<>>}

Parent(dir) == IF dir = <<>> THEN <<>> ELSE Front(dir)

\* The longest prefix of the segments that names another measured file.
resolve_rust_dependency(file, token, known) ==
    LET here == Parent(file)
        base == CASE Head(token) = "crate" -> <<"src">>
                  [] Head(token) = "super" -> Parent(here)
                  [] OTHER -> here
        segments == IF Head(token) \in {"crate", "super", "self"} THEN Tail(token) ELSE token
        candidates(n) == LET stem == base \o SubSeq(segments, 1, n)
                         IN <<stem, Append(stem, "mod")>>
        hit(n) == {i \in {1, 2} : candidates(n)[i] \in known /\ candidates(n)[i] # file}
        depths == {n \in DOMAIN segments : hit(n) # {}}
    IN IF depths = {} THEN Absent ELSE candidates(Max(depths))[Min(hit(Max(depths)))]

dependencies(sources, known) ==
    LET tokens(f) == {f} \X rust_dependency_tokens(sources[f])
        resolved(e) == resolve_rust_dependency(e[1], e[2], known)
        declared == UNION {tokens(f) : f \in known \cap DOMAIN sources}
    IN {<<e[1], resolved(e), e[2]>> : e \in {d \in declared : resolved(d) # Absent}}

\* hunks: what git diff prints, [file, start, count] with Absent for the file
\* of a deletion and for a count of one.  Pure deletions add nothing.
parse_changed_line_ranges(hunks) ==
    IF \E h \in Range(hunks) : h.file # Absent /\ Bad \in {h.start, h.count} THEN Bad
    ELSE LET count(h) == IF h.count = Absent THEN 1 ELSE h.count
             added == SelectSeq(hunks, LAMBDA h : h.file # Absent /\ count(h) > 0)
         IN [i \in DOMAIN added |-> <<added[i].file, added[i].start, count(added[i])>>]

-----------------------------------------------------------------------------
(* Tests that cover the same code *)

\* The tests of the rows: every named test with its observations.
per_test(tests) == [n \in tests.names |-> {o.at : o \in {x \in tests.seen : x.test = n}}]

\* The tests of a payload: the named ones and those that observed something.
payload_tests(tests) ==
    [n \in tests.names \cup {o.test : o \in tests.seen} |->
       {o.at : o \in {x \in tests.seen : x.test = n}}]

\* Groups of two tests or more with equal observations, the largest first,
\* then in order of their first test.
duplicate_groups(sets) ==
    LET group(n) == {m \in DOMAIN sets : sets[m] = sets[n]}
        all == {g \in {group(n) : n \in DOMAIN sets} : Cardinality(g) > 1}
    IN InOrder(all, [g \in all |-> <<-Cardinality(g), Min(g)>>])

duplicate_coverage_projection(sets, offset, max_groups, max_tests) ==
    LET all == duplicate_groups(sets)
        page == SubSeq(all, offset + 1, Min({offset + max_groups, Len(all)}))
        members(g) == InOrder(g, [n \in g |-> <<n>>])
        empty(n) == sets[n] = {}
    IN [named |-> Cardinality(DOMAIN sets),
        without |-> Cardinality({n \in DOMAIN sets : empty(n)}),
        groups |-> [i \in DOMAIN page |-> First(members(page[i]), max_tests)],
        group_count |-> Len(all),
        test_count |-> FoldLeft(LAMBDA n, g : n + Cardinality(g), 0, all),
        empty_groups |-> Len(SelectSeq(all, LAMBDA g : \A n \in g : empty(n))),
        has_more |-> offset + Len(page) < Len(all)]

unavailable_duplicate_coverage_projection == Absent

\* The rows when a named test is left in them, else the payload.
duplicate_coverage_test_groups(detail, offset, max_groups, max_tests) ==
    LET restored == payload_tests(detail.payload.tests)
    IN CASE detail.tests.names # {} ->
              duplicate_coverage_projection(per_test(detail.tests), offset, max_groups, max_tests)
         [] detail.payload # Absent -> (IF DOMAIN restored = {}
              THEN unavailable_duplicate_coverage_projection
              ELSE duplicate_coverage_projection(restored, offset, max_groups, max_tests))
         [] OTHER -> unavailable_duplicate_coverage_projection

-----------------------------------------------------------------------------
(* Run logs.  A log is a sequence of lines, a line a set of words; a word   *)
(* is <<letters, capital>>.                                                 *)

\* chunks: how many bytes each read returned.  What exceeds the budget is
\* read and dropped.
capture_log_stream(chunks, max_bytes) ==
    FoldLeft(LAMBDA st, n :
               LET kept == Min({max_bytes - st.bytes, n})
               IN [bytes |-> st.bytes + kept, truncated |-> st.truncated \/ kept < n],
             [bytes |-> 0, truncated |-> FALSE], chunks)

\* Both streams are joined before an error of either is reported.
join_log_capture_handles(out, err) ==
    CASE out = Bad -> Bad [] err = Bad -> Bad [] OTHER -> [stdout |-> out, stderr |-> err]

summarize_logs(out, err, captures, max_lines) ==
    LET count(word) == Len(SelectSeq(out \o err, LAMBDA line : \E w \in line : w[1] = word))
    IN [counters |-> [w \in {"passed", "failed", "error", "warning"} |-> count(w)],
        excerpts |-> First(out, max_lines) \o First(err, max_lines),
        truncated |-> captures.stdout.truncated \/ captures.stderr.truncated]

context_window(log, i, context) ==
    SubSeq(log, Max({1, i - context}), Min({i + context, Len(log)}))

append_log_matches(found, log, queries, context, max_matches, case_sensitive) ==
    LET same(w, q) == IF case_sensitive THEN w = q ELSE w[1] = q[1]
        matching == SelectSeq([i \in DOMAIN log |-> i],
                              LAMBDA i : \E q \in queries : \E w \in log[i] : same(w, q))
        hits == [k \in DOMAIN matching |-> context_window(log, matching[k], context)]
    IN found \o First(hits, Max({1, max_matches - Len(found)}))

\* stdout first; a full result stops before stderr.
search_run_logs(out, err, queries, stream, context, max_matches, case_sensitive) ==
    LET search(found, log) == append_log_matches(found, log, queries, context, max_matches,
                                                 case_sensitive)
        first == IF stream \in {"both", "stdout"} THEN search(<<>>, out) ELSE <<>>
    IN CASE queries = {} \/ Cardinality(queries) > 20 -> Bad
         [] stream = "stderr" \/ (stream = "both" /\ Len(first) < max_matches) ->
              search(first, err)
         [] OTHER -> first

-----------------------------------------------------------------------------
(* Compaction *)

\* payloads: snapshot id -> [original, compressed]; cutoff: the age limit.
compaction_summary(snapshots, payloads, cutoff) ==
    LET all == Range(snapshots)
        retained == {s \in all : s.retention = "incremental_base"}
        eligible == {s \in all \ retained : s.created_at < cutoff /\ s.id \notin DOMAIN payloads}
        orphans == DOMAIN payloads \ {s.id : s \in all}
        bytes(field) == MapThenSumSet(LAMBDA p : payloads[p][field], DOMAIN payloads)
        least_zero(n) == Max({0, n})
    IN [snapshots |-> Cardinality(all), retained |-> Cardinality(retained),
        compactable |-> Cardinality(all \ retained), eligible |-> Cardinality(eligible),
        compacted |-> Cardinality(DOMAIN payloads),
        relational |-> least_zero(Cardinality(all) - Cardinality(DOMAIN payloads)),
        saved |-> least_zero(bytes("original") - bytes("compressed")),
        consistent |-> Cardinality(DOMAIN payloads) <= Cardinality(all) /\ orphans = {}]
=============================================================================
