----------------------------- MODULE MCHistories -----------------------------
(***************************************************************************)
(* Histories of snapshots that are reviewed, pairs of measurements that    *)
(* are compared, source and logs that are read back.  MCAlgorithms adds    *)
(* the other cases and runs them all.                                      *)
(***************************************************************************)
EXTENDS Integers, Sequences, FiniteSets, FiniteSetsExt, SequencesExt, Orders, TLC

CONSTANTS Bad, Absent,
          MaxHistory,      \* snapshots of a history
          MaxLogLines      \* lines that a process writes

\* Absent is none of the reasons for which a batch is rejected.
ASSUME AbsentIsNoReason == Absent \notin {"tests_failed", "incomparable"}

U == INSTANCE SnapshotCompare
Q == INSTANCE QueryEngine
D == INSTANCE DetailReads WITH COLLECTION_FETCH_LIMIT <- 6, MaxRanges <- 3, MaxRangeLines <- 4
V == INSTANCE ReviewService WITH MAX_COLLECTION_RECORDS <- 5, MAX_CONTEXT_COMMANDS <- 2,
         MAX_CONTEXT_ACTIVE_RUNS <- 1, MinWords <- 1, MaxWords <- 4,
         MaxRanges <- 3, MaxRangeLines <- 4

VARIABLE case

-----------------------------------------------------------------------------
(* One file with two lines; its branches are those of the rows, its         *)
(* function runs when the first line does.                                  *)

Row(hits, branches) == [covered |-> hits > 0, hits |-> hits, count_line |-> TRUE,
                        total_branches |-> 2, covered_branches |-> branches]

\* unlisted: covered lines that the report counts without listing them.
SnapshotOf(lines, unlisted) ==
    LET keys == DOMAIN lines
        covered == {k \in keys : lines[k].covered}
        runs == IF <<1, 1>> \in covered THEN 1 ELSE 0
        count(n, m) == [covered |-> n, total |-> m]
        file == [lines |-> count(Cardinality(covered) + unlisted, Cardinality(keys) + unlisted),
                 branches |-> count(Cardinality(UNION {{k} \X (1..lines[k].covered_branches) :
                                                         k \in keys}),
                                    2 * Cardinality(keys)),
                 functions |-> count(runs, 1), regions |-> count(0, 0),
                 llvm_branches |-> Absent,
                 llvm_functions |-> {[name |-> "f", count |-> runs, files |-> <<1>>,
                                      regions |-> <<>>, branches |-> <<>>]}]
    IN [repo |-> "repo", suite |-> "unit", format |-> "lcov", lines |-> lines,
        files |-> [p \in {1} |-> file], totals |-> file, source |-> "relational",
        tests |-> [t \in {"t1"} |-> covered], mode |-> "incremental"]

-----------------------------------------------------------------------------
(* Histories.  Snapshots of one project, of two checkouts, several branches *)
(* and two suites; commit 1 is the base of the branch of checkout 2.        *)

Contexts ==
    LET main == [branch |-> "main", suite |-> "unit", repo_path |-> 1, mode |-> "full",
                 commit_sha |-> 1]
    IN {main, [main EXCEPT !.suite = "e2e"],
        [main EXCEPT !.mode = "incremental", !.commit_sha = 2],
        [main EXCEPT !.branch = Absent, !.commit_sha = Absent],
        [main EXCEPT !.branch = "dev", !.repo_path = 2, !.commit_sha = 3]}

Measured ==
    {<<1, 1>> :> Row(0, 0), <<1, 1>> :> Row(1, 2) @@ <<1, 2>> :> Row(0, 0),
     <<1, 1>> :> Row(1, 1) @@ <<1, 2>> :> Row(1, 2), <<1, 2>> :> Row(1, 1)}

StartHistory ==
    /\ case.kind = "none"
    /\ case' = [kind |-> "history", list |-> <<>>]

Measure ==
    /\ case.kind = "history" /\ Len(case.list) < MaxHistory
    /\ \E context \in Contexts, lines \in Measured :
         case' = [case EXCEPT !.list =
                    <<context @@ [id |-> Len(@) + 1] @@ SnapshotOf(lines, 0)>> \o @]

\* The rows of a snapshot as the reads of DetailReads see them.
RowsOf(s) ==
    LET keys == SetToSortSeq(DOMAIN s.lines, LAMBDA k, l : k[2] < l[2])
    IN [files |-> <<>>, payload |-> Absent,
        lines |-> [i \in DOMAIN keys |-> [path |-> 1, line |-> keys[i][2]] @@ s.lines[keys[i]]]]

\* What git prints for an edit of the file.
Diffs ==
    LET hunk(start, count) == [file |-> 1, start |-> start, count |-> count]
    IN {<<>>, <<hunk(1, 0), hunk(2, Absent)>>, <<hunk(1, 2)>>}

\* The line is in both snapshots and lost its coverage, or branches.
Worse(before, after, k) ==
    /\ k \in DOMAIN before.lines /\ k \in DOMAIN after.lines
    /\ LET old == before.lines[k] new == after.lines[k]
       IN \/ old.covered /\ ~new.covered
          \/ old.covered = new.covered
             /\ old.total_branches - old.covered_branches
                  < new.total_branches - new.covered_branches

Keys == {<<1, 1>>, <<1, 2>>}

Query(focus) ==
    [focus |-> focus, representation |-> "review", detail_snapshots |-> 2, summary_window |-> 50,
     max_files |-> 5, max_regions |-> 10, max_test_ids |-> 5, context_lines |-> 1,
     max_source_lines |-> 10, max_bytes |-> 1000, max_words |-> 4, file |-> Absent]

\* The review of current against baseline with the changes that diff shows, and
\* the review in the other direction.
ReviewOfChange(current, baseline, diff, review, back) ==
    LET lines(r, status) == UNION {x.start..x.end :
                                     x \in {y \in Range(r.regions) : y.status = status}}
        count(h) == IF h.count = Absent THEN 1 ELSE h.count
        touched == UNION {h.start..(h.start + count(h) - 1) : h \in Range(diff)}
        dated == Absent \notin {current.commit_sha, baseline.commit_sha}
        missed == {k[2] : k \in {x \in DOMAIN current.lines : ~current.lines[x].covered}}
        source == V!review_source(review.regions, 1, 3, [p \in {1} |-> 5])
        shown == V!annotate_source_lines([n \in {k[2] : k \in DOMAIN current.lines} |->
                                            current.lines[<<1, n>>]], 1..3)
        comparison == [current |-> current.id, baseline |-> baseline.id, suite |-> current.suite,
                       files |-> review.files, regions |-> review.regions,
                       changed |-> U!changed_lines(current, baseline, Absent, FALSE, 10)]
        page == V!coverage_comparison("lines", comparison, Absent, TRUE, Absent, 4,
                                      [i \in 1..10 |-> 1])
        answer == V!coverage_review_with_snapshot_ids(
            Query("change"), current, <<current>>, baseline, review,
            V!review_history(case.list, Absent, Absent, 2, 50),
            V!review_insight(current, baseline, 10), [words |-> 4, bytes |-> 1000])
        selected == V!comparison_selectors("regions", Absent, Absent, Absent, Absent, current,
                                           baseline)
        supported == answer.claim_status = "supported"
    IN /\ IF baseline = Absent THEN ~supported ELSE supported <=> dated
       /\ IF baseline = Absent
            THEN review.next_action = "establish_baseline" /\ selected = Bad
            ELSE /\ lines(review, "regressed") = {k[2] : k \in {x \in Keys :
                                                               Worse(baseline, current, x)}}
                 /\ lines(review, "regressed") = lines(back, "improved")
                 /\ lines(review, "improved") = lines(back, "regressed")
                 /\ lines(review, "new") = lines(back, "removed")
                 /\ {item.content.line : item \in Range(page.items)} = lines(review, "regressed")
                 /\ review.next_action = "add_tests" <=> dated /\ touched \cap missed # {}
                 /\ dated => \A n \in touched : shown.lines[n] = "uncovered"
                                                  <=> <<1, n, "uncovered">> \in review.changed.lines
                 /\ source.used <= 3 /\ review.regions # <<>> => source.source # <<>>
                 /\ selected = "pair"

ReviewsOf(current, baseline, diff) ==
    LET ranges == D!parse_changed_line_ranges(diff)
    IN ReviewOfChange(current, baseline, diff,
         V!review_change(current, baseline, RowsOf(current), Absent, 5, 10, ranges),
         V!review_change(baseline, current, RowsOf(baseline), Absent, 5, 10, ranges))

\* A project's worktree whose baseline was fixed when known was the history.
WorktreeOf(known) ==
    [path |-> 2, repo |-> "repo", base_sha |-> 1, base_ref |-> "main",
     baseline |-> U!ensure_lineage_baseline("repo", 1, "main", known)]

\* coverage_review and the lookups it rests on: the baseline of a review is
\* the nearest earlier snapshot of the same checkout, branch and suite, the
\* full one skips incremental subsets; the lines it calls regressed are the
\* ones that got worse, and the review in the other direction calls them
\* improved; tests are asked for exactly when a changed line is uncovered, and
\* the claim is supported only when both commits are known; a worktree is
\* compared within one suite and with its base commit when that was measured;
\* the counted improvements and regressions agree with the ends of a history;
\* and nothing is taken for the latest measurement when suites are mixed.
HistoryIsTruthful ==
    case.list # <<>> =>
        LET list == case.list
            Nearest(at) == IF at = {} THEN Absent ELSE list[Min(at)]
            alike(i) == {j \in (i + 1)..Len(list) :
                           \A f \in {"repo_path", "branch", "suite"} : list[j][f] = list[i][f]}
            own(path) == SelectSeq(list, LAMBDA s : s.repo_path = path)
            rate(s) == U!LineRate(s.totals)
            history == V!review_history(list, Absent, 1, 2, 50).summary
            reference == Q!select_reference(Absent, Absent,
                                            D!list_snapshots(list, 1, Absent, Absent, 6), 6)
        IN /\ \A i \in DOMAIN list :
                /\ V!review_baseline(Absent, Absent, list[i], list) = Nearest(alike(i))
                /\ D!previous_full_snapshot(list, list[i])
                     = Nearest({j \in alike(i) : list[j].mode = "full"})
           /\ \A path \in {1, 2}, diff \in Diffs :
                LET current == V!review_current(list, Absent, Absent, Absent, path)
                IN current # Absent =>
                     /\ current = own(path)[1]
                     /\ ReviewsOf(current, V!review_baseline(Absent, Absent, current, list), diff)
           /\ \A k \in DOMAIN list :
                LET known == SubSeq(list, k, Len(list))
                    pair == U!worktree_snapshot_pair(WorktreeOf(known), Absent, list)
                IN pair # Bad =>
                     /\ pair[1] = own(2)[1] /\ pair[2].suite = pair[1].suite
                     /\ (\E s \in Range(known) : s.suite = pair[1].suite /\ s.commit_sha = 1)
                          => pair[2].commit_sha = 1
           /\ history.improvement_runs + history.regression_runs + history.unchanged_runs
                = Len(list) - 1
           /\ history.regression_runs = 0 /\ history.improvement_runs > 0
                => U!RateBelow(rate(Last(list)), rate(Head(list)))
           /\ V!review_insight(Head(list), Absent, 10).items # <<>>
                <=> \E n \in Range(Head(list).lines) : ~n.covered \/ n.covered_branches < 2
                    \/ <<1, 1>> \notin DOMAIN Head(list).lines
           /\ \A commit \in {1, 2} :
                LET found == D!snapshot_for_commit(list, 1, "main", Absent, commit)
                    at == {j \in DOMAIN list : list[j].commit_sha = commit}
                IN found = Nearest(at)
           /\ reference # Bad =>
                /\ own(1) # <<>> /\ reference.name = own(1)[1].id
                /\ \A s \in Range(own(1)) : s.suite = own(1)[1].suite
                /\ Q!load(reference, own(1)[1].suite, "repo", Reverse(list), <<>>) = "snapshot"

-----------------------------------------------------------------------------
(* Comparisons.  A report of two lines with a receipt, which may be for     *)
(* other bytes, another build, another state of the source or a selection   *)
(* of tests; a saved snapshot or a report without one; or a composite.      *)

NoContext == [build |-> Absent, hashes |-> Absent, tests |-> "unknown", scope |-> Absent]

ComparedReceipts ==
    LET good == [report_sha256 |-> 1, build |-> 1, hashes |-> 1 :> 1, tests |-> "passed",
                 scope |-> "full"]
    IN {good, [good EXCEPT !.report_sha256 = 2], [good EXCEPT !.build = 2],
        [good EXCEPT !.hashes = 1 :> 2], [good EXCEPT !.tests = "failed"],
        [good EXCEPT !.scope = "selected_tests"], [good EXCEPT !.hashes = <<>>], Absent}

\* A receipt that is not accepted refuses the report.
LoadedReport(hits, receipt) ==
    LET row(n) == [path |-> 1, symbol |-> 0, span |-> <<n, n>>, kind |-> "lines", arm |-> "",
                   hits |-> hits[n]]
        context == IF receipt = Absent THEN NoContext ELSE receipt
    IN IF receipt # Absent /\ ~Q!receipt_accepted(receipt, 1) THEN Bad
       ELSE [format |-> "lcov", files |-> {1}, rows |-> {row(n) : n \in DOMAIN hits},
             build |-> context.build, hashes |-> context.hashes, tests |-> context.tests,
             scope |-> context.scope,
             source |-> Q!source_state({1}, context.hashes, <<1>>)]

LoadedComposite(states, inventory) ==
    Q!decode_composite([total |-> 2, covered |-> Cardinality({n \in {1, 2} : states[n] = "covered"}),
                        inventory |-> inventory],
                       {[path |-> 1, key |-> 1, span |-> <<n, n>>, state |-> states[n],
                         source_hash |-> 1] : n \in {1, 2}})

Loadable ==
    {LoadedReport(hits, r) : hits \in {<<1, 0>>, <<0, 1>>, <<1, 1>>, <<0>>}, r \in ComparedReceipts}
    \cup {LoadedComposite(states, n) : n \in {1, 2},
            states \in {<<"covered", "uncovered">>, <<"covered", "covered">>,
                        <<"covered", "unmeasured">>}}

StartCompare ==
    /\ case.kind = "none"
    /\ \E baseline \in Loadable \ {Bad} : case' = [kind |-> "compare", baseline |-> baseline,
                                                   current |-> Absent]

LoadCurrent ==
    /\ case.kind = "compare" /\ case.current = Absent
    /\ \E current \in Loadable \ {Bad} : case' = [case EXCEPT !.current = current]

\* compare of src/query.rs for the observations of one kind: a verdict is given
\* only about one build of one state of the source; a regression only when both
\* measurements and the request are complete and something that ran no longer
\* does; a gain only when something that did not run does and no test failed;
\* inventory that nothing has measured decides nothing; and what the comparison
\* gains, the comparison the other way round loses.
HonestComparison(now, was, scope, kind) ==
    LET answer == Q!compare(now, was, scope, kind)
        back == Q!compare(was, now, scope, kind)
        keys(m, least) == {Q!Key(r) : r \in {x \in m.rows : x.kind = kind /\ x.hits >= least}}
        ran(m) == keys(m, 1)
        listed(m) == {Q!Key(r) : r \in {x \in m.rows : x.kind = kind}}
        verdict == answer.status \in {"regression", "improved", "no_gain"}
    IN /\ verdict => /\ now.build = was.build /\ now.build # Absent
                     /\ \A f \in now.files \cup was.files :
                          /\ f \in DOMAIN now.hashes /\ f \in DOMAIN was.hashes
                          /\ now.hashes[f] = was.hashes[f]
                     /\ now.format = was.format /\ now.tests # "failed"
                     /\ \A m \in {now, was} : listed(m) # {} /\ keys(m, 0) = listed(m)
       /\ answer.status = "regression" => /\ scope = "full" /\ ran(was) \ ran(now) # {}
                                          /\ now.scope = "full" /\ was.scope = "full"
       /\ answer.status = "improved" => (ran(now) \ ran(was)) \cap listed(was) # {}
       /\ answer.status = "no_gain" => (ran(now) \cap listed(was)) \subseteq ran(was)
       /\ back.lost = answer.gained \cup (answer.added \cap ran(now))

\* HonestComparison of the two measurements that were loaded, by the metric that
\* is chosen for them.
ComparisonIsHonest ==
    case.kind = "compare" /\ case.current # Absent =>
        \A scope \in {"full", "selected_tests"} :
            HonestComparison(case.current, case.baseline, scope,
                             Q!metric("auto", case.current.format = "composite"))

-----------------------------------------------------------------------------
(* Source and logs.  tree is the file in the working tree, Absent when it   *)
(* is deleted; the snapshot was measured at commit 1, which has the file or *)
(* does not.  A process writes lines to its two streams.                    *)

StartSource ==
    /\ case.kind = "none"
    /\ \E commits \in {<<>>, <<1 :> <<"a", "b">>>>}, commit \in {1, Absent} :
         case' = [kind |-> "source", commits |-> commits, snapshot |-> [commit_sha |-> commit],
                  tree |-> <<"a", "b">>]

EditSource ==
    /\ case.kind = "source"
    /\ \E text \in {<<"x", "b">>, <<"a">>, Absent} : case' = [case EXCEPT !.tree = text]

StartLogs ==
    /\ case.kind = "none"
    /\ \E max_bytes \in 1..3 : case' = [kind |-> "logs", max_bytes |-> max_bytes, out |-> <<>>,
                                        err |-> <<>>]

Write ==
    /\ case.kind = "logs" /\ Len(case.out) + Len(case.err) < MaxLogLines
    /\ \E stream \in {"out", "err"}, line \in {{<<"failed", TRUE>>}, {<<"ok", FALSE>>}} :
         case' = [case EXCEPT ![stream] = Append(@, line)]

\* The source of a snapshot is that of the commit it was measured at, whatever
\* has been edited since; a request never mixes the two.
SourceIsMeasured ==
    LET tree == IF case.tree = Absent THEN <<>> ELSE 1 :> case.tree
        path == [name |-> 1, outside |-> FALSE, escapes |-> FALSE]
        lines == D!source_lines(case.snapshot, case.commits, tree, path, 1, 2)
        resolution == D!source_resolution(case.snapshot, case.commits, tree, path)
        dated == case.snapshot.commit_sha # Absent /\ case.commits # <<>>
    IN /\ resolution = "snapshot_commit" <=> dated
       /\ dated => lines = <<"a", "b">>
       /\ ~dated => lines = IF case.tree = Absent THEN Bad ELSE case.tree
       /\ resolution = "unavailable" <=> lines = Bad

\* What a log that calls itself complete counts is what the process wrote, and
\* a search that is not full has found every line of both streams.
LogsAreSearchable ==
    LET capture(log) == D!capture_log_stream([i \in DOMAIN log |-> 1], case.max_bytes)
        captures == D!join_log_capture_handles(capture(case.out), capture(case.err))
        kept(log) == SubSeq(log, 1, capture(log).bytes)
        failed == {<<"failed", FALSE>>}
        matching(log) == Cardinality({i \in DOMAIN log : log[i] = {<<"failed", TRUE>>}})
        summary == D!summarize_logs(kept(case.out), kept(case.err), captures, 5)
        search(stream, n, sensitive) ==
            V!run_review("logs", failed, stream, 0, n, Absent,
                         D!search_run_logs(kept(case.out), kept(case.err), failed, stream, 0, n,
                                           sensitive),
                         [words |-> 4, bytes |-> 1000], [words |-> 4, bytes |-> 1000])
    IN /\ ~summary.truncated => summary.counters["failed"] = matching(case.out) + matching(case.err)
       /\ \A n \in 1..3 :
            LET found == search("both", n, FALSE)
            IN /\ Len(found) <= n
               /\ Len(found) < n => Len(found) = matching(kept(case.out)) + matching(kept(case.err))
               /\ Len(search("stderr", n, FALSE)) = Min({n, matching(kept(case.err))})
       /\ search("both", 3, TRUE) = <<>>
=============================================================================
