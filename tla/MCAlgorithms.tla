----------------------------- MODULE MCAlgorithms -----------------------------
(***************************************************************************)
(* The sequential algorithms, checked against reference definitions.       *)
(*                                                                         *)
(* Every behaviour works on one case: an artifact that is read entry by    *)
(* entry, a baseline that is united with runs, batches weighed against     *)
(* what is already covered, a client that follows the pages of a list that *)
(* changes, rows that are compacted, a project that is edited, measured    *)
(* and composed.  The actions extend the case; the invariants compare what *)
(* the code computes from it with what it should mean.                     *)
(***************************************************************************)
EXTENDS MCHistories

CONSTANTS MaxRecords,      \* records of an LCOV file after its first two
          MaxEntries,      \* entries of any other artifact
          MaxRuns,         \* incremental runs in a union, earlier batches
          MaxChanges,      \* insertions and removals while a list is paged
          MaxComposites    \* composite snapshots of a project

R == INSTANCE ReportParsing
A == INSTANCE CompositeAssembly

-----------------------------------------------------------------------------
(* Reports.  The repository is known, so a path inside it and the same path *)
(* relative to it are one file.                                             *)

Inside == [root |-> "inside", name |-> "a"]
Relative == [root |-> "relative", name |-> "a"]

Tag(tag) == [tag |-> tag, name |-> Absent, file |-> Absent, line |-> 1, hits |-> 0,
             taken |-> 0, region |-> Absent]

LcovStart == <<[Tag("TN") EXCEPT !.name = "t1"], [Tag("SF") EXCEPT !.file = Inside]>>

LcovRecords ==
    {[Tag("TN") EXCEPT !.name = "t2"], Tag("end_of_record"), [Tag("SF") EXCEPT !.file = Relative],
     [Tag("FN") EXCEPT !.name = "f"], [Tag("FNDA") EXCEPT !.name = "f", !.hits = 1],
     [Tag("DA") EXCEPT !.line = Bad], [Tag("DA") EXCEPT !.line = 0, !.hits = 1]}
    \cup {[Tag("DA") EXCEPT !.hits = n] : n \in {0, 1, 2}}
    \cup {[Tag("BRDA") EXCEPT !.taken = n, !.region = "r"] : n \in {Absent, 1}}

Entries(format) ==
    CASE format = "coveragepy" ->
           [file : {Inside}, executed_lines : {Absent, Bad, {1}, {1, 2}}, missing_lines : {{}, {1}},
            executed_branches : {Absent, {<<1, 2>>}}, missing_branches : {{<<1, 3>>}},
            summary : {TRUE}]
      [] format = "cobertura" ->
           [file : {Inside, Relative}, line : {1}, hits : {0, 1, 2, Bad}, branch : {TRUE},
            branches_valid : {Absent}, branches_covered : {Absent}, condition : {<<2, 1>>}]
      [] format = "jacoco" ->
           [file : {Inside, Relative}, line : {1, 2}, mi : {1}, ci : {0, 3, Absent},
            mb : {0}, cb : {1}]
      [] format = "istanbul" ->
           [file : {Inside}, statementMap : {[x |-> 1, y |-> 1], [x |-> 1, y |-> 2]},
            s : {[x |-> 0, y |-> 1], [x |-> 2, y |-> 0], [x |-> 1]},
            fnMap : {Absent, [x |-> 1]}, f : {[x |-> 1]},
            branchMap : {[x |-> 2]}, b : {[x |-> <<0, 1>>]}]
      [] format = "go" ->
           [file : {Inside, Relative}, start : {1, 2}, end : {1, 2}, statements : {1},
            hits : {0, 1, 2}]
      [] format = "llvm" ->
           [file : {Inside}, segments : {Absent, <<[line |-> 1, hits |-> 0, has_count |-> TRUE],
                                                   [line |-> 1, hits |-> 2, has_count |-> TRUE],
                                                   [line |-> 2, hits |-> 0, has_count |-> FALSE]>>},
            branches : {Absent, <<[line |-> 2, yes |-> 1, no |-> 0]>>},
            functions : {{}, {[name |-> "f", files |-> {Inside}, regions |-> {1}, count |-> 1]}},
            summary : {Absent}]
      [] format = "lcov" -> LcovRecords

\* How a tool names and begins an artifact of the format.
Artifact(format) ==
    LET file(extension, head, root) == [exists |-> TRUE, oversized |-> FALSE,
                                        extension |-> extension, head |-> head, root |-> root]
    IN CASE format = "lcov" -> file("txt", "TN:", Bad)
         [] format = "go" -> file("out", "mode:", Bad)
         [] format = "cobertura" -> file("xml", "<", "coverage")
         [] format = "jacoco" -> file("xml", "<", "report/sourcefile")
         [] format = "coveragepy" -> file("json", "{", "files/executed_lines")
         [] format = "istanbul" -> file("json", "{", "statementMap/s")
         [] format = "llvm" -> file("json", "{", "data")

Parsed(format, entries) ==
    FoldLeft(LAMBDA st, e : R!parse_selected(format, st, e), R!Start(TRUE), entries)

\* The caller leaves the format to detection or names it by an alias; the
\* wrong one is refused.
StartReport ==
    \E written \in R!Formats, asked \in {"auto", "nyc", "go-cover", "llvm-json", "coverage.py"} :
        /\ case.kind = "none"
        /\ LET format == R!select_format(Artifact(written), asked)
               entries == IF format = "lcov" THEN LcovStart ELSE <<>>
           IN case' = IF ~R!well_formed(Artifact(written), format) THEN [kind |-> "refused"]
                      ELSE [kind |-> "report", written |-> written, format |-> format,
                            entries |-> entries, st |-> Parsed(format, entries)]

ReadEntry ==
    /\ case.kind = "report" /\ ~case.st.failed
    /\ Len(case.entries) < IF case.format = "lcov" THEN 2 + MaxRecords ELSE MaxEntries
    /\ \E e \in Entries(case.format) :
         case' = [case EXCEPT !.entries = Append(@, e),
                              !.st = R!parse_selected(case.format, @, e)]

\* The latest record with the tag before record i and in the same block.
Governing(i, tag) ==
    LET block == {j \in 1..(i - 1) : \A k \in j..(i - 1) : case.entries[k].tag # "end_of_record"}
        named == {j \in block : case.entries[j].tag = tag}
    IN IF named = {} THEN Absent ELSE case.entries[Max(named)]

\* The lines an entry speaks of, with their executions.
Claims(i) ==
    LET e == case.entries[i]
        lines(set, hits) == {<<n, hits>> : n \in set}
        given(set) == IF set = Absent THEN {} ELSE set
    IN CASE case.format = "lcov" ->
              (IF e.tag = "DA" /\ Governing(i, "SF") # Absent /\ e.line > 0
                 THEN {<<e.line, e.hits>>} ELSE {})
         [] case.format = "coveragepy" ->
              lines(given(e.executed_lines), 1)
              \cup lines(given(e.missing_lines) \ given(e.executed_lines), 0)
         [] case.format = "istanbul" -> {<<e.statementMap[x], e.s[x]>> : x \in {"x", "y"}}
         [] case.format = "go" -> lines(e.start..e.end, e.hits)
         [] case.format = "jacoco" -> {<<e.line, e.ci>>}
         [] case.format = "cobertura" -> {<<e.line, e.hits>>}
         [] case.format = "llvm" -> {<<x.line, x.hits>> : x \in {y \in Range(R!Given(e.segments)) :
                                                                  y.has_count}}

\* What ran inside the block that a test's name opens.
Observed ==
    LET ran(r) == \/ r.tag \in {"DA", "FNDA"} /\ r.hits > 0
                  \/ r.tag = "BRDA" /\ r.taken # Absent
        known(i) == case.entries[i].tag = "FNDA" =>
            \E j \in 1..(i - 1) :
                /\ case.entries[j].tag = "FN"
                /\ \A k \in j..(i - 1) : case.entries[k].tag \notin {"SF", "end_of_record"}
        at == {i \in DOMAIN case.entries :
                 /\ ran(case.entries[i]) /\ case.entries[i].line > 0 /\ known(i)
                 /\ Absent \notin {Governing(i, "SF"), Governing(i, "TN")}}
    IN {<<Governing(i, "TN").name, case.entries[i].tag>> : i \in at}

\* Every parser of src/parser.rs and the builder of src/models.rs: an artifact
\* is read as the format it was written in or refused; a line is
\* counted when some entry measures it, covered when some entry executed it,
\* and has the most executions any entry states, however often and under
\* whichever spelling of the path it is listed; a test is credited with what
\* ran in its own block and with nothing else.
ReportIsFaithful ==
    case.kind = "report" /\ ~case.st.failed =>
        LET rows == case.st.b.lines
            claims == UNION {Claims(i) : i \in DOMAIN case.entries}
            hits(n) == {c[2] : c \in {x \in claims : x[1] = n}}
            tags == [DA |-> "line", FNDA |-> "function", BRDA |-> "branch"]
        IN /\ case.format = case.written
           /\ {k \in DOMAIN rows : rows[k].count_line} = {<<Relative, c[1]>> : c \in claims}
           /\ \A c \in claims : LET row == rows[<<Relative, c[1]>>]
                                IN /\ row.hits = Max(hits(c[1]))
                                   /\ row.covered = (row.hits > 0)
           /\ \A file \in DOMAIN R!build(case.st.b) :
                R!build(case.st.b)[file].total_lines = Cardinality({c[1] : c \in claims})
           /\ case.format = "lcov" =>
                {<<o[1], o[2]>> : o \in case.st.b.test_coverage}
                  = {<<o[1], tags[o[2]]>> : o \in Observed}

-----------------------------------------------------------------------------
(* Unions *)

Rows == {Row(0, 0), Row(1, 1), Row(1, 2)}

LineMaps == UNION {[keys -> Rows] : keys \in SUBSET {<<1, 1>>, <<1, 2>>}}

Snapshots == {SnapshotOf(lines, n) : lines \in LineMaps, n \in {0, 1}}

\* Lists of a run are complete, or miss the second line.
Runs == {SnapshotOf(lines, 0) : lines \in LineMaps}
        \cup {s \in Snapshots : <<1, 2>> \notin DOMAIN s.lines}

\* What is absent is neither a report nor a part of one.
ASSUME AbsentIsNoReport ==
    \A s \in Snapshots : Absent \notin {s, s.files[1], s.files[1].llvm_functions, s.tests}

StartUnion ==
    /\ case.kind = "none"
    /\ \E baseline \in Snapshots :
         case' = [kind |-> "union", baseline |-> baseline, currents |-> <<>>]

AddRun ==
    /\ case.kind = "union" /\ Len(case.currents) < MaxRuns
    /\ \E current \in Runs : case' = [case EXCEPT !.currents = Append(@, current)]

\* incremental_union_compare, with runs that selected some tests, against a
\* baseline.  No coverage of any report is lost and none is invented, for
\* lists of lines that are complete or not; where the answer calls itself
\* exact it adds up with the baseline; the order of the runs does not matter; a
\* test is affected when the runs together observed something else than the
\* baseline;
\* and no line is reported as lost because the selected tests did not reach
\* it.
UnionIsSound ==
    case.kind = "union" /\ case.currents # <<>> =>
        \A answer \in {V!IncrementalReview(case.currents, case.baseline, Absent, 10).union},
           swapped \in {V!IncrementalReview(Reverse(case.currents), case.baseline, Absent, 10).union} :
        LET reports == {case.baseline} \cup Range(case.currents)
            number(r, m) == r.files[1][m]
        IN /\ \A m \in U!Metrics :
                LET union == answer.union.files[1][m]
                IN /\ union.covered <= union.total
                   /\ \A r \in reports : /\ union.total >= number(r, m).total
                                         /\ union.covered >= number(r, m).covered
                   /\ union.total <= Cardinality(UNION {{r} \X (1..number(r, m).total) : r \in reports})
                   /\ union.exact => union.covered = number(case.baseline, m).covered
                                                     + union.newly_covered
           /\ answer.union.files[1]["lines"].exact =>
                Cardinality(answer.union.newly_covered_lines)
                  = answer.union.files[1]["lines"].newly_covered
           /\ swapped.union.files = answer.union.files
           /\ LET observed == UNION {r.tests["t1"] : r \in Range(case.currents)}
                  children == U!composite_child_test_sets([i \in DOMAIN case.currents |-> i],
                                [i \in DOMAIN case.currents |-> case.currents[i].tests])
              IN /\ children["t1"] = observed
                 /\ answer.diff.tests.affected # {} <=> observed # case.baseline.tests["t1"]
           /\ \A c \in answer.diff.changed :
                {c.status, c.category} \cap {"regressed", "removed"} = {}
           /\ \A r \in Range(answer.diff.regions) : r.status \notin {"regressed", "removed"}

-----------------------------------------------------------------------------
(* Gains.  A measurement of two lines, with the producer's receipt or       *)
(* without one.                                                             *)

Receipts ==
    LET good == [build |-> 1, hashes |-> 1 :> 1, tests |-> "passed", source |-> "matches_receipt"]
    IN {good, [good EXCEPT !.build = 2], [good EXCEPT !.tests = "failed"],
        [good EXCEPT !.source = "changed_or_missing"],
        [build |-> Absent, hashes |-> Absent, tests |-> "unknown", source |-> "unverified"]}

\* hits: line -> executions.
Measurement(hits, receipt) ==
    LET row(n) == [path |-> 1, symbol |-> 0, span |-> <<n, n>>, kind |-> "lines", arm |-> "",
                   hits |-> hits[n]]
    IN [format |-> "lcov", files |-> {1}, scope |-> Absent,
        rows |-> {row(n) : n \in DOMAIN hits},
        reported |-> <<Cardinality({n \in DOMAIN hits : hits[n] > 0}), Cardinality(DOMAIN hits)>>,
        build |-> receipt.build, hashes |-> receipt.hashes, tests |-> receipt.tests,
        source |-> receipt.source]

\* One line that ran, or two of which one ran.
BatchHits == {[n \in {line} |-> 1] : line \in 1..3} \cup {<<0, 1>>, <<1, 0>>}

Batches == {Measurement(hits, r) : hits \in BatchHits, r \in Receipts}

StartGain ==
    /\ case.kind = "none"
    /\ \E hits \in {<<0, 0>>, <<1, 0>>}, r \in Receipts :
         case' = [kind |-> "gain", base |-> Measurement(hits, r), batches |-> <<>>]

AddBatch ==
    /\ case.kind = "gain" /\ Len(case.batches) <= MaxRuns
    /\ Q!valid_request(1, 1, "incremental", case.batches)
    /\ \E b \in Batches : case' = [case EXCEPT !.batches = Append(@, b)]

\* compare_incremental of src/query_incremental.rs: what a batch is said to
\* add is exactly what neither the baseline nor an accepted batch covers, the
\* combined count is that of all of them, whatever the order of the earlier
\* ones (other has the same batches), and a verified gain rests on tests that
\* passed on one build of one state of the source.
ExactGain(base, previous, other, current, kind) ==
    LET at(r) == <<r.path, r.span, r.arm>>
        covered(m) == {at(r) : r \in {x \in m.rows : x.kind = kind /\ x.hits > 0}}
        all == {at(r) : r \in {x \in base.rows : x.kind = kind}}
        before == covered(base) \cup UNION {covered(b) : b \in Range(previous)}
        after == before \cup covered(current)
        measured == {base, current} \cup Range(previous)
    IN \A answer \in {Q!compare_incremental(base, previous, current, kind)} :
       answer.status \notin {"tests_failed", "incomparable"} =>
         /\ answer.accepted = <<Cardinality(before), Cardinality(all)>>
         /\ answer.combined = <<Cardinality(after), Cardinality(all)>>
         /\ answer.newly_covered = Cardinality(after) - Cardinality(before)
         /\ answer.remaining = all \ after
         /\ Q!compare_incremental(base, other, current, kind) = answer
         /\ \A m, n \in measured : Absent \notin {m.build, n.build} => m.build = n.build
         /\ answer.status # "limited" =>
              \A m \in measured : m.source = "matches_receipt" /\ m.tests = "passed"

\* ExactGain of the last batch over the earlier ones, also in reverse order.
GainIsExact ==
    case.kind = "gain" /\ case.batches # <<>> =>
        ExactGain(case.base, Front(case.batches), Reverse(Front(case.batches)),
                  Last(case.batches), "lines")

-----------------------------------------------------------------------------
(* Pages.  A client follows the cursors of a list that changes meanwhile.   *)
(* Items may have equal content, which is all that the code sees; the ones  *)
(* that are inserted have new content.  An id tells each from its equals.   *)

Item(id, content, words) == [id |-> id, content |-> content, words |-> words]
Lists == UNION {{[i \in 1..n |-> Item(i, c[i], c[i])] : c \in [1..n -> {1, 2}]} : n \in 0..3}

\* start: the list when the client began to read it.
StartPages ==
    /\ case.kind = "none"
    /\ \E list \in Lists, max_words \in {1, 2, 3} :
         case' = [kind |-> "pages", max_words |-> max_words, cursor |-> Absent, done |-> FALSE,
                  got |-> <<>>, start |-> list, list |-> list, changes |-> 0]

\* A list of its own, or the commands that project_context returns beside an
\* empty summary, no more than a page may have of them.
Fetch ==
    /\ case.kind = "pages" /\ ~case.done
    /\ LET of(context) == IF context = Bad THEN Bad ELSE context.page
       IN \E page \in {V!page(case.list, case.cursor, case.max_words, "scope", Absent),
                       of(V!project_context([n \in 0..5 |-> 0], case.list, <<>>, case.cursor,
                                            case.max_words, "scope"))} :
            case' = IF page = Bad
                      THEN [case EXCEPT !.cursor = Absent, !.got = <<>>, !.start = case.list]
                      ELSE [case EXCEPT !.cursor = page.next_cursor, !.got = @ \o page.items,
                                        !.done = page.next_cursor = Absent]

Insert ==
    /\ case.kind = "pages" /\ ~case.done /\ case.changes < MaxChanges /\ Len(case.list) < 5
    /\ LET new == 10 + case.changes
       IN \E i \in 1..(Len(case.list) + 1) :
            case' = [case EXCEPT !.list = InsertAt(@, i, Item(new, new, 1)), !.changes = @ + 1]

\* A removed item has no equal: a cursor that counts equal items would name
\* another of them.
Withdraw ==
    /\ case.kind = "pages" /\ ~case.done /\ case.changes < MaxChanges
    /\ \E i \in {j \in DOMAIN case.list :
                  V!SameAnchor(case.list, case.list[j].content, Len(case.list)) = 1} :
         case' = [case EXCEPT !.list = RemoveAt(@, i), !.changes = @ + 1]

\* Duplicate groups: the observations of four tests, pages of max_groups.
StartGroups ==
    /\ case.kind = "none"
    /\ \E seen \in [1..4 -> {{}, {1}, {2}}] :
         case' = [kind |-> "groups", seen |-> seen, cursor |-> Absent, got |-> <<>>, done |-> FALSE]

FetchGroups ==
    /\ case.kind = "groups" /\ ~case.done
    /\ \E max_groups \in {1, 2} :
         LET page == V!find_duplicate_coverage_tests(
                       [o \in 0..4 |->
                          D!duplicate_coverage_projection(case.seen, o, max_groups, 4)],
                       case.cursor, "scope", max_groups, 4, 4)
         IN case' = [case EXCEPT !.cursor = page.next_cursor, !.got = @ \o page.groups,
                                 !.done = page.next_cursor = Absent]

\* Gaps: an answer of limit groups that is cut again to cap bytes.
GapRows == [path : {1, 2}, symbol : {1, 2}, span : {<<1, 1>>}, kind : {"lines"}, arm : {""},
            hits : {0, 1}]

StartGaps ==
    /\ case.kind = "none"
    /\ \E rows \in SUBSET GapRows :
         case' = [kind |-> "gaps", rows |-> rows, offset |-> 0, got |-> <<>>, done |-> FALSE]

FetchGaps ==
    /\ case.kind = "gaps" /\ ~case.done
    /\ \E limit \in {1, 3}, cap \in {2, 4} :
         LET page == Q!bounded(Q!find(case.rows, limit, case.offset),
                               [i \in 1..limit |-> 2], cap)
         IN case' = [case EXCEPT !.offset = page.next_offset, !.got = @ \o page.groups,
                                 !.done = page.next_offset = Absent]

Ids(items) == {items[i].id : i \in DOMAIN items}

\* The items of s that are in t too follow each other as they do in t.
Follows(s, t) ==
    \A i, j \in DOMAIN s, m, n \in DOMAIN t :
        i < j /\ s[i].id = t[m].id /\ s[j].id = t[n].id => m < n

\* A client that follows next_cursor or next_offset to its end has received
\* every item exactly once and in order: page_with_item_limit, whatever the
\* word budget and although items are inserted and removed between the pages
\* and equal items have equal anchors; the groups of duplicate tests; and the
\* gaps, whose pages the byte cap cuts again.  Nothing is skipped or repeated.
PagesCoverEverything ==
    /\ case.kind = "pages" =>
         /\ \A i, j \in DOMAIN case.got : case.got[i].id = case.got[j].id => i = j
         /\ Follows(case.got, case.start)
         /\ case.done => /\ Follows(case.got, case.list)
                         /\ Ids(case.start) \cap Ids(case.list) \subseteq Ids(case.got)
    /\ case.kind = "groups" =>
         LET all == D!duplicate_groups(case.seen)
         IN /\ IsPrefix(case.got, [i \in DOMAIN all |-> InOrder(all[i], [n \in all[i] |-> <<n>>])])
            /\ case.done => Len(case.got) = Len(all)
    /\ case.kind = "gaps" =>
         LET all == Q!group_rows({r \in case.rows : r.hits <= 0})
         IN IsPrefix(case.got, all) /\ (case.done => case.got = all)

-----------------------------------------------------------------------------
(* Reads.  The rows of a file of three lines and of three tests, as they    *)
(* are stored and as compaction leaves them.                                *)

Detail(lines, tests) ==
    LET row(n) == [path |-> 1, line |-> n, count_line |-> lines[n] # "other",
                   covered |-> lines[n] = "covered"]
        numbers == SetToSortSeq(DOMAIN lines, <)
        region(first, last, hits) == [fields |-> 8, file |-> 1, first |-> first, last |-> last,
                                      hits |-> hits]
        function == [name |-> 1, count |-> 1, filenames |-> <<1>>, branches |-> <<>>,
                     regions |-> <<region(1, 2, 1), region(2, 2, 0)>>]
    IN [files |-> <<[path |-> 1, functions |-> {function}]>>,
        lines |-> [i \in DOMAIN numbers |-> row(numbers[i])],
        tests |-> [names |-> DOMAIN tests,
                   seen |-> UNION {{[test |-> t, at |-> o] : o \in tests[t]} : t \in DOMAIN tests}],
        payload |-> Absent]

\* One transaction deletes the rows and leaves them in the payload.
Compacted(detail) ==
    [files |-> <<>>, lines |-> <<>>, tests |-> [names |-> {}, seen |-> {}],
     payload |-> [files |-> detail.files, lines |-> detail.lines, tests |-> detail.tests]]

LineStates == {"covered", "missed", "other"}

StartReads ==
    /\ case.kind = "none"
    /\ \E lines \in UNION {[numbers -> LineStates] : numbers \in SUBSET (1..3)} :
         case' = [kind |-> "reads", detail |-> Detail(lines, <<>>), ranges |-> <<>>]

AskRange ==
    /\ case.kind = "reads" /\ Len(case.ranges) < 2
    /\ \E first, last \in 1..3 :
         /\ first <= last
         /\ case' = [case EXCEPT !.ranges = Append(@, <<first, last>>)]

StartTests ==
    /\ case.kind = "none"
    /\ \E tests \in UNION {[names -> SUBSET {1, 2}] : names \in SUBSET (1..3)} :
         case' = [kind |-> "reads", detail |-> Detail(<<"covered">>, tests), ranges |-> <<>>]

\* The module files of a crate, and what the first of them declares.
Modules == {<<"src", "lib">>, <<"src", "a">>, <<"src", "a", "mod">>, <<"src", "a", "b">>}
Declarations == {<<"crate", "a", "b">>, <<"self", "a", "c">>, <<"super", "lib">>, <<"b">>}

StartModules ==
    /\ case.kind = "none"
    /\ \E known \in SUBSET Modules, declared \in Declarations :
         case' = [kind |-> "modules", known |-> known, declared |-> declared]

\* A dependency leads to another measured file, and to one as deep along the
\* declaration as any that is measured.
DependenciesResolve ==
    LET from == <<"src", "lib">>
        names == CASE case.declared[1] = "crate" -> {<<"src", "a", "b">>}
                   [] case.declared[1] = "self" -> {<<"src", "a">>, <<"src", "a", "mod">>}
                   [] OTHER -> {}
    IN \A edges \in {D!dependencies(from :> <<case.declared, <<>>>>, case.known)} :
       /\ \A e \in edges : e[1] = from /\ e[2] \in case.known \ {from}
       /\ from \in case.known /\ names \cap case.known # {} =>
            \E e \in edges : e[2] \in names

\* What compaction leaves: lines, line history, gaps, functions and duplicate
\* tests are answered alike from the rows and from the payload that replaces
\* them, and a request for lines selects exactly the lines it names, whichever
\* ranges overlap, touch or contain each other.
SurvivesCompaction ==
    LET detail == case.detail
        after == Compacted(case.detail)
        asked == UNION {r[1]..r[2] : r \in Range(case.ranges)}
        read == D!lines_in_ranges(detail, 1, case.ranges)
        snapshot == [id |-> 1, repo_path |-> 1, branch |-> "main", suite |-> "unit", created_at |-> 1,
                     retention |-> "compactable"]
        history(rows, n) == D!line_history(<<snapshot>>, <<rows>>, 1, n, Absent, Absent, 5)
        status(payloads) == D!compaction_summary(<<snapshot>>, payloads, 2)
        compacted == status(<<[original |-> 2, compressed |-> 1]>>)
    IN /\ read = SelectSeq(detail.lines, LAMBDA l : l.line \in asked)
       /\ D!lines_in_ranges(after, 1, case.ranges) = read
       /\ \A n \in 1..3 : history(after, n) = history(detail, n)
       /\ D!file_coverage(after, 1) = D!file_coverage(detail, 1)
       /\ \A n \in 1..2 : D!file_gaps(after, 1, n) = D!file_gaps(detail, 1, n)
       /\ D!functions(after, 1, 5) = D!functions(detail, 1, 5)
       /\ \A offset \in 0..1 : D!duplicate_coverage_test_groups(after, offset, 1, 2)
                                 = D!duplicate_coverage_test_groups(detail, offset, 1, 2)
       /\ status(<<>>).eligible = 1 /\ compacted.eligible = 0 /\ compacted.consistent

\* What is read back is what was measured: SurvivesCompaction for the detail
\* of a snapshot, SourceIsMeasured for its source, DependenciesResolve for the
\* files it names, LogsAreSearchable for the output of a run.
ReadsAreFaithful ==
    /\ case.kind = "reads" => SurvivesCompaction
    /\ case.kind = "source" => SourceIsMeasured
    /\ case.kind = "modules" => DependenciesResolve
    /\ case.kind = "logs" => LogsAreSearchable

-----------------------------------------------------------------------------
(* Composites.  A project with one source file of two regions and two       *)
(* package variants.  bytes is the content of the file, inventory the       *)
(* revision and the bytes it was written for.                               *)

Variants == {"v1", "v2"}
Aliases == <<[path |-> 1, id |-> <<1>>]>>

\* The sentinels are none of the values of the project.
ASSUME SentinelsAreNoData ==
    /\ Bad # Absent
    /\ \A s \in {Bad, Absent} :
         /\ s \notin Int
         /\ s \notin [after : Int \cup {"scope"}, occurrence : Int, scope : {"scope"}]
         /\ s \notin {"core", "rust", "coverage", "inventory", "ingested", A!REGIONS_SCHEMA}
                   \cup Variants
         /\ s # <<>> /\ s # <<1>> /\ s # Aliases

Descriptor(role, variant) ==
    [role |-> role, component |-> "core", variant |-> variant, language |-> "rust",
     aliases |-> IF role = "coverage" THEN Aliases ELSE Absent,
     format |-> IF role = "coverage" THEN A!REGIONS_SCHEMA ELSE Absent,
     coverage_format |-> Absent, toolchain |-> Absent, inventory_artifact |-> "inventory"]

InventoryDoc(inventory) ==
    LET region(n) == [start_line |-> n, end_line |-> n, discriminator |-> <<0>>]
    IN [schema |-> A!INVENTORY_SCHEMA, mapping |-> A!MAPPING_VERSION,
        revision |-> inventory.revision,
        entries |-> <<[id |-> <<1>>, path |-> 1, relative |-> TRUE, package |-> "core",
                       component |-> Absent, language |-> "rust", role |-> "production",
                       hash |-> inventory.bytes, variants |-> <<"v1", "v2">>,
                       formats |-> <<A!REGIONS_SCHEMA>>, regions |-> <<region(1), region(2)>>]>>]

\* regions: line -> covered, of the regions that were measured.
ReportDoc(regions, revision, hash) ==
    [schema |-> A!REGIONS_SCHEMA, mapping |-> A!MAPPING_VERSION, revision |-> revision,
     regions |-> {[path |-> 1, id |-> <<1>>, start_line |-> n, end_line |-> n,
                   discriminator |-> <<0>>, hits |-> IF regions[n] THEN 1 ELSE 0,
                   covered |-> Absent, hash |-> hash] : n \in DOMAIN regions}]

StartProject ==
    /\ case.kind = "none"
    /\ case' = [kind |-> "project", bytes |-> 1, revision |-> 1, dirty |-> FALSE,
                inventory |-> [revision |-> 1, bytes |-> 1], produced |-> {}, measured |-> {},
                stored |-> <<>>, trees |-> <<>>, steps |-> 0]

Develop ==
    /\ case.kind = "project" /\ case.steps < MaxChanges + 1
    /\ \/ case' = [case EXCEPT !.bytes = 3 - @, !.dirty = TRUE, !.steps = @ + 1]
       \/ /\ case.dirty
          /\ case' = [case EXCEPT !.revision = @ + 1, !.dirty = FALSE, !.steps = @ + 1]
       \/ case' = [case EXCEPT !.inventory = [revision |-> case.revision, bytes |-> case.bytes],
                               !.steps = @ + 1]

Outcomes == {<<TRUE, TRUE>>, <<TRUE, FALSE>>, <<TRUE>>}

\* A run measures some variants; the reports of the others are left over from
\* an earlier run, or missing.  An incremental run continues the last
\* composite.
Compose ==
    /\ case.kind = "project" /\ Len(case.stored) < MaxComposites
    /\ \E ran \in UNION {[vs -> Outcomes] : vs \in SUBSET Variants}, hash \in {Absent, case.bytes},
          mode \in {"full", "incremental"} :
         LET status(v) == IF v \in DOMAIN ran THEN "ingested"
                          ELSE IF v \in case.produced THEN "skipped_stale" ELSE "missing"
             artifact(v) == [composite |-> Descriptor("coverage", v), status |-> status(v),
                             path |-> v,
                             doc |-> IF v \in DOMAIN ran
                                       THEN ReportDoc(ran[v], case.revision, hash) ELSE Bad]
             inventory == [composite |-> Descriptor("inventory", "v1"), status |-> "ingested",
                           path |-> "inventory", doc |-> Bad]
             composite == A!compose_composite_snapshot(
                 <<inventory, artifact("v1"), artifact("v2")>>,
                 [f \in {"inventory"} |-> [doc |-> InventoryDoc(case.inventory),
                                           hash |-> case.inventory]],
                 <<case.bytes>>, [revision |-> case.revision, dirty |-> case.dirty],
                 [mode |-> mode, baseline |-> Len(case.stored)], case.stored, "repo")
         IN case' = [case EXCEPT
                       !.produced = @ \cup DOMAIN ran,
                       !.measured = @ \cup UNION {{<<v, n, ran[v][n], case.bytes>> :
                                                     n \in DOMAIN ran[v]} : v \in DOMAIN ran},
                       !.stored = Append(@, composite), !.trees = Append(@, case.bytes)]

\* The gains and losses a review of two composites lists add up to the change
\* of their covered regions, when every variant is measured in both; the
\* status of a run has the review exactly when the two can be compared.
GainsAddUp(i, j) ==
    LET keys == A!composite_regions(case.stored, j, 10,
                                   [k \in DOMAIN case.stored[j].build.rows |-> k[2]])
        insight == V!composite_review("insight", case.stored[j], Absent, keys, "repo", Absent, 10)
        all(c) == \A row \in Range(c.build.rows) : \A v \in DOMAIN row.variants :
                    row.variants[v].state \in {"covered", "uncovered"}
        run == [mode |-> "incremental", baseline |-> i, terminal |-> TRUE, composite |-> j,
                ingested |-> <<>>]
    IN \A review \in {V!composite_review("incremental", case.stored[j], case.stored[i], keys,
                                        "repo", Absent, 10)} :
       LET gain == review.incremental.coverage_gain
           status == V!run_state(run, "status", review).review.status
       IN
       /\ case.stored[i].inventory_hash # case.stored[j].inventory_hash <=> review = Bad
       /\ status = "measured" <=> review # Bad
       /\ insight.claim_status = "supported" /\ all(case.stored[j]) => insight.regions = <<>>
       /\ review # Bad /\ all(case.stored[i]) /\ all(case.stored[j]) =>
            review.incremental.covered_delta = gain["newly_covered"] - gain["regressed"]

\* assemble, and the reuse of a baseline's evidence: a region that a composite
\* calls covered in a variant was measured as covered in that variant on the
\* bytes the source had when the composite was made, by this run or by the one
\* whose evidence it reuses, whatever was edited, committed or written into
\* the inventory in between; a complete composite covers every region so.
CompositeIsSound ==
    case.kind = "project" =>
        \A i \in DOMAIN case.stored :
            LET build == case.stored[i].build
                covers(v, row) == <<v, row.region.start_line, TRUE, case.trees[i]>> \in case.measured
            IN /\ \A row \in Range(build.rows) : \A v \in Variants :
                    row.variants[v].state = "covered" => covers(v, row)
               /\ build.complete => /\ ~case.stored[i].dirty
                                    /\ \A row \in Range(build.rows) : \E v \in Variants :
                                         covers(v, row)

\* A review of a project finds the latest composite, and the gains and losses
\* that the review of each one against the one before it lists add up.
CompositeReviewsAddUp ==
    /\ case.stored # <<>> => A!latest_composite_snapshot(case.stored, "repo") = Len(case.stored)
    /\ \A j \in DOMAIN case.stored :
         LET i == A!previous_composite_snapshot(case.stored, j)
         IN IF i = Absent THEN j = 1 ELSE GainsAddUp(i, j)

\* What a review says is what the measurements show: HistoryIsTruthful for a
\* history of snapshots, CompositeReviewsAddUp for the composites of a project.
ReviewIsTruthful ==
    /\ case.kind = "history" => HistoryIsTruthful
    /\ case.kind = "project" => CompositeReviewsAddUp

-----------------------------------------------------------------------------
Init == case = [kind |-> "none"]
Next == \/ StartHistory \/ Measure \/ StartCompare \/ LoadCurrent
        \/ StartSource \/ EditSource \/ StartLogs \/ Write \/ StartModules
        \/ StartProject \/ Develop \/ Compose
        \/ StartReads \/ AskRange \/ StartTests
        \/ StartPages \/ Fetch \/ Insert \/ Withdraw
        \/ StartGroups \/ FetchGroups \/ StartGaps \/ FetchGaps
        \/ StartReport \/ ReadEntry \/ StartGain \/ AddBatch \/ StartUnion \/ AddRun
Spec == Init /\ [][Next]_case
=============================================================================
