---------------------------- MODULE ReportParsing ----------------------------
(***************************************************************************)
(* Coverage artifacts become normalized line rows, file totals and test    *)
(* observations (src/parser.rs, src/models.rs).                            *)
(*                                                                         *)
(* An artifact is read one entry at a time: an LCOV record, a file of a    *)
(* coverage.py or Istanbul report, a line element of a Cobertura or JaCoCo *)
(* report, a block of a Go profile, a file of an LLVM export.  Text is     *)
(* abstracted to the fields that the parser takes from it; a number is an  *)
(* integer or Bad, a field the parser refuses, and Absent is a field that  *)
(* is not there.  One bad entry refuses the whole artifact.                *)
(***************************************************************************)
EXTENDS Integers, Sequences, FiniteSets, FiniteSetsExt, SequencesExt, TLC

CONSTANTS Bad, Absent

-----------------------------------------------------------------------------
(* src/models.rs *)

\* A path is written relative to the repository, or absolute inside or
\* outside it; the repository may be unknown.
normalize_report_path(path, repo) ==
    IF path.root = "inside" /\ repo THEN [path EXCEPT !.root = "relative"]
                                    ELSE path

NoNegative(n) == IF n > 0 THEN n ELSE 0

merge_sums_hits(row, other) ==
    [hits |-> IF other.count_line THEN row.hits + other.hits ELSE row.hits,
     covered |-> row.covered \/ (other.count_line /\ other.covered),
     count_line |-> row.count_line \/ other.count_line,
     branches |-> row.branches + other.branches,
     covered_branches |-> row.covered_branches + other.covered_branches,
     functions |-> row.functions + other.functions,
     covered_functions |-> row.covered_functions + other.covered_functions]

\* Records of one line: executions are not added up, outcomes are.
merge(row, other) ==
    [hits |-> IF other.count_line /\ other.hits > row.hits THEN other.hits
                                                           ELSE row.hits,
     covered |-> row.covered \/ (other.count_line /\ other.covered),
     count_line |-> row.count_line \/ other.count_line,
     branches |-> row.branches + other.branches,
     covered_branches |-> row.covered_branches + other.covered_branches,
     functions |-> row.functions + other.functions,
     covered_functions |-> row.covered_functions + other.covered_functions]

\* One call of add_line.
Line(file, line, hits, covered) ==
    [file |-> file, line |-> line, hits |-> hits, covered |-> covered,
     count_line |-> TRUE, branches |-> 0, covered_branches |-> 0,
     functions |-> 0, covered_functions |-> 0]
Branches(file, line, total, covered) ==
    [Line(file, line, 0, FALSE) EXCEPT !.count_line = FALSE,
        !.branches = total, !.covered_branches = covered]
Function(file, line, covered) ==
    [Line(file, line, 0, FALSE) EXCEPT !.count_line = FALSE,
        !.functions = 1, !.covered_functions = covered]

EmptyBuilder(repo) ==
    [repo |-> repo, lines |-> <<>>, test_names |-> {}, test_coverage |-> {},
     file_metrics |-> <<>>]

add_line(b, c) ==
    LET key == <<normalize_report_path(c.file, b.repo), c.line>>
        hits == IF c.count_line THEN NoNegative(c.hits) ELSE 0
        row == [hits |-> hits,
                covered |-> c.count_line
                            /\ (IF c.covered = Absent THEN hits > 0 ELSE c.covered),
                count_line |-> c.count_line,
                branches |-> NoNegative(c.branches),
                covered_branches |-> NoNegative(c.covered_branches),
                functions |-> NoNegative(c.functions),
                covered_functions |-> NoNegative(c.covered_functions)]
    IN IF c.line <= 0 THEN b
       ELSE [b EXCEPT !.lines =
               [k \in DOMAIN b.lines \cup {key} |->
                  IF k # key THEN b.lines[k]
                  ELSE IF key \in DOMAIN b.lines THEN merge(b.lines[key], row) ELSE row]]

\* One call after the other.
add_lines(b, calls) ==
    LET after[n \in 0..Len(calls)] ==
          IF n = 0 THEN b ELSE add_line(after[n - 1], calls[n])
    IN after[Len(calls)]

\* Later metrics of a file replace the earlier ones of the same name.
add_file_metrics(b, path, metrics) ==
    LET file == normalize_report_path(path, b.repo)
    IN [b EXCEPT !.file_metrics =
          IF file \in DOMAIN @ THEN [@ EXCEPT ![file] = metrics @@ @]
                               ELSE file :> metrics @@ @]

add_test_name(b, test) ==
    IF test = Absent THEN b ELSE [b EXCEPT !.test_names = @ \cup {test}]

add_test_observation(b, test, kind, file, line, region) ==
    IF test = Absent \/ line <= 0 THEN b
    ELSE [add_test_name(b, test) EXCEPT !.test_coverage = @ \cup
            {<<test, kind, normalize_report_path(file, b.repo), line, region>>}]

\* A metric of the report overrides what the rows add up to.
metric_i64(metrics, name, fallback) ==
    NoNegative(IF name \in DOMAIN metrics THEN metrics[name] ELSE fallback)

\* The totals of every file with a row or with metrics.
build(b) ==
    LET files == {key[1] : key \in DOMAIN b.lines} \cup DOMAIN b.file_metrics
        rows(f) == {key \in DOMAIN b.lines : key[1] = f}
        metrics(f) == IF f \in DOMAIN b.file_metrics THEN b.file_metrics[f]
                                                     ELSE <<>>
        sum(f, get(_)) == MapThenSumSet(LAMBDA key : get(b.lines[key]), rows(f))
    IN [f \in files |->
          [total_lines |-> metric_i64(metrics(f), "total_lines",
             Cardinality({k \in rows(f) : b.lines[k].count_line})),
           covered_lines |-> metric_i64(metrics(f), "covered_lines",
             Cardinality({k \in rows(f) : /\ b.lines[k].count_line
                                          /\ b.lines[k].covered})),
           total_branches |-> metric_i64(metrics(f), "total_branches",
             sum(f, LAMBDA row : row.branches)),
           covered_branches |-> metric_i64(metrics(f), "covered_branches",
             sum(f, LAMBDA row : row.covered_branches)),
           total_functions |-> metric_i64(metrics(f), "total_functions",
             sum(f, LAMBDA row : row.functions)),
           covered_functions |-> metric_i64(metrics(f), "covered_functions",
             sum(f, LAMBDA row : row.covered_functions)),
           total_regions |-> metric_i64(metrics(f), "total_regions", 0),
           covered_regions |-> metric_i64(metrics(f), "covered_regions", 0)]]

\* covered of total, null when there is nothing to cover.
rate(covered, total) == IF total > 0 THEN <<covered, total>> ELSE Absent

-----------------------------------------------------------------------------
(* Which format an artifact has *)

Formats == {"lcov", "coveragepy", "cobertura", "jacoco", "istanbul", "go",
            "llvm"}

normalize_format(format) ==
    LET canonical == CASE format \in {"coverage.py", "coverage-json"} -> "coveragepy"
                       [] format = "nyc" -> "istanbul"
                       [] format \in {"go-cover", "go-coverprofile"} -> "go"
                       [] format = "llvm-json" -> "llvm"
                       [] OTHER -> format
    IN IF canonical \in Formats THEN canonical ELSE Bad

\* An artifact has an extension, a first token, and, when it is XML or JSON,
\* a root that parses to something or is Bad.
detect_format(a) ==
    CASE a.extension \in {"lcov", "info"} \/ a.head \in {"TN:", "SF:"} -> "lcov"
      [] a.head = "mode:" -> "go"
      [] a.extension = "xml" \/ a.head = "<" ->
           (CASE a.root = "coverage" -> "cobertura"
              [] a.root \in {"report/sourcefile", "report/counter"} -> "jacoco"
              [] OTHER -> Bad)
      [] a.extension = "json" \/ a.head = "{" ->
           (CASE a.root = "data" -> "llvm"
              [] a.root = "files/executed_lines" -> "coveragepy"
              [] a.root = "statementMap/s" -> "istanbul"
              [] OTHER -> Bad)
      [] OTHER -> Bad

\* parse_coverage_report and parse_coverage_bytes: the file exists and keeps
\* to the size limit before its format is looked at.
select_format(a, format) ==
    CASE ~a.exists \/ a.oversized -> Bad
      [] format = "auto" -> detect_format(a)
      [] OTHER -> normalize_format(format)

\* What the selected parser asks of the artifact as a whole.
well_formed(a, format) ==
    CASE format = "go" -> a.head = "mode:"
      [] format \in {"cobertura", "jacoco"} -> a.root # Bad
      [] format = "llvm" -> a.root = "data"
      [] format = "coveragepy" -> a.root \in {"files", "files/executed_lines"}
      [] format = "istanbul" -> a.root = "statementMap/s"
      [] OTHER -> TRUE

\* value_i64, safe_i64, numeric_i64: a number that is missing, null, not
\* finite, fractional or beyond 64 bits is refused.
AllNumbers(fields) == \A n \in fields : n # Bad /\ n # Absent

-----------------------------------------------------------------------------
(* The parsers.  Each takes the state before an entry and the entry.  The   *)
(* state is the builder, LCOV's context, and whether the artifact is        *)
(* refused.                                                                 *)

Start(repo) ==
    [b |-> EmptyBuilder(repo), failed |-> FALSE, current_test |-> Absent,
     current_file |-> Absent, function_lines |-> <<>>]

Refuse(st) == [st EXCEPT !.failed = TRUE]
Accept(st, calls) == [st EXCEPT !.b = add_lines(@, calls)]

IsCovered(n) == IF n > 0 THEN 1 ELSE 0

\* An outcome that was never evaluated, written "-", is Absent.
add_lcov_branch(st, r) ==
    LET taken == IF r.taken = Absent THEN 0 ELSE IsCovered(r.taken)
        file == st.current_file
        b == add_line(st.b, Branches(file, r.line, 1, taken))
    IN IF r.line = Bad \/ r.taken = Bad THEN Refuse(st)
       ELSE [st EXCEPT !.b = IF taken = 0 THEN b
               ELSE add_test_observation(b, st.current_test, "branch", file,
                                         r.line, r.region)]

\* The name of a test ends with its record.
lcov_end_of_record(st, r) ==
    [st EXCEPT !.current_test = Absent, !.current_file = Absent,
               !.function_lines = <<>>]

\* Functions are known by the FN records of the same file; an FNDA record of
\* another name is skipped, as is everything outside a file.
parse_lcov(st, r) ==
    LET file == st.current_file
        line == IF r.tag = "FNDA" THEN st.function_lines[r.name] ELSE r.line
        observe(b, kind, region) ==
            IF r.hits > 0
              THEN add_test_observation(b, st.current_test, kind, file, line, region)
              ELSE b
    IN CASE r.tag = "TN" ->
              [st EXCEPT !.current_test = r.name, !.b = add_test_name(@, r.name)]
         [] r.tag = "SF" ->
              [st EXCEPT !.current_file = r.file, !.function_lines = <<>>]
         [] r.tag = "end_of_record" -> lcov_end_of_record(st, r)
         [] file = Absent -> st
         [] r.tag = "DA" ->
              IF ~AllNumbers({r.line, r.hits}) THEN Refuse(st)
              ELSE [st EXCEPT !.b = observe(
                      add_line(@, Line(file, r.line, r.hits, Absent)), "line", "line")]
         [] r.tag = "FN" ->
              IF r.line = Bad THEN Refuse(st)
              ELSE [st EXCEPT !.function_lines = r.name :> r.line @@ @]
         [] r.tag = "FNDA" /\ r.name \notin DOMAIN st.function_lines -> st
         [] r.tag = "FNDA" ->
              IF r.hits = Bad THEN Refuse(st)
              ELSE [st EXCEPT !.b = observe(
                      add_line(@, Function(file, line, IsCovered(r.hits))),
                      "function", r.name)]
         [] r.tag = "BRDA" -> add_lcov_branch(st, r)

\* A line both executed and missing counts once, as executed; the branches of
\* a line are counted by the line they start on.  A field may be absent, and
\* Bad when it is not an array of numbers.
parse_coveragepy_json(st, e) ==
    LET given(field) == IF field = Absent THEN {} ELSE field
        lines == given(e.executed_lines) \cup given(e.missing_lines)
        count(branches, l) == Cardinality({x \in given(branches) : x[1] = l})
        starts == {x[1] : x \in given(e.executed_branches)
                                  \cup given(e.missing_branches)}
        line(l) == LET hit == l \in given(e.executed_lines)
                   IN Line(e.file, l, IF hit THEN 1 ELSE 0, hit)
        branch(l) == Branches(e.file, l,
            count(e.missing_branches, l) + count(e.executed_branches, l),
            count(e.executed_branches, l))
        calls(set, call(_)) == [i \in DOMAIN SetToSeq(set) |-> call(SetToSeq(set)[i])]
    IN IF Bad \in {e.executed_lines, e.missing_lines, e.executed_branches,
                   e.missing_branches}
         THEN Refuse(st)
         ELSE LET read == Accept(st, calls(lines, line) \o calls(starts, branch))
              IN IF e.summary THEN [read EXCEPT !.b = add_file_metrics(@, e.file, <<>>)]
                              ELSE read

\* Explicit counts must both be there; otherwise the fraction in
\* condition-coverage is used.
cobertura_branch_counts(e) ==
    CASE ~e.branch -> <<0, 0>>
      [] e.branches_valid # Absent \/ e.branches_covered # Absent ->
           <<e.branches_valid, e.branches_covered>>
      [] e.condition = Absent -> <<0, 0>>
      [] OTHER -> e.condition

\* One line element of a class: find_nodes visits every class, descendants
\* every line under it.
parse_cobertura(st, e) ==
    LET counts == cobertura_branch_counts(e)
        call == [Line(e.file, e.line, e.hits, Absent) EXCEPT
                   !.branches = counts[1], !.covered_branches = counts[2]]
    IN IF e.file = Absent \/ ~AllNumbers({e.line, e.hits, counts[1], counts[2]})
         THEN Refuse(st)
         ELSE [Accept(st, <<call>>) EXCEPT !.b = add_file_metrics(@, e.file, <<>>)]

\* Instructions are the hits of a line.
parse_jacoco(st, e) ==
    LET call == [Line(e.file, e.line, e.ci, e.ci > 0) EXCEPT
                   !.branches = e.mb + e.cb, !.covered_branches = e.cb]
    IN IF e.file = Absent \/ ~AllNumbers({e.line, e.mi, e.ci, e.mb, e.cb})
         THEN Refuse(st) ELSE Accept(st, <<call>>)

\* Istanbul objects map ids to a start line and ids to hits.  A map and its
\* hits come together, every id of a map has hits, and a line is positive.
IdsMatch(map, hits) ==
    \/ map = Absent /\ hits = Absent
    \/ /\ Absent \notin {map, hits}
       /\ \A id \in DOMAIN map :
            /\ id \in DOMAIN hits /\ hits[id] # Bad
            /\ map[id] # Bad /\ map[id] >= 1

parse_istanbul(st, e) ==
    LET calls(map, call(_)) ==
            IF map = Absent THEN <<>>
            ELSE [i \in DOMAIN SetToSeq(DOMAIN map) |->
                    call(SetToSeq(DOMAIN map)[i])]
        taken(id) == Cardinality({i \in DOMAIN e.b[id] : e.b[id][i] > 0})
    IN IF \/ Absent \in {e.statementMap, e.s}
          \/ ~IdsMatch(e.statementMap, e.s)
          \/ ~IdsMatch(e.fnMap, e.f)
          \/ ~IdsMatch(e.branchMap, e.b)
         THEN Refuse(st)
         ELSE Accept(st,
                calls(e.statementMap,
                      LAMBDA id : Line(e.file, e.statementMap[id], e.s[id], Absent))
             \o calls(e.fnMap,
                      LAMBDA id : Function(e.file, e.fnMap[id], IsCovered(e.f[id])))
             \o calls(e.branchMap,
                      LAMBDA id : Branches(e.file, e.branchMap[id], Len(e.b[id]),
                                           taken(id))))

\* The range of a block is bounded so that a report cannot ask for any number
\* of rows.
MaxGoLines == 1000000

\* A block covers all the lines it touches.
parse_go(st, e) ==
    IF \/ ~AllNumbers({e.start, e.end, e.statements, e.hits})
       \/ e.start < 1 \/ e.end < 1 \/ e.statements < 0 \/ e.hits < 0
       \/ e.end < e.start \/ e.end - e.start + 1 > MaxGoLines
      THEN Refuse(st)
      ELSE Accept(st, [i \in 1..(e.end - e.start + 1) |->
                         Line(e.file, e.start + i - 1, e.hits, e.hits > 0)])

\* A function record names the files it belongs to; its regions and branches
\* are only checked.  The result maps files to function records.
llvm_function_records(functions) ==
    IF \E f \in functions : \/ f.name = Absent \/ Absent \in {f.files, f.regions}
                            \/ ~AllNumbers({f.count} \cup f.regions)
      THEN Bad
      ELSE [file \in UNION {f.files : f \in functions} |->
              {f \in functions : file \in f.files}]

Given(seq) == IF seq = Absent THEN <<>> ELSE seq

\* Segments without a count are gaps.  A branch has two outcomes.
llvm_rows(e) ==
    LET counted == SelectSeq(Given(e.segments), LAMBDA x : x.has_count)
        branches == Given(e.branches)
    IN [i \in DOMAIN counted |->
          Line(e.file, counted[i].line, counted[i].hits, counted[i].hits > 0)]
       \o [i \in DOMAIN branches |->
             Branches(e.file, branches[i].line, 2,
                      IsCovered(branches[i].yes) + IsCovered(branches[i].no))]

\* The totals of the summary are the file's metrics; functions or branches
\* alone make the file known.
parse_llvm(st, e) ==
    LET records == llvm_function_records(e.functions)
        numbers == UNION {{x.line, x.hits} : x \in Range(Given(e.segments))}
                   \cup UNION {{x.line, x.yes, x.no} : x \in Range(Given(e.branches))}
                   \cup (IF e.summary = Absent THEN {} ELSE Range(e.summary))
    IN IF \/ records = Bad \/ e.file = Absent \/ ~AllNumbers(numbers)
          \/ \E x \in Range(Given(e.branches)) : x.line < 1
         THEN Refuse(st)
         ELSE LET read == Accept(st, llvm_rows(e))
              IN CASE e.summary # Absent ->
                        [read EXCEPT !.b = add_file_metrics(@, e.file, e.summary)]
                   [] e.file \in DOMAIN records \/ e.branches # Absent ->
                        [read EXCEPT !.b = add_file_metrics(@, e.file, <<>>)]
                   [] OTHER -> read

parse_selected(format, st, e) ==
    CASE format = "lcov" -> parse_lcov(st, e)
      [] format = "coveragepy" -> parse_coveragepy_json(st, e)
      [] format = "cobertura" -> parse_cobertura(st, e)
      [] format = "jacoco" -> parse_jacoco(st, e)
      [] format = "istanbul" -> parse_istanbul(st, e)
      [] format = "go" -> parse_go(st, e)
      [] format = "llvm" -> parse_llvm(st, e)
=============================================================================
