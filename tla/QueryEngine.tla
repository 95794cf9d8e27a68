----------------------------- MODULE QueryEngine -----------------------------
(***************************************************************************)
(* Coverage answers from one, two or many measurements: gaps, comparison   *)
(* and the marginal gain of a batch (src/query.rs, src/query_incremental). *)
(*                                                                         *)
(* A measurement is a report or a saved snapshot:                          *)
(*   format, files, rows: the report; rows are observations                *)
(*   reported:  <<covered, total>> that the report states for the metric   *)
(*   build, hashes, tests, scope: the producer's receipt, Absent fields    *)
(*   source:    whether the source still matches the receipt               *)
(* An observation has a path, a symbol, a span, an arm, a kind and hits;   *)
(* negative hits are inventory that nothing has measured.  Paths and       *)
(* symbols are numbers, in the order of the names; zero is no symbol.      *)
(***************************************************************************)
EXTENDS Integers, Sequences, FiniteSets, FiniteSetsExt, SequencesExt, Orders, TLC

CONSTANTS Bad, Absent

-----------------------------------------------------------------------------
(* Selecting a measurement *)

\* ref: what the caller named; snapshots: the saved ones, newest first, of
\* the selected suite or of all.  Without a reference the newest snapshot is
\* taken when that is not ambiguous.
select_reference(ref, suite, snapshots, limit) ==
    IF ref # Absent THEN (IF ref.blank THEN Bad ELSE ref)
    ELSE IF \/ suite = Absent /\ Len(snapshots) >= limit
            \/ Cardinality({s.suite : s \in Range(snapshots)}) > 1
            \/ snapshots = <<>> THEN Bad
    ELSE [name |-> snapshots[1].id, is_file |-> FALSE, id_like |-> TRUE]

\* A name that is no file and looks like an id is looked up, first among the
\* snapshots and then among the composites; everything else is a path.
load(ref, suite, repo, stored, composites) ==
    LET snapshot == stored[ref.name]
    IN IF ref = Bad THEN Bad
       ELSE IF ref.is_file THEN (IF ref.inside THEN "report" ELSE Bad)
       ELSE IF ~ref.id_like THEN Bad
       ELSE IF ref.name \in DOMAIN stored
         THEN (IF snapshot.repo # repo \/ (suite # Absent /\ snapshot.suite # suite)
                 THEN Bad ELSE "snapshot")
       ELSE IF ref.name \in DOMAIN composites /\ composites[ref.name] = repo
         THEN "composite" ELSE Bad

\* A receipt belongs to these bytes and names a build and source hashes.
receipt_accepted(r, report_hash) ==
    /\ r.report_sha256 = report_hash
    /\ r.hashes # Absent /\ r.build # Absent
    /\ r.tests \in {"passed", "failed", "unknown"}
    /\ r.scope \in {Absent, "full", "selected_tests"}

\* now: the hash of each file of the working tree, Absent when it is gone.
source_state(files, hashes, now) ==
    IF hashes = Absent \/ files = {} THEN "unverified"
    ELSE IF \E f \in files : f \in DOMAIN hashes /\ now[f] # hashes[f]
      THEN "changed_or_missing"
    ELSE IF \E f \in files : f \notin DOMAIN hashes THEN "unverified"
    ELSE "matches_receipt"

-----------------------------------------------------------------------------
(* Observations *)

\* Rows of the same key: the most hits count.  key: the key of each row.
MergedBy(key) ==
    [k \in {key[r] : r \in DOMAIN key} |->
       Max({r.hits : r \in {x \in DOMAIN key : key[x] = k}})]

Key(row) == <<row.kind, row.path, row.symbol, row.span, row.arm>>

\* Regions of the functions that belong to the file, code regions only, both
\* arms of a branch, and the counted lines.  A span that is no span or a
\* region of an unknown file refuses the report.
observations(m) ==
    LET regions == {r \in m.functions : r.kind = "branches" \/ r.code = 0}
        arms(r) == IF r.kind = "branches" THEN {<<"true", r.yes>>, <<"false", r.no>>}
                                          ELSE {<<"", r.yes>>}
        row(r, a) == [path |-> r.path, symbol |-> r.symbol, span |-> r.span,
                      kind |-> r.kind, arm |-> a[1], hits |-> a[2]]
        line(l) == [path |-> l.path, symbol |-> 0, span |-> <<l.line, l.line>>,
                    kind |-> "lines", arm |-> "", hits |-> IF l.covered THEN 1 ELSE 0]
    IN IF \E r \in regions : r.span[1] = 0 \/ r.span[2] < r.span[1] THEN Bad
       ELSE UNION {{row(r, a) : a \in arms(r)} : r \in regions}
            \cup {line(l) : l \in {x \in m.lines : x.count_line}}

\* One row of a composite: what is neither covered nor uncovered is inventory
\* without a measurement, and its state is the cause.
composite_row(region) ==
    [path |-> region.path, symbol |-> region.key, span |-> region.span,
     kind |-> "regions", arm |-> "",
     hits |-> IF region.state = "covered" THEN 1
              ELSE IF region.state = "uncovered" THEN 0 ELSE -1]

decode_composite(snapshot, regions) ==
    LET rows == {composite_row(r) : r \in regions}
        hash(p) == {r.source_hash : r \in {x \in regions : x.path = p}}
        paths == {r.path : r \in regions}
        covered == Cardinality({r \in rows : r.hits > 0})
    IN IF \/ \E p \in paths : Cardinality(hash(p)) > 1
          \/ snapshot.total # Cardinality(rows) \/ snapshot.covered # covered
         THEN Bad
         ELSE [format |-> "composite", files |-> paths, rows |-> rows,
               reported |-> <<covered, Cardinality(rows)>>,
               build |-> snapshot.inventory,
               hashes |-> [p \in paths |-> CHOOSE h \in hash(p) : TRUE],
               tests |-> "unknown", scope |-> Absent]

\* auto: regions when the report has any.
metric(requested, has_regions) ==
    CASE requested = "auto" -> IF has_regions THEN "regions" ELSE "lines"
      [] requested \in {"regions", "branches", "lines"} -> requested
      [] OTHER -> Bad

-----------------------------------------------------------------------------
(* Gaps *)

\* Rows are grouped by function, or by line outside functions; the groups
\* with most gaps come first, ties in source order.
group_rows(rows) ==
    LET place(r) == <<r.path, r.symbol, IF r.symbol = 0 THEN r.span[1] ELSE 0>>
        places == {place(r) : r \in rows}
        members(g) == {r \in rows : place(r) = g}
        first(g) == CHOOSE s \in {r.span : r \in members(g)} :
                      \A r \in members(g) : s = r.span \/ Less(s, r.span)
    IN InOrder(places, [g \in places |-> <<-Cardinality(members(g)), g[1], first(g)[1],
                                           first(g)[2], g[2]>>])

\* A page of groups, and where the next one starts.
groups(all, limit, offset) ==
    SubSeq(all, offset + 1, Min({offset + limit, Len(all)}))

find(rows, limit, offset) ==
    LET all == group_rows({r \in rows : r.hits <= 0})
        items == groups(all, limit, offset)
        next == offset + Len(items)
    IN [groups |-> items, group_count |-> Len(all),
        next_offset |-> IF next < Len(all) THEN next ELSE Absent,
        status |-> IF \E r \in rows : r.hits < 0 THEN "incomplete"
                   ELSE IF rows # {} THEN "measured" ELSE "detail_unavailable"]

\* Groups are dropped from the end until the answer fits; the next page
\* starts at the first group dropped.  size: the bytes of each group.
bounded(page, size, cap) ==
    LET bytes[n \in 0..Len(page.groups)] == IF n = 0 THEN 0 ELSE bytes[n - 1] + size[n]
        fits == {n \in 0..Len(page.groups) : bytes[n] <= cap}
        kept == Max(fits)
        end == IF page.next_offset = Absent THEN page.group_count
                                            ELSE page.next_offset
    IN IF kept = Len(page.groups) THEN page
       ELSE IF kept = 0 THEN Bad
       ELSE [page EXCEPT !.groups = SubSeq(@, 1, kept),
                         !.next_offset = end - (Len(page.groups) - kept)]

-----------------------------------------------------------------------------
(* Comparing two measurements *)

Agree(hashes, other, file) ==
    file \in DOMAIN hashes /\ file \in DOMAIN other /\ hashes[file] = other[file]

\* Mutant: the build alone decides.
compatible_build(current, baseline) ==
    current.build # Absent /\ baseline.build = current.build

\* The same build, and the same source of every file that either one covers.
compatible_context(current, baseline) ==
    /\ current.build # Absent /\ baseline.build = current.build
    /\ current.hashes # Absent /\ baseline.hashes # Absent
    /\ \A f \in current.files \cup baseline.files :
         Agree(current.hashes, baseline.hashes, f)

\* Receipts that contradict each other.
ConflictingContext(current, baseline) ==
    /\ current.build # Absent /\ baseline.build # Absent
    /\ \/ current.build # baseline.build
       \/ \E f \in current.files \cup baseline.files :
            /\ f \in DOMAIN current.hashes /\ f \in DOMAIN baseline.hashes
            /\ current.hashes[f] # baseline.hashes[f]

\* The answer: a status, what was gained and lost, and whether the counts are
\* shown at all.
compare(current, baseline, scope, kind) ==
    LET verified == compatible_context(current, baseline)
        full == /\ scope = "full" /\ verified
                /\ current.scope = "full" /\ baseline.scope = "full"
        after == MergedBy([r \in {x \in current.rows : x.kind = kind} |-> Key(r)])
        before == MergedBy([r \in {x \in baseline.rows : x.kind = kind} |-> Key(r)])
        comparable ==
            /\ ~ConflictingContext(current, baseline)
            /\ current.format = baseline.format
            /\ DOMAIN after # {} /\ DOMAIN before # {}
            /\ \A k \in DOMAIN after : after[k] >= 0
            /\ \A k \in DOMAIN before : before[k] >= 0
        gained == {k \in DOMAIN after :
                     after[k] > 0 /\ k \in DOMAIN before /\ before[k] = 0}
        lost == {k \in DOMAIN before :
                   before[k] > 0 /\ (k \in DOMAIN after => after[k] = 0)}
    IN [status |-> IF current.tests = "failed" THEN "tests_failed"
                   ELSE IF ~comparable THEN "incomparable"
                   ELSE IF ~verified THEN "limited"
                   ELSE IF full /\ lost # {} THEN "regression"
                   ELSE IF gained = {} THEN "no_gain" ELSE "improved",
        full |-> full, gained |-> gained, lost |-> lost,
        added |-> DOMAIN after \ DOMAIN before,
        removed |-> DOMAIN before \ DOMAIN after,
        changes |-> comparable]

\* The requests that are refused before a report is read.
valid_request(limit, query_length, scope, previous) ==
    /\ limit \in 1..20 /\ query_length \in 1..256
    /\ scope \in {"selected_tests", "full", "incremental"}
    /\ Len(previous) <= 16 /\ (scope # "incremental" => previous = <<>>)

-----------------------------------------------------------------------------
(* The marginal gain of a batch over a baseline and accepted batches *)

\* Instantiations of a generic function share their source span.
inventory(m, kind) ==
    MergedBy([r \in {x \in m.rows : x.kind = kind} |-> <<r.path, r.span, r.arm>>])

Covered(union) == {k \in DOMAIN union : union[k] > 0}
totals(union) == <<Cardinality(Covered(union)), Cardinality(DOMAIN union)>>

\* The exact observations add up to what the report states.
detail_matches(m, rows) ==
    /\ DOMAIN rows # {} /\ \A k \in DOMAIN rows : rows[k] >= 0
    /\ totals(rows) = m.reported

conflict(base, batch) ==
    \/ "changed_or_missing" \in {base.source, batch.source}
    \/ (base.build # Absent /\ batch.build # Absent /\ base.build # batch.build)
    \/ /\ base.hashes # Absent /\ batch.hashes # Absent
       /\ \E f \in batch.files :
            /\ f \in DOMAIN base.hashes /\ f \in DOMAIN batch.hashes
            /\ base.hashes[f] # batch.hashes[f]

verified(base, batch) ==
    /\ base.source = "matches_receipt" /\ batch.source = "matches_receipt"
    /\ base.build = batch.build
    /\ base.tests = "passed" /\ batch.tests = "passed"

\* Why a batch cannot be combined, or Absent.
reject(base, batch, union, rows, known_build) ==
    IF batch.tests = "failed" THEN "tests_failed"
    ELSE IF \/ base.format # batch.format \/ conflict(base, batch)
            \/ known_build # Absent /\ batch.build # Absent /\ known_build # batch.build
            \/ ~detail_matches(batch, rows)
            \/ DOMAIN rows \ DOMAIN union # {} THEN "incomparable"
    ELSE Absent

\* The whole batch replaces the union: its absences take coverage away.
AddAll(union, rows) == [k \in DOMAIN union |-> IF k \in DOMAIN rows THEN rows[k]
                                                                    ELSE union[k]]

\* Rows that the batch covers replace those of the union.
Add(union, rows) == [k \in DOMAIN union |-> IF k \in Covered(rows) THEN rows[k]
                                                                   ELSE union[k]]

accept_batch(base, kind, st, batch) ==
    LET rows == inventory(batch, kind)
        rejected == reject(base, batch, st.union, rows, st.build)
    IN IF st.rejected # Absent THEN st
       ELSE IF rejected # Absent THEN [st EXCEPT !.rejected = rejected]
       ELSE [union |-> Add(st.union, rows), rejected |-> Absent,
             build |-> IF st.build = Absent THEN batch.build ELSE st.build,
             trusted |-> st.trusted /\ verified(base, batch)]

\* The state after each of the earlier batches: they are accepted one at a
\* time, from the baseline on.
accept_batches(base, previous, kind) ==
    LET after[n \in 0..Len(previous)] ==
          IF n = 0 THEN [union |-> inventory(base, kind), rejected |-> Absent,
                         build |-> base.build, trusted |-> TRUE]
          ELSE accept_batch(base, kind, after[n - 1], previous[n])
    IN after

\* The current batch is weighed against the union of the baseline and the
\* earlier ones.
combine(base, previous, current, kind) ==
    LET accepted == accept_batches(base, previous, kind)[Len(previous)]
        after == accept_batch(base, kind, accepted, current)
        rows == inventory(current, kind)
        gained == {k \in Covered(rows) : accepted.union[k] = 0}
    IN IF after.rejected # Absent
         THEN [status |-> after.rejected, trusted |-> FALSE]
         ELSE [status |-> IF ~after.trusted THEN "limited"
                          ELSE IF gained = {} THEN "no_gain" ELSE "improved",
               trusted |-> after.trusted,
               accepted |-> totals(accepted.union),
               batch_covered |-> Cardinality(Covered(rows)),
               newly_covered |-> Cardinality(gained),
               combined |-> totals(after.union),
               remaining |-> DOMAIN after.union \ Covered(after.union)]

\* A baseline that failed or whose detail is incomplete is not combined.
compare_incremental(base, previous, current, kind) ==
    IF base.tests = "failed" THEN [status |-> "tests_failed", trusted |-> FALSE]
    ELSE IF ~detail_matches(base, inventory(base, kind))
      THEN [status |-> "incomparable", trusted |-> FALSE]
    ELSE combine(base, previous, current, kind)
=============================================================================
