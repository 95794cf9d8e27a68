-------------------------- MODULE CompositeAssembly --------------------------
(***************************************************************************)
(* Composite snapshots: an inventory of the regions a project must measure *)
(* and the evidence of one run, per component and package variant, joined  *)
(* into one immutable record (src/composite.rs, and the part of            *)
(* src/storage.rs that composes, stores and reads them).                   *)
(*                                                                         *)
(* Documents are records.  A field that is missing is Absent, one that     *)
(* cannot be read is Bad.  A logical source id and a discriminator are     *)
(* sequences of words, split where the code writes a colon; words are      *)
(* numbers.  A repository maps each path to the hash of its bytes.         *)
(***************************************************************************)
EXTENDS Integers, Sequences, FiniteSets, FiniteSetsExt, SequencesExt, TLC

CONSTANTS Bad, Absent

REGIONS_SCHEMA == "coverage-mcp-regions-v1"
INVENTORY_SCHEMA == "coverage-mcp-inventory-v1"
MAPPING_VERSION == REGIONS_SCHEMA

\* The words that name a producer in a discriminator.
Python == 101
Istanbul == 102
Llvm == 103
OtherFormat == 104

normalize_composite_format(format) ==
    CASE format \in {"coverage.py", "coveragepy", "python"} -> "coveragepy"
      [] format \in {"istanbul", "javascript", "js"} -> "istanbul"
      [] format \in {"llvm", "llvm-json"} -> "llvm"
      [] OTHER -> format

-----------------------------------------------------------------------------
(* Descriptors and inventories *)

Distinct(s) == Cardinality(Range(s)) = Len(s)

OneBased(first, last) == first # Bad /\ last # Bad /\ first >= 1 /\ last >= first

\* A list of [path, id], each pair once.
parse_aliases(list) ==
    IF list = Absent THEN <<>>
    ELSE IF \/ list = Bad \/ ~Distinct(list)
            \/ \E i \in DOMAIN list : list[i].path = Bad \/ list[i].id = Bad THEN Bad
    ELSE list

\* The composite part of an artifact specification.
composite_descriptor(d) ==
    LET role == IF d.role = Absent THEN "coverage" ELSE d.role
        aliases == parse_aliases(d.aliases)
        given == IF d.format = Absent THEN d.coverage_format ELSE d.format
        unnamed == IF role = "inventory" THEN INVENTORY_SCHEMA ELSE "auto"
    IN IF \/ role \notin {"coverage", "inventory"}
          \/ aliases = Bad \/ (role = "coverage" /\ aliases = <<>>)
          \/ d.toolchain = Bad
          \/ Bad \in {d.component, d.variant, d.language, d.inventory_artifact}
         THEN Bad
         ELSE [role |-> role, component |-> d.component, variant |-> d.variant,
               language |-> d.language, aliases |-> aliases,
               inventory_artifact |-> d.inventory_artifact,
               format |-> normalize_composite_format(
                            IF given = Absent THEN unnamed ELSE given)]

parse_inventory_region(r) ==
    IF OneBased(r.start_line, r.end_line) /\ r.discriminator # Bad THEN r ELSE Bad

\* Only production entries must have regions, variants and formats.
parse_inventory_entry(e) ==
    LET regions == IF e.regions \in {Bad, Absent} THEN Bad
                   ELSE [i \in DOMAIN e.regions |-> parse_inventory_region(e.regions[i])]
        component == IF e.component = Absent THEN e.package ELSE e.component
    IN IF \/ Bad \in {e.id, e.path, e.package, e.language, e.hash, e.variants, e.formats}
          \/ ~e.relative
          \/ e.role \notin {"production", "catalogue"}
          \/ ~Distinct(e.variants)
          \/ regions = Bad
         THEN Bad
         ELSE IF \/ Bad \in Range(regions) \/ ~Distinct(regions)
                 \/ e.role = "production" /\ <<>> \in {regions, e.variants, e.formats}
         THEN Bad
         ELSE [id |-> e.id, path |-> e.path, component |-> component,
               language |-> e.language, role |-> e.role, hash |-> e.hash,
               variants |-> Range(e.variants), regions |-> Range(regions),
               formats |-> {normalize_composite_format(f) : f \in Range(e.formats)}]

parse_inventory(doc) ==
    LET entries == [i \in DOMAIN doc.entries |-> parse_inventory_entry(doc.entries[i])]
    IN IF \/ doc = Bad
          \/ doc.schema # INVENTORY_SCHEMA \/ doc.mapping # MAPPING_VERSION
          \/ doc.revision = Bad \/ doc.entries \in {Bad, <<>>}
          \/ Bad \in Range(entries)
          \/ Cardinality({e.id : e \in Range(entries)}) < Len(entries) THEN Bad
       ELSE [revision |-> doc.revision, entries |-> Range(entries)]

-----------------------------------------------------------------------------
(* Regions of the artifacts *)

Region(path, id, first, last, words, hits, covered, hash) ==
    [path |-> path, id |-> id, start_line |-> first, end_line |-> last,
     discriminator |-> words, hits |-> hits, covered |-> covered, hash |-> hash]

\* One region of a coverage-mcp-regions-v1 artifact.
parse_canonical_region(r) ==
    LET hits == IF r.hits = Absent THEN 0 ELSE r.hits
    IN IF \/ ~OneBased(r.start_line, r.end_line)
          \/ Bad \in {r.path, r.discriminator, r.hash, hits}
         THEN Bad
       ELSE IF hits < 0 THEN Bad
       ELSE Region(r.path, r.id, r.start_line, r.end_line, r.discriminator, hits,
                   IF r.covered = Absent THEN hits > 0 ELSE r.covered, r.hash)

parse_region_artifact_with_revision(doc) ==
    LET regions == {parse_canonical_region(r) : r \in doc.regions}
    IN IF \/ doc.schema # REGIONS_SCHEMA \/ doc.mapping # MAPPING_VERSION
          \/ doc.revision = Bad \/ Bad \in regions
         THEN Bad
         ELSE [revision |-> doc.revision, regions |-> regions]

\* files: [path, executed, missing], sets of line numbers.
derive_coveragepy_regions(files) ==
    LET line(f, n, hit) == Region(f.path, Absent, n, n, <<Python, n>>,
                                  IF hit THEN 1 ELSE 0, hit, Absent)
    IN IF \E f \in files : \/ Bad \in {f.executed, f.missing}
                           \/ \E n \in f.executed \cup f.missing : n < 1
         THEN Bad
         ELSE UNION {   {line(f, n, TRUE) : n \in f.executed}
                     \cup {line(f, n, FALSE) : n \in f.missing} : f \in files}

\* files: [path, statements], a statement is [name, first, last, hits].
derive_istanbul_regions(files) ==
    LET statement(f, s) == Region(f.path, Absent, s.first, s.last,
                                  <<Istanbul, s.name>>, s.hits, s.hits > 0, Absent)
    IN IF \E f \in files : \E s \in f.statements :
              Bad \in {s.first, s.last, s.hits} \/ s.first < 1 \/ s.last < 1 \/ s.hits < 0
         THEN Bad
         ELSE UNION {{statement(f, s) : s \in f.statements} : f \in files}

\* files: [path, segments], a segment is [line, column, hits, counted, entry].
\* A region runs from a counted entry to the next counted entry.
derive_llvm_regions(files) ==
    LET entries(f) == SelectSeq(f.segments, LAMBDA s : s.counted /\ s.entry)
        region(f, i) ==
            LET s == entries(f)[i]
                next == IF i = Len(entries(f)) THEN <<s.line, s.column + 1>>
                        ELSE <<entries(f)[i + 1].line, entries(f)[i + 1].column>>
            IN Region(f.path, Absent, s.line, next[1],
                      <<Llvm, s.line, s.column, next[1], next[2]>>, s.hits, s.hits > 0, Absent)
    IN IF \E f \in files : \E s \in Range(entries(f)) : Bad \in {s.line, s.column, s.hits}
         THEN Bad
         ELSE UNION {{region(f, i) : i \in DOMAIN entries(f)} : f \in files}

\* Every other format: its counted lines.
derive_standard_regions(format, doc) ==
    CASE format = "coveragepy" -> derive_coveragepy_regions(doc)
      [] format = "istanbul" -> derive_istanbul_regions(doc)
      [] format = "llvm" -> derive_llvm_regions(doc)
      [] OTHER -> {Region(l.path, Absent, l.line, l.line, <<OtherFormat, l.line>>,
                          l.hits, l.covered, Absent) : l \in {x \in doc : x.count_line}}

-----------------------------------------------------------------------------
(* Assembly.  An input is a coverage descriptor with its status, the source *)
(* revision of its evidence, the snapshot it was reused from, its regions.  *)
(* inputs has those of a run in the order of its artifacts.                 *)

region_key(id, region) == id \o <<region.start_line, region.end_line>> \o region.discriminator

\* A catalogue entry without variants has the variant "default".
Required(entry) == IF entry.variants = {} THEN {"default"} ELSE entry.variants

\* The regions the production entries own.  Two that have one key are one.
expected_regions(production) ==
    LET owned == UNION {{<<region_key(e.id, r), e, r>> : r \in e.regions} : e \in production}
    IN [k \in {o[1] : o \in owned} |->
          LET o == CHOOSE x \in owned : x[1] = k
          IN [entry |-> o[2], region |-> o[3]]]

Owner(input) == <<input.component, input.variant>>

ExpectedOf(expected, input) ==
    {k \in DOMAIN expected : /\ expected[k].entry.component = input.component
                             /\ input.variant \in Required(expected[k].entry)}

format_allowed(expected, input) ==
    \E k \in ExpectedOf(expected, input) : input.format \in expected[k].entry.formats

EvidenceStale(inventory, input) ==
    input.revision # Absent /\ input.revision # inventory.revision

\* The last input of a component and variant decides its status.
descriptor_status(inventory, expected, inputs, owner) ==
    LET own == {i \in DOMAIN inputs : Owner(inputs[i]) = owner}
        last == inputs[Max(own)]
    IN IF own = {} THEN Absent
       ELSE IF ~format_allowed(expected, last) THEN "format_mismatch"
       ELSE IF EvidenceStale(inventory, last) THEN "stale_evidence"
       ELSE last.status

\* The inventory source of a region: its own id, else the alias of its path.
logical_source_id(input, region) ==
    LET named == {i \in DOMAIN input.aliases : input.aliases[i].path = region.path}
    IN IF region.id # Absent THEN region.id
       ELSE IF named # {} THEN input.aliases[Max(named)].id ELSE Absent

\* What becomes of a region: counted, or the reason why it is not.
place(expected, input, region) ==
    LET id == logical_source_id(input, region)
        key == region_key(id, region)
    IN IF id = Absent THEN [why |-> "no_alias", key |-> <<>>]
       ELSE IF key \notin DOMAIN expected THEN [why |-> "unowned", key |-> key]
       ELSE IF region.hash \notin {Absent, expected[key].entry.hash}
         THEN [why |-> "source_mismatch", key |-> key]
       ELSE [why |-> "observed", key |-> key]

Placed(expected, inputs, owner, why) ==
    UNION {{<<place(expected, inputs[i], r).key, r>> :
              r \in {x \in inputs[i].regions : place(expected, inputs[i], x).why = why}} :
           i \in {j \in DOMAIN inputs :
                    Owner(inputs[j]) = owner /\ format_allowed(expected, inputs[j])}}

\* Observations of one region are united: covered by any, the most hits.
observed(expected, inputs, owner, key) ==
    LET seen == {p[2] : p \in {q \in Placed(expected, inputs, owner, "observed") : q[1] = key}}
    IN IF seen = {} THEN Absent
       ELSE [covered |-> \E r \in seen : r.covered,
             hits |-> Max({0} \cup {r.hits : r \in seen})]

SourceMismatch(repo, entry) == repo[entry.path] # entry.hash

\* What is wrong with the evidence.
input_reasons(inventory, expected, inputs) ==
    LET all == Range(inputs)
        whys(i) == {place(expected, i, r).why : r \in i.regions}
        twice == \E m, n \in DOMAIN inputs : m # n /\ Owner(inputs[m]) = Owner(inputs[n])
    IN (IF twice THEN {<<"duplicate">>} ELSE {})
       \cup {<<"stale", Owner(i)>> : i \in {x \in all : EvidenceStale(inventory, x)}}
       \cup {<<"status", Owner(i)>> : i \in {x \in all : x.status # "ingested"}}
       \cup {<<"not owned", Owner(i)>> : i \in {x \in all : ExpectedOf(expected, x) = {}}}
       \cup {<<"format", Owner(i)>> : i \in {x \in all : ~format_allowed(expected, x)}}
       \cup {<<"regions", Owner(i)>> :
               i \in {x \in all : format_allowed(expected, x) /\ whys(x) \ {"observed"} # {}}}

\* What the production entries miss.
source_reasons(production, inputs, repo) ==
    LET owners == {Owner(inputs[i]) : i \in DOMAIN inputs}
        uses(x, f) == \E i \in Range(inputs) :
                        i.component = x.component /\ i.language = x.language /\ i.format = f
    IN {<<"language", e.id>> :
          e \in {x \in production : x.language \notin
                   {"rust", "wgsl", "wasm", "python", "javascript", "js"}}}
       \cup {<<"variant", e.id>> :
               e \in {x \in production : ~({x.component} \X Required(x) \subseteq owners)}}
       \cup {<<"source", e.id>> : e \in {x \in production : SourceMismatch(repo, x)}}
       \cup {<<"expected format", e.id>> :
               e \in {x \in production : /\ \E o \in owners : o[1] = x.component
                                         /\ \E f \in x.formats : ~uses(x, f)}}

\* Why a composite cannot be complete.
reasons(inventory, inputs, repo, revision, dirty) ==
    LET production == {e \in inventory.entries : e.role = "production"}
        when(condition, why) == IF condition THEN {<<why>>} ELSE {}
    IN when(production = {}, "no production entries")
       \cup when(inventory.revision # revision, "revision")
       \cup when(dirty, "dirty")
       \cup input_reasons(inventory, expected_regions(production), inputs)
       \cup source_reasons(production, inputs, repo)

\* Mutant: evidence for other bytes of the source counts.
variant_state_trusts_evidence(repo, dirty, entry, status, mismatched, seen) ==
    IF seen = Absent THEN "unmeasured" ELSE IF seen.covered THEN "covered" ELSE "uncovered"

\* The state of one region in one variant, the worst cause first.
variant_state(repo, dirty, entry, status, mismatched, seen) ==
    IF SourceMismatch(repo, entry) \/ mismatched THEN "source_mismatch"
    ELSE IF dirty /\ status = "ingested" THEN "stale_evidence"
    ELSE IF status \in {Absent, "missing"} THEN "missing_artifact"
    ELSE IF status = "skipped_stale" THEN "stale_evidence"
    ELSE IF status # "ingested" \/ seen = Absent THEN "unmeasured"
    ELSE IF seen.covered THEN "covered" ELSE "uncovered"

StateOrder == <<"source_mismatch", "missing_artifact", "stale_evidence", "unmeasured",
                "covered", "uncovered">>

\* The state of a region: the worst of its variants.
region_state(states) ==
    IF states = {} THEN "unmeasured"
    ELSE StateOrder[Min({i \in DOMAIN StateOrder : StateOrder[i] \in states})]

remediation_for_state(state) ==
    CASE state = "uncovered" -> "test_gap"
      [] state \in {"unmeasured", "stale_evidence"} -> "instrumentation_gap"
      [] state = "missing_artifact" -> "generated_variant_gap"
      [] state = "source_mismatch" -> "source_mismatch"
      [] OTHER -> "none"

region_rows(inventory, expected, inputs, repo, dirty) ==
    [k \in DOMAIN expected |->
       LET entry == expected[k].entry
           shown(state, seen) ==
               [state |-> state, hits |-> IF state \in {"covered", "uncovered"} THEN seen.hits ELSE 0]
           variant(owner, seen) ==
               shown(variant_state(repo, dirty, entry,
                       descriptor_status(inventory, expected, inputs, owner),
                       \E p \in Placed(expected, inputs, owner, "source_mismatch") : p[1] = k,
                       seen),
                     seen)
           row(variants) ==
               [id |-> entry.id, component |-> entry.component, path |-> entry.path,
                language |-> entry.language, hash |-> entry.hash,
                region |-> expected[k].region, variants |-> variants,
                state |-> region_state({variants[v].state : v \in Required(entry)})]
       IN row([v \in Required(entry) |->
                 variant(<<entry.component, v>>,
                         observed(expected, inputs, <<entry.component, v>>, k))])]

\* A region counts as covered when some variant covers it.
covered_keys(rows) ==
    {k \in DOMAIN rows : \E v \in DOMAIN rows[k].variants : rows[k].variants[v].state = "covered"}

Family(language) ==
    CASE language \in {"rust", "wgsl", "wasm"} -> "rust"
      [] language \in {"javascript", "js"} -> "javascript"
      [] OTHER -> language

component_summaries(rows, covered, why) ==
    [c \in {"rust", "python", "javascript"} |->
       LET keys == {k \in DOMAIN rows : Family(rows[k].language) = c}
       IN [covered |-> Cardinality(keys \cap covered), total |-> Cardinality(keys),
           complete |-> keys # {} /\ keys \subseteq covered /\ why = {}]]

\* How many region variants need which repair.
remediation_counts(rows) ==
    LET states == UNION {{<<k, v, rows[k].variants[v].state>> : v \in DOMAIN rows[k].variants} :
                           k \in DOMAIN rows}
        bucket(s) == remediation_for_state(s[3])
    IN [b \in {bucket(s) : s \in states} |-> Cardinality({s \in states : bucket(s) = b})]

component_evidence(expected, inputs) ==
    {[owner |-> Owner(i), measured |-> i.status = "ingested", reused_from |-> i.reused_from] :
       i \in Range(inputs)}

Build(rows, why, evidence) ==
    LET covered == covered_keys(rows)
    IN [complete |-> why = {} /\ DOMAIN rows # {} /\ covered = DOMAIN rows,
        covered |-> Cardinality(covered), total |-> Cardinality(DOMAIN rows),
        reasons |-> why, rows |-> rows,
        components |-> component_summaries(rows, covered, why),
        remediation |-> remediation_counts(rows), evidence |-> evidence]

assemble(inventory, inputs, repo, revision, dirty) ==
    LET expected == expected_regions({e \in inventory.entries : e.role = "production"})
    IN Build(region_rows(inventory, expected, inputs, repo, dirty),
             reasons(inventory, inputs, repo, revision, dirty),
             component_evidence(expected, inputs))

\* The result when the inventory is missing or cannot be read.
incomplete_build(why) ==
    [complete |-> FALSE, covered |-> 0, total |-> 0, reasons |-> {<<why>>}, rows |-> <<>>,
     components |-> [c \in {"rust", "python", "javascript"} |->
                       [covered |-> 0, total |-> 0, complete |-> FALSE]],
     remediation |-> [b \in {"missing_artifact"} |-> 1], evidence |-> {}]

-----------------------------------------------------------------------------
(* Composing, storing and reading *)

\* The descriptor that collection stored with the artifact.
composite_descriptor_from_artifact(artifact) == composite_descriptor(artifact.composite)

\* Only an ingested artifact is parsed; only a canonical one tells a revision.
component_input(artifact) ==
    LET d == composite_descriptor_from_artifact(artifact)
        undated(regions) ==
            IF regions = Bad THEN Bad ELSE [revision |-> Absent, regions |-> regions]
        input(status, revision, regions) ==
            [component |-> d.component, variant |-> d.variant, language |-> d.language,
             format |-> d.format, aliases |-> d.aliases, status |-> status,
             revision |-> revision, reused_from |-> Absent, regions |-> regions]
        read(parsed) == IF parsed = Bad THEN input("malformed", Absent, {})
                        ELSE input("ingested", parsed.revision, parsed.regions)
    IN IF artifact.status # "ingested" THEN input(artifact.status, Absent, {})
       ELSE IF d.format = REGIONS_SCHEMA
         THEN read(parse_region_artifact_with_revision(artifact.doc))
       ELSE read(undated(derive_standard_regions(d.format, artifact.doc)))

\* The composite an incremental run continues, for the same inventory only.
composite_baseline_for_run(execution, stored, repo_key, inventory_hash) ==
    IF /\ execution.mode = "incremental"
       /\ execution.baseline \in DOMAIN stored
       /\ stored[execution.baseline].repo_key = repo_key
       /\ inventory_hash # Absent
       /\ stored[execution.baseline].inventory_hash = inventory_hash
      THEN execution.baseline ELSE Absent

\* Evidence the run did not produce again is taken from the baseline, when it
\* was measured there and left at least one region covered or uncovered.
reuse_stale_composite_inputs(inputs, id, baseline) ==
    LET rows == baseline.build.rows
        kept(owner) ==
            {Region(rows[k].path, rows[k].id, rows[k].region.start_line,
                    rows[k].region.end_line, rows[k].region.discriminator,
                    rows[k].variants[owner[2]].hits,
                    rows[k].variants[owner[2]].state = "covered", rows[k].hash) :
               k \in {x \in DOMAIN rows :
                        /\ rows[x].component = owner[1]
                        /\ owner[2] \in DOMAIN rows[x].variants
                        /\ rows[x].variants[owner[2]].state \in {"covered", "uncovered"}}}
        measured(owner) == \E e \in baseline.build.evidence : e.owner = owner /\ e.measured
        reusable(i) == /\ i.status = "skipped_stale"
                       /\ measured(Owner(i)) /\ kept(Owner(i)) # {}
    IN [n \in DOMAIN inputs |->
          IF reusable(inputs[n])
            THEN [inputs[n] EXCEPT !.status = "ingested", !.revision = baseline.revision,
                                   !.reused_from = id, !.regions = kept(Owner(inputs[n]))]
            ELSE inputs[n]]

\* The inventory artifact, or the one that the first descriptor names.
inventory_path(artifacts) ==
    LET named == {i \in DOMAIN artifacts : artifacts[i].composite.role = "inventory"}
    IN IF named # {} THEN artifacts[Min(named)].path
       ELSE artifacts[1].composite.inventory_artifact

\* files: the documents of the working tree; repo: the hashes of its sources.
\* execution: the run's mode and baseline.  Absent: no composite artifacts.
compose_composite_snapshot(artifacts, files, repo, checkout, execution, stored, repo_key) ==
    LET path == inventory_path(artifacts)
        file == files[path]
        inventory == parse_inventory(file.doc)
        coverage == {i \in DOMAIN artifacts :
                       composite_descriptor_from_artifact(artifacts[i]).role = "coverage"}
        inputs == [i \in coverage |-> component_input(artifacts[i])]
        hash == IF path \in DOMAIN files THEN file.hash ELSE Absent
        baseline == composite_baseline_for_run(execution, stored, repo_key, hash)
        used(new) == IF baseline = Absent THEN new
                     ELSE reuse_stale_composite_inputs(new, baseline, stored[baseline])
        build == IF path \notin DOMAIN files THEN incomplete_build("inventory is missing")
                 ELSE IF inventory = Bad THEN incomplete_build("invalid composite inventory")
                 ELSE assemble(inventory, used(inputs), repo, checkout.revision, checkout.dirty)
    IN IF artifacts = <<>> THEN Absent
       ELSE [repo_key |-> repo_key, mapping |-> MAPPING_VERSION, inventory_hash |-> hash,
             revision |-> checkout.revision, dirty |-> checkout.dirty, build |-> build]

\* stored: id -> composite; ids are numbers that grow with created_at.
composite_snapshot(stored, id) == IF id \in DOMAIN stored THEN stored[id] ELSE Bad

list_composite_snapshots(stored, repo_key, limit) ==
    LET own == {i \in DOMAIN stored : stored[i].repo_key = repo_key}
        newest_first == SetToSortSeq(own, LAMBDA a, b : a > b)
    IN SubSeq(newest_first, 1, Min({limit, Len(newest_first)}))

latest_composite_snapshot(stored, repo_key) ==
    LET list == list_composite_snapshots(stored, repo_key, 1)
    IN IF list = <<>> THEN Absent ELSE Head(list)

previous_composite_snapshot(stored, id) ==
    LET older == {i \in DOMAIN stored : i < id /\ stored[i].repo_key = stored[id].repo_key}
    IN IF older = {} THEN Absent ELSE Max(older)

composite_regions_all(stored, id) ==
    IF composite_snapshot(stored, id) = Bad THEN Bad ELSE stored[id].build.rows

\* The first rows in key order, at most limit of them.  rank: the place of a key.
composite_regions(stored, id, limit, rank) ==
    LET keys == SetToSortSeq(DOMAIN composite_regions_all(stored, id),
                            LAMBDA k, l : rank[k] < rank[l])
    IN SubSeq(keys, 1, Min({limit, Len(keys)}))
=============================================================================
