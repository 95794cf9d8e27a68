----------------------------- MODULE RunEvidence -----------------------------
(***************************************************************************)
(* What a managed run leaves behind as evidence: commands are registered   *)
(* at one state of the checkout, submitted at another, measured at a       *)
(* third, and their artifacts are collected later still (src/storage.rs,   *)
(* src/git.rs).  RunLifecycle has the slots, the processes and the races   *)
(* on a run's row; here a submission is one step.                          *)
(*                                                                         *)
(* A request has command (a name), arguments, baseline, execution, key,    *)
(* reuse, summary_lines and timeout.  An argument is its length in bytes,  *)
(* Bad when it is no string or has a NUL; text that the code refuses       *)
(* because it is blank or too long is Bad, text that is not there Absent.  *)
(* Times count the writes of artifacts.                                    *)
(***************************************************************************)
EXTENDS Integers, Sequences, FiniteSets, FiniteSetsExt, SequencesExt

CONSTANTS Bad, Absent,
          Repo, Paths,           \* the repository, the artifact files
          Checkouts,             \* the states the checkout goes through
          Registrations,         \* what a user may register
          Requests,              \* what a client may submit
          RunConcurrency,        \* runs that hold a slot at a time
          MaxCommands, MaxRuns, MaxSnapshots, MaxWrites

IsSequence(s) == s \in Seq(Range(s))

ASSUME EvidenceConstants ==
    /\ \A n \in {RunConcurrency, MaxCommands, MaxRuns, MaxSnapshots, MaxWrites} : n \in Nat
    /\ \A c \in Registrations : /\ IsSequence(c.specs)
                                /\ \A s \in Range(c.specs) : s.path \in Paths \cup {Absent}
    /\ \A q \in Requests : q.arguments = Absent \/ IsSequence(q.arguments)
    /\ Absent \notin Nat

VARIABLES
    head,       \* how far the checkout has come
    commands,   \* registered commands, oldest first
    files,      \* path -> [content, time] or Absent
    clock,      \* how often an artifact was written
    jobs,       \* what a submission stored, by run
    stage,      \* run -> queued, running, collecting, done
    outcome,    \* run -> pending, passed, failed
    artifacts,  \* run -> the ingest status of each artifact collected so far
    parsing,    \* run -> the artifact that passed its checks, or Absent
    snapshots,  \* what was ingested, oldest first
    started,    \* the runs that were started, oldest first
    answer      \* what the last submission was told

vars == <<head, commands, files, clock, jobs, stage, outcome, artifacts,
          parsing, snapshots, started, answer>>

Runs == DOMAIN jobs

\* [commit, branch, clean]
tree == Checkouts[head]

-----------------------------------------------------------------------------
(* What a request may say *)

\* Limits on the number of arguments and on their bytes.
over_limits(arguments) ==
    \/ Len(arguments) > 64 \/ Bad \in Range(arguments)
    \/ \E a \in Range(arguments) : a > 512
    \/ FoldLeft(+, 0, arguments) > 8192

normalize_arguments(arguments) ==
    LET given == IF arguments = Absent THEN <<>> ELSE arguments
    IN IF over_limits(given) THEN Bad ELSE given

\* The caller's identity stands only when nothing else tells runs apart;
\* otherwise a digest of all of it does.
generated_run_execution(mode, identity, label, arguments, baseline) ==
    [mode |-> mode, label |-> label, arguments |-> arguments, baseline |-> baseline,
     identity |-> IF identity # Absent /\ arguments = <<>> /\ baseline = Absent
                    THEN <<identity>>
                    ELSE <<mode, identity, arguments, baseline>>]

\* An incremental run and no other has a baseline.
normalize_run_execution(execution, arguments, baseline) ==
    IF execution = Absent
      THEN IF baseline # Absent THEN Bad
           ELSE IF arguments = <<>> THEN Absent
           ELSE generated_run_execution("full", Absent, Absent, arguments, baseline)
      ELSE IF \/ execution.unknown_field
              \/ execution.mode \notin {"full", "incremental", "custom"}
              \/ (execution.mode = "incremental") # (baseline # Absent)
              \/ Bad \in {execution.identity, execution.label}
             THEN Bad
             ELSE generated_run_execution(execution.mode, execution.identity,
                                          execution.label, arguments, baseline)

\* Arguments take the place of the marker or follow the command, each quoted
\* so that the shell reads it back as it was given.
render_command(command, arguments) ==
    IF command.markers > 1 THEN Bad
    ELSE IF command.markers = 1
      THEN [text |-> command.text, marker |-> arguments, rest |-> <<>>]
      ELSE [text |-> command.text, marker |-> <<>>, rest |-> arguments]

\* Composite artifacts: one required inventory, which every one of them names,
\* and one artifact for each component and variant.
normalize_artifact_specs(specs) ==
    LET composite == {s \in Range(specs) : s.composite # Absent}
        inventories == {s \in composite : s.composite.role = "inventory"}
        coverage == composite \ inventories
        variant(s) == <<s.composite.component, s.composite.variant>>
    IN /\ \A s \in Range(specs) : /\ s.path # Absent
                                  /\ s.retention \in {"compactable", "incremental_base"}
       /\ \A s \in composite : /\ s.format # Absent /\ s.format = s.composite.format
                               /\ s.required
                               /\ (s.format = "inventory") <=> (s \in inventories)
       /\ Cardinality({s.composite.inventory : s \in composite}) <= 1
       /\ \A s, t \in coverage : variant(s) = variant(t) => s = t
       /\ coverage # {} =>
            /\ Cardinality(inventories) = 1
            /\ \A s \in coverage, i \in inventories : s.composite.inventory = i.path

\* What stands for a missing or a refused value is no context of a run.
ASSUME SentinelsAreNoContexts ==
    \A q \in Requests :
        LET arguments == normalize_arguments(q.arguments)
            given == IF q.execution = Absent THEN [mode |-> "full", identity |-> Absent, label |-> Absent]
                     ELSE q.execution
        IN generated_run_execution(given.mode, given.identity, given.label, arguments, q.baseline)
             \notin {Absent, Bad}

-----------------------------------------------------------------------------
(* Git and the artifact files *)

\* Outside a repository there is no branch and no commit.
inspect_git == [repo |-> Repo, branch |-> tree.branch, commit |-> tree.commit]

is_clean == tree.commit # Absent /\ tree.clean

\* Contents are hashed for a coverage artifact unless it is very large.
FingerprintOf(spec, file) ==
    IF file = Absent THEN [exists |-> FALSE, sha256 |-> Absent, modified |-> 0]
    ELSE [exists |-> TRUE, modified |-> file.time,
          sha256 |-> IF spec.format # Absent /\ ~spec.large THEN <<file.content>> ELSE Absent]

artifact_fingerprint(spec) == FingerprintOf(spec, files[spec.path])

\* A file that is there counts as written.
changed_from_presence(now, before) == now.exists

\* Times are looked at only where a hash is missing.
changed_from(now, before) ==
    IF now.sha256 # Absent /\ before.sha256 # Absent THEN now.sha256 # before.sha256
    ELSE now.exists # before.exists \/ now.modified # before.modified

artifact_baselines(command) ==
    [i \in DOMAIN command.specs |-> artifact_fingerprint(command.specs[i])]

-----------------------------------------------------------------------------
(* Reading runs *)

\* The newest registration of a name.
registered_command(name) ==
    LET named == {i \in DOMAIN commands : commands[i].name = name}
    IN IF named = {} THEN Absent ELSE Max(named)

CommandOf(r) == commands[jobs[r].command]
SnapshotsOf(r) == {i \in DOMAIN snapshots : snapshots[i].run = r}

\* Only completed runs count, the one that was started last.
latest_run(command) ==
    LET own == {i \in DOMAIN started : /\ stage[started[i]] = "done"
                                       /\ jobs[started[i]].command = command}
    IN IF own = {} THEN Absent ELSE started[Max(own)]

idempotent_run_id(command, key) ==
    {r \in Runs : key # Absent /\ jobs[r].command = command /\ jobs[r].key = key}

\* A clean checkout at the commit where the newest run was submitted.
reusable_run_id_with_execution(command, context) ==
    LET latest == latest_run(command)
    IN IF /\ tree.commit # Absent /\ is_clean /\ latest # Absent
          /\ jobs[latest].commit = tree.commit /\ jobs[latest].branch = tree.branch
          /\ outcome[latest] = "passed" \/ SnapshotsOf(latest) # {}
          /\ jobs[latest].context = context
         THEN {latest} ELSE {}

Queued == {r \in Runs : stage[r] = "queued"}

\* Runs are numbered in the order in which they were queued.
queued_position(r) ==
    IF stage[r] = "queued" THEN Cardinality({q \in Queued : q <= r}) ELSE Absent

\* The answer is with the client before anything else happens.
Delivered == answer' = Absent

-----------------------------------------------------------------------------
Init ==
    /\ head = 1
    /\ commands = <<>> /\ jobs = <<>> /\ snapshots = <<>> /\ started = <<>>
    /\ files = [p \in Paths |-> Absent]
    /\ clock = 0
    /\ stage = <<>> /\ outcome = <<>> /\ artifacts = <<>> /\ parsing = <<>>
    /\ answer = Absent

\* The command keeps the branch and the commit of the moment it is registered.
register_command(c) ==
    /\ Len(commands) < MaxCommands
    /\ c.human_approved
    /\ Bad \notin {c.name, c.text, c.approved_by, c.approval_note}
    /\ normalize_artifact_specs(c.specs)
    /\ commands' = Append(commands,
         [name |-> c.name, text |-> c.text, markers |-> c.markers, specs |-> c.specs,
          enabled |-> c.enabled, repo |-> inspect_git.repo,
          branch |-> inspect_git.branch, commit |-> inspect_git.commit])
    /\ Delivered
    /\ UNCHANGED <<head, files, clock, jobs, stage, outcome, artifacts,
                   parsing, snapshots, started>>

ContextOf(q) ==
    LET arguments == normalize_arguments(q.arguments)
    IN IF arguments = Bad \/ q.baseline = Bad THEN Bad
       ELSE normalize_run_execution(q.execution, arguments, q.baseline)

WellFormed(q) ==
    /\ ContextOf(q) # Bad
    /\ q.summary_lines \in 1..500
    /\ q.timeout # Absent => q.timeout \in Nat \ {0} /\ q.timeout <= 86400
    /\ q.key # Bad

Applicable(q, command) ==
    /\ command.enabled
    /\ render_command(command, normalize_arguments(q.arguments)) # Bad
    /\ q.baseline # Absent => /\ q.baseline \in DOMAIN snapshots
                              /\ snapshots[q.baseline].repo = command.repo

\* Everything that is refused before runs are looked at; a refusal changes
\* nothing.
accepted(q) ==
    /\ WellFormed(q)
    /\ registered_command(q.command) \in DOMAIN commands
    /\ Applicable(q, commands[registered_command(q.command)])

Told(q, r, reason, position) ==
    [request |-> q, run |-> r, reason |-> reason, position |-> position]

\* A key that is known is answered with its run, whatever it was for.
submit_known_key_any(q) ==
    LET known == idempotent_run_id(registered_command(q.command), q.key)
    IN /\ known # {} /\ accepted(q)
       /\ answer' = LET r == Max(known)
                    IN Told(q, r, "idempotency_key", queued_position(r))
       /\ UNCHANGED <<head, commands, files, clock, jobs, stage, outcome,
                      artifacts, parsing, snapshots, started>>

\* A key that is known names a run of the same execution, or is refused.
submit_known_key(q) ==
    LET known == idempotent_run_id(registered_command(q.command), q.key)
    IN /\ known # {} /\ accepted(q)
       /\ answer' = LET r == Max(known)
                    IN IF jobs[r].context = ContextOf(q)
                         THEN Told(q, r, "idempotency_key", queued_position(r))
                         ELSE Told(q, Absent, "conflict", Absent)
       /\ UNCHANGED <<head, commands, files, clock, jobs, stage, outcome,
                      artifacts, parsing, snapshots, started>>

Reusable(q) ==
    IF q.reuse /\ q.key = Absent
      THEN reusable_run_id_with_execution(registered_command(q.command), ContextOf(q))
      ELSE {}

submit_unchanged(q) ==
    /\ Reusable(q) # {} /\ accepted(q)
    /\ answer' = LET r == Max(Reusable(q)) IN Told(q, r, "unchanged_checkout", Absent)
    /\ UNCHANGED <<head, commands, files, clock, jobs, stage, outcome, artifacts,
                   parsing, snapshots, started>>

\* The run is queued with the checkout's commit and with the fingerprints of
\* the artifacts as they are now.
submit_command(q) ==
    LET id == registered_command(q.command)
        arguments == normalize_arguments(q.arguments)
        r == Len(jobs) + 1
    IN /\ Len(jobs) < MaxRuns /\ accepted(q)
       /\ idempotent_run_id(id, q.key) = {} /\ Reusable(q) = {}
       /\ jobs' = Append(jobs,
            [command |-> id, key |-> q.key, context |-> ContextOf(q),
             launched |-> render_command(commands[id], arguments),
             branch |-> inspect_git.branch, commit |-> inspect_git.commit,
             baselines |-> artifact_baselines(commands[id]), submitted |-> clock])
       /\ stage' = Append(stage, "queued")
       /\ outcome' = Append(outcome, "pending")
       /\ artifacts' = Append(artifacts, <<>>)
       /\ parsing' = Append(parsing, Absent)
       /\ answer' = Told(q, r, "new", Cardinality(Queued) + 1)
       /\ UNCHANGED <<head, commands, files, clock, snapshots, started>>

-----------------------------------------------------------------------------
(* The run *)

start_run(r) ==
    /\ stage[r] = "queued"
    /\ Cardinality({q \in Runs : stage[q] \in {"running", "collecting"}}) < RunConcurrency
    /\ stage' = [stage EXCEPT ![r] = "running"]
    /\ started' = Append(started, r)
    /\ Delivered
    /\ UNCHANGED <<head, commands, files, clock, jobs, outcome, artifacts,
                   parsing, snapshots>>

\* A process writes an artifact about the checkout as it is.
process_writes(r, p) ==
    /\ stage[r] = "running" /\ clock < MaxWrites
    /\ \E s \in Range(CommandOf(r).specs) : s.path = p
    /\ clock' = clock + 1
    /\ files' = [files EXCEPT ![p] =
         [time |-> clock + 1,
          content |-> [commit |-> tree.commit, clean |-> tree.clean,
                       arguments |-> jobs[r].launched.marker \o jobs[r].launched.rest]]]
    /\ Delivered
    /\ UNCHANGED <<head, commands, jobs, stage, outcome, artifacts, parsing,
                   snapshots, started>>

\* Failed stands for every end but success: an exit code, a timeout, a
\* cancellation.
process_exits(r, result) ==
    /\ stage[r] = "running"
    /\ stage' = [stage EXCEPT ![r] = "collecting"]
    /\ outcome' = [outcome EXCEPT ![r] = result]
    /\ Delivered
    /\ UNCHANGED <<head, commands, files, clock, jobs, artifacts, parsing,
                   snapshots, started>>

-----------------------------------------------------------------------------
(* Collecting the artifacts, one after the other *)

Next1(r) == Len(artifacts[r]) + 1
InventorySpec(s) == s.composite # Absent /\ s.composite.role = "inventory"
                    /\ s.format = "inventory"
CompositeOnly(s) == InventorySpec(s) \/ s.format = "regions"

\* The status of an artifact that is not parsed, or "parse".  An inventory is
\* a declaration and may be older than the run.
artifact_status(r, i) ==
    LET spec == CommandOf(r).specs[i]
        now == artifact_fingerprint(spec)
    IN IF spec.format = Absent THEN "not_configured"
       ELSE IF outcome[r] # "passed" THEN "skipped_run_status"
       ELSE IF ~now.exists THEN "missing"
       ELSE IF InventorySpec(spec) THEN "ingested"
       ELSE IF ~changed_from(now, jobs[r].baselines[i]) THEN "skipped_stale"
       ELSE IF CompositeOnly(spec) THEN "ingested"
       ELSE "parse"

collect_artifact(r) ==
    LET status == artifact_status(r, Next1(r))
    IN /\ stage[r] = "collecting" /\ parsing[r] = Absent
       /\ Next1(r) \in DOMAIN CommandOf(r).specs
       /\ IF status = "parse"
            THEN /\ parsing' = [parsing EXCEPT ![r] = CommandOf(r).specs[Next1(r)].path]
                 /\ UNCHANGED artifacts
            ELSE /\ artifacts' = [artifacts EXCEPT ![r] = Append(@, status)]
                 /\ UNCHANGED parsing
       /\ Delivered
       /\ UNCHANGED <<head, commands, files, clock, jobs, stage, outcome,
                      snapshots, started>>

\* execution_metadata_for_snapshot: no arguments, no baseline.
Provenance(context) ==
    IF context = Absent THEN Absent
    ELSE [mode |-> context.mode, identity |-> context.identity, label |-> context.label]

\* Values that are given win over those of the checkout.
store_report(file, run, branch, commit, context) ==
    snapshots' = Append(snapshots,
        [repo |-> Repo, run |-> run, content |-> file.content, time |-> file.time,
         branch |-> IF branch = Absent THEN inspect_git.branch ELSE branch,
         commit |-> IF commit = Absent THEN inspect_git.commit ELSE commit,
         execution |-> Provenance(context)])

\* The file is read again, as it is now; it may be refused, or gone.
ingest_artifact(r, parsed) ==
    LET file == files[parsing[r]]
    IN /\ stage[r] = "collecting" /\ parsing[r] # Absent
       /\ Len(snapshots) < MaxSnapshots
       /\ IF parsed
            THEN store_report(file, r, CommandOf(r).branch, CommandOf(r).commit,
                              jobs[r].context)
            ELSE UNCHANGED snapshots
       /\ artifacts' = [artifacts EXCEPT ![r] =
            Append(@, IF parsed THEN "ingested" ELSE "failed")]
       /\ parsing' = [parsing EXCEPT ![r] = Absent]
       /\ Delivered
       /\ UNCHANGED <<head, commands, files, clock, jobs, stage, outcome,
                      started>>

\* One report that was ingested is enough.
coverage_ingest_any(statuses) ==
    IF "ingested" \in Range(statuses) THEN "ingested" ELSE "failed"

\* The status that a completed run reports for its artifacts.
coverage_ingest(statuses) ==
    LET count(names) == Cardinality({i \in DOMAIN statuses : statuses[i] \in names})
        configured == Len(statuses) - count({"not_configured"})
    IN IF configured = 0 THEN "not_configured"
       ELSE IF count({"failed", "missing"}) > 0 THEN "failed"
       ELSE IF count({"ingested"}) = configured THEN "ingested"
       ELSE IF count({"skipped_stale"}) > 0 /\ count({"ingested"}) = 0 THEN "stale"
       ELSE "partial"

\* The row moves to the completed runs and the fingerprints are deleted.
persist_run(r) ==
    /\ stage[r] = "collecting" /\ parsing[r] = Absent
    /\ Next1(r) \notin DOMAIN CommandOf(r).specs
    /\ stage' = [stage EXCEPT ![r] = "done"]
    /\ Delivered
    /\ UNCHANGED <<head, commands, files, clock, jobs, outcome, artifacts,
                   parsing, snapshots, started>>

\* A client archives a report by itself.
ingest_report(p, commit) ==
    /\ files[p] # Absent
    /\ Len(snapshots) < MaxSnapshots
    /\ store_report(files[p], Absent, Absent, commit, Absent)
    /\ Delivered
    /\ UNCHANGED <<head, commands, files, clock, jobs, stage, outcome,
                   artifacts, parsing, started>>

\* The developer edits, commits or switches branches.
change_checkout ==
    /\ head < Len(Checkouts)
    /\ head' = head + 1
    /\ Delivered
    /\ UNCHANGED <<commands, files, clock, jobs, stage, outcome, artifacts,
                   parsing, snapshots, started>>

Next ==
    \/ \E c \in Registrations : register_command(c)
    \/ \E q \in Requests : \/ submit_known_key(q) \/ submit_unchanged(q)
                           \/ submit_command(q)
    \/ \E r \in Runs : \/ start_run(r) \/ collect_artifact(r)
                       \/ persist_run(r)
                       \/ \E parsed \in BOOLEAN : ingest_artifact(r, parsed)
                       \/ \E result \in {"passed", "failed"} : process_exits(r, result)
                       \/ \E p \in Paths : process_writes(r, p)
    \/ \E p \in Paths : ingest_report(p, Absent)
    \/ change_checkout

Spec == Init /\ [][Next]_vars

-----------------------------------------------------------------------------
(* Properties *)

\* Coverage stored for a run comes from a report that was written after the
\* run was submitted: collect_artifacts never takes a left-over of an earlier
\* run for this run's result, although queued runs share their artifact files
\* and every file is read twice.
EvidenceIsFresh ==
    \A i \in DOMAIN snapshots :
        LET s == snapshots[i]
        IN s.run # Absent => s.time > jobs[s.run].submitted

\* A submission that is answered with a run gets one that runs the requested
\* command with the requested arguments and baseline, whether it is new, was
\* found by its key or is reused; a queued one is told a place in the queue.
AnswerMatchesRequest ==
    (answer # Absent /\ answer.run # Absent) =>
        LET q == answer.request
            context == jobs[answer.run].context
            launched == jobs[answer.run].launched
            given(a) == IF a = Absent THEN <<>> ELSE a
        IN /\ CommandOf(answer.run).name = q.command
           /\ launched.marker \o launched.rest = given(q.arguments)
           /\ IF context = Absent THEN q.baseline = Absent /\ q.execution = Absent
              ELSE context.baseline = q.baseline
           /\ answer.position # Absent => answer.position \in 1..Len(jobs)

\* A completed run that reports its coverage as ingested has a snapshot for
\* every report it parses, and none for the rest; one that did not pass has
\* none at all.
EvidenceIsComplete ==
    \A r \in Runs : stage[r] = "done" =>
        LET specs == CommandOf(r).specs
            parsed == {i \in DOMAIN specs : /\ specs[i].format # Absent
                                           /\ ~CompositeOnly(specs[i])}
        IN /\ coverage_ingest(artifacts[r]) = "ingested" =>
                Cardinality(SnapshotsOf(r)) = Cardinality(parsed)
           /\ Cardinality(SnapshotsOf(r)) <= Cardinality(parsed)
           /\ outcome[r] # "passed" => SnapshotsOf(r) = {}

-----------------------------------------------------------------------------
(* The inductive invariant behind EvidenceIsFresh *)

TablesInv ==
    /\ IsSequence(commands) /\ IsSequence(jobs) /\ IsSequence(parsing) /\ IsSequence(snapshots)
    /\ Len(parsing) = Len(jobs)
    /\ clock \in Nat /\ DOMAIN files = Paths
    /\ \A k \in DOMAIN commands : \A i \in DOMAIN commands[k].specs :
         commands[k].specs[i].path \in Paths
    /\ \A p \in Paths : files[p] # Absent => files[p].time \in Nat /\ files[p].time <= clock

\* A file that was not written since a run was submitted has the fingerprint
\* the submission stored.
Baselined(job, registered, written, now) ==
    /\ job.command \in DOMAIN registered
    /\ job.submitted \in Nat /\ job.submitted <= now
    /\ \A i \in DOMAIN registered[job.command].specs :
         LET spec == registered[job.command].specs[i]
         IN written[spec.path] # Absent /\ written[spec.path].time <= job.submitted =>
              FingerprintOf(spec, written[spec.path]) = job.baselines[i]

BaselineInv == \A r \in Runs : Baselined(jobs[r], commands, files, clock)

\* An artifact that passed its checks stays newer than the submission until it
\* is read again.
ParsingInv ==
    \A r \in Runs : parsing[r] # Absent =>
        parsing[r] \in Paths /\ files[parsing[r]].time > jobs[r].submitted

\* EvidenceIsFresh, and the run of a snapshot is known.
SnapshotInv ==
    \A i \in DOMAIN snapshots : snapshots[i].run # Absent =>
        /\ snapshots[i].run \in Runs
        /\ snapshots[i].time > jobs[snapshots[i].run].submitted

IInv == TablesInv /\ BaselineInv /\ ParsingInv /\ SnapshotInv

-----------------------------------------------------------------------------
(* The inductive invariants behind EvidenceIsComplete and                   *)
(* AnswerMatchesRequest.                                                    *)

\* The reports a run parses, and those of them that it has ingested.
ReportsOf(specs) == {i \in DOMAIN specs : specs[i].format # Absent /\ ~CompositeOnly(specs[i])}
Ingested(specs, statuses) ==
    {i \in ReportsOf(specs) \cap DOMAIN statuses : statuses[i] = "ingested"}

\* How far the collection of a run has come: mine are its snapshots, as many
\* as reports were ingested.
Collected(specs, at, result, statuses, reading, mine) ==
    /\ IsSequence(statuses) /\ Len(statuses) <= Len(specs)
    /\ at \in {"queued", "running"} => statuses = <<>>
    /\ at # "collecting" => reading = Absent
    /\ reading # Absent => result = "passed" /\ Len(statuses) + 1 \in ReportsOf(specs)
    /\ at = "done" => Len(statuses) = Len(specs)
    /\ \A i \in DOMAIN statuses :
         /\ statuses[i] = "not_configured" <=> specs[i].format = Absent
         /\ statuses[i] = "ingested" => result = "passed"
    /\ IsFiniteSet(mine) /\ Cardinality(mine) = Cardinality(Ingested(specs, statuses))

CollectionInv ==
    /\ IsSequence(stage) /\ IsSequence(outcome) /\ IsSequence(artifacts)
    /\ {Len(stage), Len(outcome), Len(artifacts)} = {Len(jobs)}
    /\ \A k \in DOMAIN commands : IsSequence(commands[k].specs)
    /\ \A r \in Runs : Collected(CommandOf(r).specs, stage[r], outcome[r], artifacts[r],
                                 parsing[r], SnapshotsOf(r))

\* The arguments a job is launched with are those of its context.
Recorded(job) ==
    LET arguments == job.launched.marker \o job.launched.rest
    IN IF job.context = Absent THEN arguments = <<>> ELSE job.context.arguments = arguments

RequestInv ==
    /\ \A r \in Runs : Recorded(jobs[r])
    /\ IsSequence(started) /\ \A i \in DOMAIN started : started[i] \in Runs
=============================================================================
