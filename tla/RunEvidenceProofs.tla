-------------------------- MODULE RunEvidenceProofs --------------------------
(***************************************************************************)
(* EvidenceIsFresh, EvidenceIsComplete and AnswerMatchesRequest for every  *)
(* history of the checkout, every number of commands, runs, files and      *)
(* snapshots, and every request.                                           *)
(***************************************************************************)
EXTENDS RunEvidence, FiniteSetTheorems, WellFoundedInduction, TLAPS

-----------------------------------------------------------------------------
(* Numbers. *)

\* The order of the natural numbers as a set of pairs.
Below == {pair \in Nat \X Nat : pair[1] < pair[2]}

\* A set of natural numbers that is not empty has a least element.
LEMMA LeastNumber ==
    ASSUME NEW T \in SUBSET Nat, T # {} PROVE \E n \in T : \A m \in T : n <= m
<1>1. OpToRel(<, Nat) = Below
  BY Zenon DEF OpToRel, Below
<1>2. IsWellFoundedOn(Below, Nat)
  BY <1>1, NatLessThanWellFounded, Zenon
<1>3. PICK n \in T : \A m \in T : <<m, n>> \notin Below
  BY <1>2, WFMin, Zenon
<1>4. ASSUME NEW m \in T PROVE n <= m
  <2>1. <<m, n>> \in Nat \X Nat /\ m \in Nat /\ n \in Nat
    OBVIOUS
  <2>2. m < n => <<m, n>> \in Below
    BY <2>1 DEF Below
  <2> QED
    BY <1>3, <2>1, <2>2
<1> QED
  BY <1>4

\* How many positions a sequence has.
LEMMA PositionCount ==
    ASSUME NEW n \in Nat PROVE IsFiniteSet(1..n) /\ Cardinality(1..n) = n
<1>1. 1 \in Int /\ n \in Int
  OBVIOUS
<1>2. IsFiniteSet(1..n) /\ Cardinality(1..n) = IF 1 > n THEN 0 ELSE n - 1 + 1
  BY <1>1, FS_Interval
<1> QED
  BY <1>2

-----------------------------------------------------------------------------
(* Sequences and fingerprints. *)

\* t is s with e appended.
Appended(s, e, t) ==
    /\ IsSequence(t) /\ Len(t) = Len(s) + 1 /\ Len(s) \in Nat
    /\ DOMAIN s = 1..Len(s) /\ DOMAIN t = 1..(Len(s) + 1)
    /\ \A i \in DOMAIN s : t[i] = s[i]
    /\ t[Len(s) + 1] = e

\* What Append does to a sequence of anything.
LEMMA AppendFacts ==
    ASSUME NEW s, IsSequence(s), NEW e PROVE Appended(s, e, Append(s, e))
<1> DEFINE t == Append(s, e)
<1>1. s \in Seq(Range(s)) /\ Len(s) \in Nat /\ DOMAIN s = 1..Len(s)
  BY DEF IsSequence
<1>2. s \in Seq(Range(s) \cup {e})
  BY <1>1
<1>3. /\ Len(t) = Len(s) + 1 /\ DOMAIN t = 1..(Len(s) + 1)
      /\ \A i \in DOMAIN s : t[i] = s[i]
      /\ t[Len(s) + 1] = e
  BY <1>1, <1>2
<1>4. t \in Seq(Range(t))
  BY <1>1, <1>3 DEF Range
<1> QED
  BY <1>1, <1>3, <1>4 DEF IsSequence, Appended

\* A function on 1..n is a sequence.
LEMMA SequenceOf ==
    ASSUME NEW R, NEW n \in Nat, NEW t \in [1..n -> R]
    PROVE  t \in Seq(R) /\ Len(t) = n
OBVIOUS

\* t is s with e in place k.
Replaced(s, k, e, t) ==
    /\ IsSequence(t) /\ Len(t) = Len(s) /\ DOMAIN t = DOMAIN s
    /\ t[k] = e /\ \A i \in DOMAIN s : i # k => t[i] = s[i]

\* What EXCEPT does to a sequence of anything.
LEMMA ExceptFacts ==
    ASSUME NEW s, IsSequence(s), NEW k \in DOMAIN s, NEW e
    PROVE  Replaced(s, k, e, [s EXCEPT ![k] = e])
<1> DEFINE t == [s EXCEPT ![k] = e]
<1>1. s \in Seq(Range(s)) /\ Len(s) \in Nat /\ DOMAIN s = 1..Len(s)
  BY DEF IsSequence
<1>2. /\ DOMAIN t = DOMAIN s /\ t[k] = e
      /\ \A i \in DOMAIN s : i # k => t[i] = s[i]
  OBVIOUS
<1> HIDE DEF t
<1>3. t \in [1..Len(s) -> Range(t)]
  <2>1. DOMAIN t = 1..Len(s)
    BY <1>1, <1>2
  <2>2. t = [i \in DOMAIN t |-> t[i]]
    BY DEF t
  <2> QED
    BY <2>1, <2>2 DEF Range
<1>4. t \in Seq(Range(t)) /\ Len(t) = Len(s)
  BY <1>1, <1>3, SequenceOf
<1> QED
  BY <1>2, <1>4 DEF IsSequence, Replaced, t

\* A fingerprint does not differ from itself.
LEMMA UnchangedFingerprint == ASSUME NEW f PROVE ~changed_from(f, f)
BY DEF changed_from

-----------------------------------------------------------------------------
(* The steps. *)

\* Nothing is stored initially.
LEMMA InitInv == Init => IInv
<1> SUFFICES ASSUME Init PROVE IInv
  OBVIOUS
<1>1. IsSequence(<<>>)
  BY DEF IsSequence
<1>2. TablesInv
  BY <1>1 DEF Init, TablesInv
<1> QED
  BY <1>2 DEF Init, IInv, BaselineInv, ParsingInv, SnapshotInv, Runs

\* Steps that leave the tables and the files alone.
LEMMA TablesKept ==
    ASSUME IInv, UNCHANGED <<commands, files, clock, jobs, parsing, snapshots>> PROVE IInv'
BY DEF IInv, TablesInv, BaselineInv, ParsingInv, SnapshotInv, Runs

\* A command is added; those of the runs stay.
LEMMA RegisterCommandInv ==
    ASSUME IInv, NEW c \in Registrations, register_command(c) PROVE IInv'
<1> DEFINE entry == [name |-> c.name, text |-> c.text, markers |-> c.markers, specs |-> c.specs,
                     enabled |-> c.enabled, repo |-> inspect_git.repo,
                     branch |-> inspect_git.branch, commit |-> inspect_git.commit]
<1>1. commands' = Append(commands, entry) /\ UNCHANGED <<files, clock, jobs, parsing, snapshots>>
  BY DEF register_command
<1>2. \A i \in DOMAIN c.specs : c.specs[i].path \in Paths
  BY EvidenceConstants DEF register_command, normalize_artifact_specs, Range
<1>3. entry.specs = c.specs
  OBVIOUS
<1> HIDE DEF entry
<1>a. IsSequence(commands)
  BY DEF IInv, TablesInv
<1>4. /\ IsSequence(commands') /\ Len(commands) \in Nat
      /\ DOMAIN commands = 1..Len(commands) /\ DOMAIN commands' = 1..(Len(commands) + 1)
      /\ \A k \in DOMAIN commands : commands'[k] = commands[k]
      /\ commands'[Len(commands) + 1] = entry
  <2>1. Appended(commands, entry, commands')
    BY <1>1, <1>a, AppendFacts
  <2> QED
    BY <2>1 DEF Appended
<1>5. TablesInv'
  <2>1. \A k \in DOMAIN commands' : \A i \in DOMAIN commands'[k].specs :
          commands'[k].specs[i].path \in Paths
    <3> TAKE k \in DOMAIN commands'
    <3>1. CASE k \in DOMAIN commands
      BY <1>4, <3>1 DEF IInv, TablesInv
    <3>2. CASE k = Len(commands) + 1
      BY <1>2, <1>3, <1>4, <3>2
    <3> QED
      BY <1>4, <3>1, <3>2
  <2> QED
    BY <1>1, <1>4, <2>1 DEF IInv, TablesInv
<1>6. BaselineInv'
  <2> SUFFICES ASSUME NEW r \in Runs PROVE Baselined(jobs[r], commands', files, clock)
    BY <1>1 DEF BaselineInv, Runs
  <2>1. Baselined(jobs[r], commands, files, clock)
    BY DEF IInv, BaselineInv
  <2>2. jobs[r].command \in DOMAIN commands
    BY <2>1 DEF Baselined
  <2>3. commands'[jobs[r].command] = commands[jobs[r].command]
        /\ jobs[r].command \in DOMAIN commands'
    BY <1>4, <2>2
  <2> QED
    BY <2>1, <2>3 DEF Baselined
<1>7. ParsingInv' /\ SnapshotInv'
  BY <1>1 DEF IInv, ParsingInv, SnapshotInv, Runs
<1> QED
  BY <1>5, <1>6, <1>7 DEF IInv

\* Only a registered command is accepted.
LEMMA AcceptedNamesACommand ==
    ASSUME NEW q, accepted(q) PROVE registered_command(q.command) \in DOMAIN commands
BY DEF accepted

\* What is accepted has a context, and renders.
LEMMA AcceptedFacts ==
    ASSUME NEW q, accepted(q)
    PROVE  /\ ContextOf(q) # Bad
           /\ render_command(commands[registered_command(q.command)],
                             normalize_arguments(q.arguments)) # Bad
<1>1. WellFormed(q) /\ Applicable(q, commands[registered_command(q.command)])
  BY DEF accepted
<1>2. ContextOf(q) # Bad
  BY <1>1 DEF WellFormed
<1> QED
  BY <1>1, <1>2 DEF Applicable

\* The new run has the fingerprints of the files as they are.
LEMMA SubmitCommandInv ==
    ASSUME IInv, NEW q \in Requests, submit_command(q) PROVE IInv'
<1> DEFINE id == registered_command(q.command)
           job == [command |-> id, key |-> q.key, context |-> ContextOf(q),
                   launched |-> render_command(commands[id], normalize_arguments(q.arguments)),
                   branch |-> inspect_git.branch, commit |-> inspect_git.commit,
                   baselines |-> artifact_baselines(commands[id]), submitted |-> clock]
           new == Len(jobs) + 1
<1>1. /\ jobs' = Append(jobs, job) /\ parsing' = Append(parsing, Absent)
      /\ id \in DOMAIN commands
      /\ UNCHANGED <<commands, files, clock, snapshots>>
  <2>1. accepted(q) /\ jobs' = Append(jobs, job) /\ parsing' = Append(parsing, Absent)
    BY DEF submit_command
  <2>2. UNCHANGED <<commands, files, clock, snapshots>>
    BY DEF submit_command
  <2>3. id \in DOMAIN commands
    BY <2>1, AcceptedNamesACommand
  <2> QED
    BY <2>1, <2>2, <2>3
<1>2. job.command = id /\ job.submitted = clock /\ job.baselines = artifact_baselines(commands[id])
  OBVIOUS
<1> HIDE DEF job, id
<1>b. IsSequence(jobs) /\ IsSequence(parsing) /\ Len(parsing) = Len(jobs)
  BY DEF IInv, TablesInv
<1>3. /\ IsSequence(jobs') /\ Len(jobs) \in Nat
      /\ DOMAIN jobs = 1..Len(jobs) /\ DOMAIN jobs' = 1..new /\ Len(jobs') = new
      /\ \A k \in DOMAIN jobs : jobs'[k] = jobs[k]
      /\ jobs'[new] = job
  <2>1. Appended(jobs, job, jobs')
    BY <1>1, <1>b, AppendFacts
  <2> QED
    BY <2>1 DEF Appended
<1>4. /\ IsSequence(parsing') /\ Len(parsing') = new
      /\ \A k \in DOMAIN jobs : parsing'[k] = parsing[k]
      /\ parsing'[new] = Absent
  <2>1. Appended(parsing, Absent, parsing')
    BY <1>1, <1>b, AppendFacts
  <2>2. DOMAIN parsing = DOMAIN jobs
    BY <1>3, <1>b, <2>1 DEF Appended
  <2> QED
    BY <1>b, <2>1, <2>2 DEF Appended
<1>5. TablesInv'
  BY <1>1, <1>3, <1>4 DEF IInv, TablesInv
<1>6. BaselineInv'
  <2> SUFFICES ASSUME NEW r \in DOMAIN jobs'
               PROVE  Baselined(jobs'[r], commands, files, clock)
    BY <1>1 DEF BaselineInv, Runs
  <2>1. CASE r \in DOMAIN jobs
    BY <1>3, <2>1 DEF IInv, BaselineInv, Runs
  <2>2. CASE r = new
    <3>1. clock \in Nat /\ clock <= clock
      BY DEF IInv, TablesInv
    <3>2. jobs'[r].command = id /\ jobs'[r].submitted = clock
          /\ jobs'[r].baselines = artifact_baselines(commands[id])
      BY <1>2, <1>3, <2>2
    <3>3. \A i \in DOMAIN commands[id].specs :
            jobs'[r].baselines[i]
              = FingerprintOf(commands[id].specs[i], files[commands[id].specs[i].path])
      BY <3>2 DEF artifact_baselines, artifact_fingerprint
    <3> HIDE DEF new
    <3> QED
      BY <1>1, <3>1, <3>2, <3>3 DEF Baselined
  <2> QED
    BY <1>3, <2>1, <2>2
<1>7. ParsingInv'
  <2> SUFFICES ASSUME NEW r \in DOMAIN jobs', parsing'[r] # Absent
               PROVE  parsing'[r] \in Paths /\ files[parsing'[r]].time > jobs'[r].submitted
    BY <1>1 DEF ParsingInv, Runs
  <2>1. r \in DOMAIN jobs
    BY <1>3, <1>4
  <2> QED
    BY <1>3, <1>4, <2>1 DEF IInv, ParsingInv, Runs
<1>8. SnapshotInv'
  BY <1>1, <1>3 DEF IInv, SnapshotInv, Runs
<1> QED
  BY <1>5, <1>6, <1>7, <1>8 DEF IInv

\* A file that is written is newer than every submission.
LEMMA ProcessWritesInv ==
    ASSUME IInv, NEW r \in Runs, NEW p \in Paths, process_writes(r, p) PROVE IInv'
<1>1. PICK content : files' = [files EXCEPT ![p] = [time |-> clock + 1, content |-> content]]
  BY DEF process_writes
<1>2. /\ clock' = clock + 1 /\ clock \in Nat /\ DOMAIN files = Paths
      /\ UNCHANGED <<commands, jobs, parsing, snapshots>>
  BY DEF process_writes, IInv, TablesInv
<1>3. /\ DOMAIN files' = Paths /\ files'[p].time = clock + 1
      /\ \A o \in Paths : o # p => files'[o] = files[o]
  BY <1>1, <1>2
<1>4. TablesInv'
  <2>1. \A o \in Paths : files'[o] # Absent => files'[o].time \in Nat /\ files'[o].time <= clock'
    <3> TAKE o \in Paths
    <3>1. CASE o = p
      BY <1>2, <1>3, <3>1
    <3>2. CASE o # p
      BY <1>2, <1>3, <3>2 DEF IInv, TablesInv
    <3> QED
      BY <3>1, <3>2
  <2> QED
    BY <1>2, <1>3, <2>1 DEF IInv, TablesInv
<1>5. BaselineInv'
  <2> SUFFICES ASSUME NEW k \in Runs
               PROVE  Baselined(jobs[k], commands, files', clock + 1)
    BY <1>2 DEF BaselineInv, Runs
  <2>a. Baselined(jobs[k], commands, files, clock)
    BY DEF IInv, BaselineInv
  <2>1. /\ jobs[k].command \in DOMAIN commands
        /\ jobs[k].submitted \in Nat /\ jobs[k].submitted <= clock
    BY <2>a DEF Baselined
  <2> DEFINE specs == commands[jobs[k].command].specs
  <2>2. ASSUME NEW i \in DOMAIN specs,
               files'[specs[i].path] # Absent,
               files'[specs[i].path].time <= jobs[k].submitted
        PROVE  FingerprintOf(specs[i], files'[specs[i].path]) = jobs[k].baselines[i]
    <3>1. specs[i].path \in Paths
      BY <2>1 DEF IInv, TablesInv
    <3>2. specs[i].path # p
      BY <1>2, <1>3, <2>1, <2>2
    <3>3. files'[specs[i].path] = files[specs[i].path]
      BY <1>3, <3>1, <3>2
    <3>4. FingerprintOf(specs[i], files[specs[i].path]) = jobs[k].baselines[i]
      BY <2>2, <2>a, <3>3 DEF Baselined
    <3> QED
      BY <3>3, <3>4
  <2>3. jobs[k].submitted <= clock + 1
    BY <1>2, <2>1
  <2> QED
    BY <2>1, <2>2, <2>3 DEF Baselined
<1>6. ParsingInv'
  <2> SUFFICES ASSUME NEW k \in Runs, parsing[k] # Absent
               PROVE  parsing[k] \in Paths /\ files'[parsing[k]].time > jobs[k].submitted
    BY <1>2 DEF ParsingInv, Runs
  <2>1. /\ parsing[k] \in Paths /\ files[parsing[k]].time > jobs[k].submitted
        /\ jobs[k].submitted \in Nat /\ jobs[k].submitted <= clock
    BY DEF IInv, ParsingInv, BaselineInv, Baselined
  <2>2. CASE parsing[k] = p
    BY <1>2, <1>3, <2>1, <2>2
  <2>3. CASE parsing[k] # p
    BY <1>3, <2>1, <2>3
  <2> QED
    BY <2>2, <2>3
<1>7. SnapshotInv'
  BY <1>2 DEF IInv, SnapshotInv, Runs
<1> QED
  BY <1>4, <1>5, <1>6, <1>7 DEF IInv

\* Only an artifact whose fingerprint has changed is parsed, and one that has
\* changed was written after the submission.
LEMMA CollectArtifactInv ==
    ASSUME IInv, NEW r \in Runs, collect_artifact(r) PROVE IInv'
<1> DEFINE i == Next1(r)
           spec == CommandOf(r).specs[i]
<1>1. UNCHANGED <<commands, files, clock, jobs, snapshots>> /\ i \in DOMAIN CommandOf(r).specs
  BY DEF collect_artifact
<1>2. CASE artifact_status(r, i) # "parse"
  <2>1. UNCHANGED parsing
    BY <1>2 DEF collect_artifact
  <2> QED
    BY <1>1, <2>1, TablesKept
<1>3. CASE artifact_status(r, i) = "parse"
  <2>1. parsing' = [parsing EXCEPT ![r] = spec.path]
    BY <1>3 DEF collect_artifact
  <2>2. /\ artifact_fingerprint(spec).exists
        /\ changed_from(artifact_fingerprint(spec), jobs[r].baselines[i])
    BY <1>3 DEF artifact_status
  <2>3. /\ jobs[r].command \in DOMAIN commands /\ jobs[r].submitted \in Nat
        /\ files[spec.path] # Absent /\ files[spec.path].time <= jobs[r].submitted =>
             artifact_fingerprint(spec) = jobs[r].baselines[i]
    BY <1>1 DEF IInv, BaselineInv, Baselined, CommandOf, artifact_fingerprint
  <2>4. spec.path \in Paths
    BY <1>1, <2>3 DEF IInv, TablesInv, CommandOf
  <2>5. files[spec.path] # Absent
    BY <2>2 DEF artifact_fingerprint, FingerprintOf
  <2>6. files[spec.path].time \in Nat
    BY <2>4, <2>5 DEF IInv, TablesInv
  <2>7. files[spec.path].time > jobs[r].submitted
    BY <2>2, <2>3, <2>5, <2>6, UnchangedFingerprint
  <2> HIDE DEF i, spec
  <2>8. r \in DOMAIN parsing
    BY DEF IInv, TablesInv, IsSequence, Runs
  <2>a. IsSequence(parsing)
    BY DEF IInv, TablesInv
  <2>9. /\ IsSequence(parsing') /\ Len(parsing') = Len(parsing)
        /\ parsing'[r] = spec.path /\ \A k \in DOMAIN parsing : k # r => parsing'[k] = parsing[k]
    <3>1. Replaced(parsing, r, spec.path, parsing')
      BY <2>1, <2>8, <2>a, ExceptFacts
    <3> QED
      BY <3>1 DEF Replaced
  <2>10. TablesInv'
    BY <1>1, <2>9 DEF IInv, TablesInv
  <2>11. BaselineInv' /\ SnapshotInv'
    BY <1>1 DEF IInv, BaselineInv, SnapshotInv, Runs
  <2>12. ParsingInv'
    <3>1. DOMAIN parsing = Runs
      BY DEF IInv, TablesInv, IsSequence, Runs
    <3> QED
      BY <1>1, <2>4, <2>7, <2>9, <3>1 DEF IInv, ParsingInv, Runs
  <2> QED
    BY <2>10, <2>11, <2>12 DEF IInv
<1> QED
  BY <1>2, <1>3

\* The file that is read again is the one that was checked or a newer one.
LEMMA IngestArtifactInv ==
    ASSUME IInv, NEW r \in Runs, NEW parsed \in BOOLEAN, ingest_artifact(r, parsed) PROVE IInv'
<1>1. /\ parsing[r] # Absent /\ parsing' = [parsing EXCEPT ![r] = Absent]
      /\ UNCHANGED <<commands, files, clock, jobs>>
  BY DEF ingest_artifact
<1>2. files[parsing[r]].time > jobs[r].submitted
  BY <1>1 DEF IInv, ParsingInv
<1>3. DOMAIN parsing = Runs
  BY DEF IInv, TablesInv, IsSequence, Runs
<1>a. IsSequence(parsing) /\ IsSequence(snapshots)
  BY DEF IInv, TablesInv
<1>4. /\ IsSequence(parsing') /\ Len(parsing') = Len(parsing)
      /\ parsing'[r] = Absent /\ \A k \in Runs : k # r => parsing'[k] = parsing[k]
  <2>1. Replaced(parsing, r, Absent, parsing')
    BY <1>1, <1>3, <1>a, ExceptFacts
  <2> QED
    BY <1>3, <2>1 DEF Replaced
<1>5. IsSequence(snapshots') /\ SnapshotInv'
  <2>1. CASE ~parsed
    BY <1>1, <2>1 DEF ingest_artifact, IInv, TablesInv, SnapshotInv, Runs
  <2>2. CASE parsed
    <3>1. PICK entry : /\ snapshots' = Append(snapshots, entry)
                       /\ entry.run = r /\ entry.time = files[parsing[r]].time
      BY <2>2 DEF ingest_artifact, store_report
    <3>2. /\ IsSequence(snapshots') /\ DOMAIN snapshots = 1..Len(snapshots)
          /\ DOMAIN snapshots' = 1..(Len(snapshots) + 1) /\ Len(snapshots) \in Nat
          /\ \A k \in DOMAIN snapshots : snapshots'[k] = snapshots[k]
          /\ snapshots'[Len(snapshots) + 1] = entry
      <4>1. Appended(snapshots, entry, snapshots')
        BY <1>a, <3>1, AppendFacts
      <4> QED
        BY <4>1 DEF Appended
    <3>3. SnapshotInv'
      BY <1>1, <1>2, <3>1, <3>2 DEF IInv, SnapshotInv, Runs
    <3> QED
      BY <3>2, <3>3
  <2> QED
    BY <2>1, <2>2
<1>6. TablesInv'
  BY <1>1, <1>4, <1>5 DEF IInv, TablesInv
<1>7. BaselineInv'
  BY <1>1 DEF IInv, BaselineInv, Runs
<1>8. ParsingInv'
  BY <1>1, <1>4 DEF IInv, ParsingInv, Runs
<1> QED
  BY <1>5, <1>6, <1>7, <1>8 DEF IInv

\* A report that a client archives belongs to no run.
LEMMA IngestReportInv ==
    ASSUME IInv, NEW p \in Paths, ingest_report(p, Absent) PROVE IInv'
<1>1. PICK entry : snapshots' = Append(snapshots, entry) /\ entry.run = Absent
  BY DEF ingest_report, store_report
<1>2. UNCHANGED <<commands, files, clock, jobs, parsing>>
  BY DEF ingest_report
<1>a. IsSequence(snapshots)
  BY DEF IInv, TablesInv
<1>3. /\ IsSequence(snapshots') /\ DOMAIN snapshots = 1..Len(snapshots)
      /\ DOMAIN snapshots' = 1..(Len(snapshots) + 1) /\ Len(snapshots) \in Nat
      /\ \A k \in DOMAIN snapshots : snapshots'[k] = snapshots[k]
      /\ snapshots'[Len(snapshots) + 1] = entry
  <2>1. Appended(snapshots, entry, snapshots')
    BY <1>1, <1>a, AppendFacts
  <2> QED
    BY <2>1 DEF Appended
<1>4. SnapshotInv'
  BY <1>1, <1>2, <1>3 DEF IInv, SnapshotInv, Runs
<1>5. TablesInv'
  BY <1>2, <1>3 DEF IInv, TablesInv
<1>6. BaselineInv' /\ ParsingInv'
  BY <1>2 DEF IInv, BaselineInv, ParsingInv, Runs
<1> QED
  BY <1>4, <1>5, <1>6 DEF IInv

-----------------------------------------------------------------------------
(* The theorems. *)

\* Every step keeps the invariant.
LEMMA NextInv == IInv /\ [Next]_vars => IInv'
<1> SUFFICES ASSUME IInv, [Next]_vars PROVE IInv'
  OBVIOUS
<1>1. ASSUME NEW c \in Registrations, register_command(c) PROVE IInv'
  BY <1>1, RegisterCommandInv
<1>2. ASSUME NEW q \in Requests, submit_known_key(q) \/ submit_unchanged(q) PROVE IInv'
  BY <1>2, TablesKept DEF submit_known_key, submit_unchanged
<1>3. ASSUME NEW q \in Requests, submit_command(q) PROVE IInv'
  BY <1>3, SubmitCommandInv
<1>4. ASSUME NEW r \in Runs, start_run(r) \/ persist_run(r) PROVE IInv'
  BY <1>4, TablesKept DEF start_run, persist_run
<1>5. ASSUME NEW r \in Runs, NEW result \in {"passed", "failed"}, process_exits(r, result)
      PROVE  IInv'
  BY <1>5, TablesKept DEF process_exits
<1>6. CASE change_checkout \/ UNCHANGED vars
  BY <1>6, TablesKept DEF change_checkout, vars
<1> QED
  BY <1>1, <1>2, <1>3, <1>4, <1>5, <1>6, ProcessWritesInv, CollectArtifactInv,
     IngestArtifactInv, IngestReportInv DEF Next

\* Unwritten files keep the fingerprints that submissions stored, and what is
\* being parsed is newer than its run's submission.
THEOREM Invariance == Spec => []IInv
BY InitInv, NextInv, PTL DEF Spec

\* EvidenceIsFresh: the coverage stored for a run was written after the run
\* was submitted, whatever other runs and the developer do to the files.
THEOREM NoStaleEvidence == Spec => []EvidenceIsFresh
<1>1. IInv => EvidenceIsFresh
  BY DEF IInv, SnapshotInv, EvidenceIsFresh
<1> QED
  BY <1>1, Invariance, PTL

-----------------------------------------------------------------------------
(* Largest elements. *)

\* Max of a set of positions.
LEMMA MaxOfPositions ==
    ASSUME NEW n \in Nat, NEW S \in SUBSET (1..n), S # {} PROVE Max(S) \in S
<1> DEFINE T == {m \in Nat : n - m \in S}
<1>1. PICK k \in S : TRUE
  OBVIOUS
<1>2. n - k \in T
  BY <1>1
<1>3. PICK m \in T : \A j \in T : m <= j
  BY <1>2, LeastNumber
<1>4. ASSUME NEW j \in S PROVE n - m >= j
  <2>1. n - j \in T
    OBVIOUS
  <2>2. m <= n - j
    BY <1>3, <2>1
  <2>3. m \in Nat /\ j \in Nat
    OBVIOUS
  <2> HIDE DEF T
  <2> QED
    BY <2>2, <2>3
<1>5. \E x \in S : \A y \in S : x >= y
  BY <1>3, <1>4
<1> QED
  BY <1>5 DEF Max

-----------------------------------------------------------------------------
(* Collection: as many snapshots as reports that were ingested. *)

\* One run changes, the others and the tables of commands and jobs stay.
LEMMA OneRunChanges ==
    ASSUME CollectionInv, UNCHANGED <<commands, jobs>>, NEW r \in Runs,
           IsSequence(stage'), IsSequence(outcome'), IsSequence(artifacts'),
           Len(stage') = Len(stage), Len(outcome') = Len(outcome),
           Len(artifacts') = Len(artifacts),
           \A k \in Runs \ {r} :
               /\ stage'[k] = stage[k] /\ outcome'[k] = outcome[k]
               /\ artifacts'[k] = artifacts[k] /\ parsing'[k] = parsing[k]
               /\ SnapshotsOf(k)' = SnapshotsOf(k),
           Collected(CommandOf(r).specs, stage'[r], outcome'[r], artifacts'[r], parsing'[r],
                     SnapshotsOf(r)')
    PROVE  CollectionInv'
<1>1. Runs' = Runs /\ \A k \in Runs : CommandOf(k)' = CommandOf(k)
  BY DEF Runs, CommandOf
<1>2. ASSUME NEW k \in Runs
      PROVE  Collected(CommandOf(k).specs, stage'[k], outcome'[k], artifacts'[k], parsing'[k],
                       SnapshotsOf(k)')
  <2>1. CASE k = r
    BY <2>1
  <2>2. CASE k # r
    BY <2>2 DEF CollectionInv
  <2> QED
    BY <2>1, <2>2
<1>3. \A k \in Runs' : Collected(CommandOf(k)'.specs, stage'[k], outcome'[k], artifacts'[k],
                                 parsing'[k], SnapshotsOf(k)')
  BY <1>1, <1>2
<1> QED
  BY <1>3 DEF CollectionInv

\* Nothing that the collection depends on changes.
LEMMA CollectionKept ==
    ASSUME CollectionInv,
           UNCHANGED <<commands, jobs, stage, outcome, artifacts, parsing, snapshots>>
    PROVE  CollectionInv'
BY DEF CollectionInv, Runs, CommandOf, SnapshotsOf

\* The tables of the runs have an entry for every run.
LEMMA RunTables ==
    ASSUME IInv, CollectionInv, NEW r \in Runs
    PROVE  /\ r \in Nat /\ r # Absent /\ r <= Len(jobs)
           /\ r \in DOMAIN stage /\ r \in DOMAIN outcome /\ r \in DOMAIN artifacts
           /\ r \in DOMAIN parsing /\ r \in DOMAIN jobs
           /\ DOMAIN stage = Runs /\ DOMAIN outcome = Runs /\ DOMAIN artifacts = Runs
           /\ DOMAIN parsing = Runs
<1>1. IsSequence(jobs) /\ IsSequence(parsing) /\ Len(parsing) = Len(jobs)
  BY DEF IInv, TablesInv
<1>2. /\ IsSequence(stage) /\ IsSequence(outcome) /\ IsSequence(artifacts)
      /\ Len(stage) = Len(jobs) /\ Len(outcome) = Len(jobs) /\ Len(artifacts) = Len(jobs)
  BY DEF CollectionInv
<1> QED
  BY <1>1, <1>2, EvidenceConstants DEF IsSequence, Runs

\* What the status of an artifact says about its specification.
LEMMA StatusFacts ==
    ASSUME NEW r, NEW i, NEW spec, spec = CommandOf(r).specs[i]
    PROVE  /\ artifact_status(r, i) = "not_configured" <=> spec.format = Absent
           /\ artifact_status(r, i) = "ingested" => outcome[r] = "passed" /\ CompositeOnly(spec)
           /\ artifact_status(r, i) = "parse" =>
                outcome[r] = "passed" /\ spec.format # Absent /\ ~CompositeOnly(spec)
BY DEF artifact_status, CompositeOnly

\* The reports that were ingested, after one more status.
LEMMA IngestedAfter ==
    ASSUME NEW specs, IsSequence(specs), NEW statuses, IsSequence(statuses), NEW status,
           NEW n, n = Len(statuses) + 1, n \in DOMAIN specs
    PROVE  /\ n \notin Ingested(specs, statuses)
           /\ Ingested(specs, Append(statuses, status)) =
                Ingested(specs, statuses) \cup
                  (IF status = "ingested" /\ n \in ReportsOf(specs) THEN {n} ELSE {})
           /\ IsFiniteSet(Ingested(specs, statuses))
<1>1. Appended(statuses, status, Append(statuses, status))
  BY AppendFacts
<1> DEFINE t == Append(statuses, status)
<1>2. /\ Len(statuses) \in Nat /\ DOMAIN statuses = 1..Len(statuses) /\ DOMAIN t = 1..n
      /\ \A i \in DOMAIN statuses : t[i] = statuses[i]
      /\ t[n] = status
  BY <1>1 DEF Appended
<1> HIDE DEF t
<1>3. n \notin DOMAIN statuses /\ DOMAIN t = DOMAIN statuses \cup {n}
  BY <1>2
<1>4. Ingested(specs, t) = Ingested(specs, statuses) \cup
                  (IF status = "ingested" /\ n \in ReportsOf(specs) THEN {n} ELSE {})
  BY <1>2, <1>3 DEF Ingested
<1>5. IsFiniteSet(1..Len(statuses))
  BY <1>2, FS_Interval
<1>6. Ingested(specs, statuses) \subseteq 1..Len(statuses)
  BY <1>2 DEF Ingested
<1> QED
  BY <1>3, <1>4, <1>5, <1>6, FS_Subset DEF Ingested, t

\* One more status; a report that is ingested brings a snapshot of its own.
LEMMA StatusAdded ==
    ASSUME NEW specs, IsSequence(specs), NEW result, NEW statuses, NEW reading, NEW mine,
           Collected(specs, "collecting", result, statuses, reading, mine),
           NEW n, n = Len(statuses) + 1, n \in DOMAIN specs,
           NEW status, status = "not_configured" <=> specs[n].format = Absent,
           status = "ingested" => result = "passed",
           NEW more,
           IF status = "ingested" /\ n \in ReportsOf(specs)
             THEN \E e : e \notin mine /\ more = mine \cup {e}
             ELSE more = mine
    PROVE  Collected(specs, "collecting", result, Append(statuses, status), Absent, more)
<1> DEFINE t == Append(statuses, status)
<1>0. IsSequence(statuses) /\ Len(statuses) <= Len(specs)
  BY DEF Collected
<1>1. /\ IsSequence(t) /\ Len(t) = n /\ Len(statuses) \in Nat
      /\ DOMAIN statuses = 1..Len(statuses) /\ DOMAIN t = 1..n
      /\ \A i \in DOMAIN statuses : t[i] = statuses[i]
      /\ t[n] = status
  <2>1. Appended(statuses, status, t)
    BY <1>0, AppendFacts
  <2> QED
    BY <2>1 DEF Appended
<1>2. /\ n \notin Ingested(specs, statuses)
      /\ Ingested(specs, t) = Ingested(specs, statuses) \cup
           (IF status = "ingested" /\ n \in ReportsOf(specs) THEN {n} ELSE {})
      /\ IsFiniteSet(Ingested(specs, statuses))
  BY <1>0, IngestedAfter
<1> HIDE DEF t
<1>3. IsFiniteSet(mine) /\ Cardinality(mine) = Cardinality(Ingested(specs, statuses))
  BY DEF Collected
<1>4. IsFiniteSet(more) /\ Cardinality(more) = Cardinality(Ingested(specs, t))
  <2>1. CASE status = "ingested" /\ n \in ReportsOf(specs)
    <3>1. PICK e : e \notin mine /\ more = mine \cup {e}
      BY <2>1
    <3>2. IsFiniteSet(more) /\ Cardinality(more) = Cardinality(mine) + 1
      BY <1>3, <3>1, FS_AddElement
    <3>3. Ingested(specs, t) = Ingested(specs, statuses) \cup {n}
      BY <1>2, <2>1
    <3>4. Cardinality(Ingested(specs, t)) = Cardinality(Ingested(specs, statuses)) + 1
      BY <1>2, <3>3, FS_AddElement
    <3> QED
      BY <1>3, <3>2, <3>4
  <2>2. CASE ~(status = "ingested" /\ n \in ReportsOf(specs))
    BY <1>2, <1>3, <2>2
  <2> QED
    BY <2>1, <2>2
<1>5. n <= Len(specs)
  BY DEF IsSequence
<1>6. \A i \in DOMAIN t : /\ t[i] = "not_configured" <=> specs[i].format = Absent
                          /\ t[i] = "ingested" => result = "passed"
  <2> TAKE i \in DOMAIN t
  <2>1. CASE i \in DOMAIN statuses
    BY <1>1, <2>1 DEF Collected
  <2>2. CASE i = n
    BY <1>1, <2>2
  <2> QED
    BY <1>1, <2>1, <2>2
<1> QED
  BY <1>1, <1>4, <1>5, <1>6 DEF Collected, t

\* Nothing is collected initially.
LEMMA CollectionInit == Init => CollectionInv
<1>1. IsSequence(<<>>)
  BY DEF IsSequence
<1> QED
  BY <1>1 DEF Init, CollectionInv, Runs

\* A new command leaves those of the runs alone.
LEMMA CollectionRegister ==
    ASSUME IInv, CollectionInv, NEW c \in Registrations, register_command(c)
    PROVE  CollectionInv'
<1>1. PICK entry : commands' = Append(commands, entry) /\ entry.specs = c.specs
  BY DEF register_command
<1>2. UNCHANGED <<jobs, stage, outcome, artifacts, parsing, snapshots>>
  BY DEF register_command
<1>3. /\ Len(commands) \in Nat
      /\ DOMAIN commands = 1..Len(commands) /\ DOMAIN commands' = 1..(Len(commands) + 1)
      /\ \A k \in DOMAIN commands : commands'[k] = commands[k]
      /\ commands'[Len(commands) + 1] = entry
  <2>1. IsSequence(commands)
    BY DEF IInv, TablesInv
  <2>2. Appended(commands, entry, commands')
    BY <1>1, <2>1, AppendFacts
  <2> QED
    BY <2>2 DEF Appended
<1>4. ASSUME NEW k \in DOMAIN commands' PROVE IsSequence(commands'[k].specs)
  <2>1. CASE k \in DOMAIN commands
    BY <1>3, <2>1 DEF CollectionInv
  <2>2. CASE k = Len(commands) + 1
    BY <1>1, <1>3, <2>2, EvidenceConstants
  <2> QED
    BY <1>3, <2>1, <2>2
<1>5. \A r \in Runs : CommandOf(r)' = CommandOf(r) /\ SnapshotsOf(r)' = SnapshotsOf(r)
  <2> TAKE r \in Runs
  <2>1. jobs[r].command \in DOMAIN commands
    BY DEF IInv, BaselineInv, Baselined
  <2> QED
    BY <1>2, <1>3, <2>1 DEF CommandOf, SnapshotsOf
<1> QED
  BY <1>2, <1>4, <1>5 DEF CollectionInv, Runs

\* Nothing is collected of a run that waits.
LEMMA NothingCollected ==
    ASSUME NEW specs, IsSequence(specs)
    PROVE  Collected(specs, "queued", "pending", <<>>, Absent, {})
<1>1. Ingested(specs, <<>>) = {}
  BY DEF Ingested
<1>2. IsFiniteSet({}) /\ Cardinality({}) = Cardinality(Ingested(specs, <<>>))
  BY <1>1, FS_EmptySet
<1>3. IsSequence(<<>>) /\ Len(<<>>) = 0 /\ DOMAIN <<>> = {} /\ Len(specs) \in Nat
  BY DEF IsSequence
<1>4. Len(<<>>) <= Len(specs)
  BY <1>3
<1> QED
  BY <1>2, <1>3, <1>4 DEF Collected

\* A new run has collected nothing.
LEMMA CollectionSubmit ==
    ASSUME IInv, CollectionInv, NEW q \in Requests, submit_command(q)
    PROVE  CollectionInv'
<1> DEFINE new == Len(jobs) + 1
           id == registered_command(q.command)
<1>1. PICK job : jobs' = Append(jobs, job) /\ job.command = id
  BY DEF submit_command
<1>2. /\ stage' = Append(stage, "queued") /\ outcome' = Append(outcome, "pending")
      /\ artifacts' = Append(artifacts, <<>>) /\ parsing' = Append(parsing, Absent)
      /\ UNCHANGED <<commands, snapshots>>
      /\ accepted(q)
  BY DEF submit_command
<1>3. id \in DOMAIN commands
  BY <1>2, AcceptedNamesACommand
<1>4. /\ IsSequence(jobs) /\ IsSequence(parsing) /\ IsSequence(stage) /\ IsSequence(outcome)
      /\ IsSequence(artifacts)
      /\ Len(parsing) = Len(jobs) /\ Len(stage) = Len(jobs) /\ Len(outcome) = Len(jobs)
      /\ Len(artifacts) = Len(jobs)
  BY DEF IInv, TablesInv, CollectionInv
<1>5. /\ Appended(jobs, job, jobs') /\ Appended(stage, "queued", stage')
      /\ Appended(outcome, "pending", outcome') /\ Appended(artifacts, <<>>, artifacts')
      /\ Appended(parsing, Absent, parsing')
  BY <1>1, <1>2, <1>4, AppendFacts
<1>6. /\ Len(jobs) \in Nat /\ Runs = 1..Len(jobs) /\ Runs' = 1..new
      /\ \A k \in Runs : /\ jobs'[k] = jobs[k] /\ stage'[k] = stage[k]
                         /\ outcome'[k] = outcome[k] /\ artifacts'[k] = artifacts[k]
                         /\ parsing'[k] = parsing[k]
      /\ jobs'[new] = job /\ stage'[new] = "queued" /\ outcome'[new] = "pending"
      /\ artifacts'[new] = <<>> /\ parsing'[new] = Absent
  BY <1>4, <1>5 DEF Appended, Runs
<1>7. /\ IsSequence(stage') /\ IsSequence(outcome') /\ IsSequence(artifacts')
      /\ Len(stage') = new /\ Len(outcome') = new /\ Len(artifacts') = new /\ Len(jobs') = new
  BY <1>4, <1>5 DEF Appended
<1>8. ASSUME NEW k \in Runs'
      PROVE  Collected(CommandOf(k)'.specs, stage'[k], outcome'[k], artifacts'[k],
                       parsing'[k], SnapshotsOf(k)')
  <2>1. SnapshotsOf(k)' = SnapshotsOf(k)
    BY <1>2 DEF SnapshotsOf
  <2>2. CASE k \in Runs
    <3>1. CommandOf(k)' = CommandOf(k)
      BY <1>2, <1>6, <2>2 DEF CommandOf
    <3> QED
      BY <1>6, <2>1, <2>2, <3>1 DEF CollectionInv
  <2>3. CASE k = new
    <3>1. CommandOf(k)' = commands[id]
      BY <1>1, <1>2, <1>6, <2>3 DEF CommandOf
    <3>2. SnapshotsOf(k) = {}
      <4>1. new \notin Runs /\ new # Absent
        BY <1>6, EvidenceConstants
      <4> QED
        BY <2>3, <4>1 DEF SnapshotsOf, IInv, SnapshotInv
    <3>3. IsSequence(commands[id].specs)
      BY <1>3 DEF CollectionInv
    <3>4. Collected(commands[id].specs, "queued", "pending", <<>>, Absent, {})
      BY <3>3, NothingCollected
    <3> QED
      BY <1>6, <2>1, <2>3, <3>1, <3>2, <3>4
  <2> QED
    BY <1>6, <2>2, <2>3
<1>9. \A k \in DOMAIN commands' : IsSequence(commands'[k].specs)
  BY <1>2 DEF CollectionInv
<1> HIDE DEF new
<1>10. {Len(stage'), Len(outcome'), Len(artifacts')} = {Len(jobs')}
  BY <1>7
<1> QED
  BY <1>7, <1>8, <1>9, <1>10 DEF CollectionInv

\* A run starts, and its process ends.
LEMMA CollectionMoves ==
    ASSUME IInv, CollectionInv, NEW r \in Runs,
           \/ start_run(r)
           \/ \E result \in {"passed", "failed"} : process_exits(r, result)
           \/ persist_run(r)
    PROVE  CollectionInv'
<1> DEFINE specs == CommandOf(r).specs
<1>0. /\ DOMAIN stage = Runs /\ DOMAIN outcome = Runs /\ r \in DOMAIN stage
      /\ IsSequence(stage) /\ IsSequence(outcome) /\ IsSequence(artifacts)
      /\ Collected(specs, stage[r], outcome[r], artifacts[r], parsing[r], SnapshotsOf(r))
  BY RunTables DEF CollectionInv
<1>1. /\ UNCHANGED <<commands, jobs, artifacts, parsing, snapshots>>
      /\ \A k \in Runs : SnapshotsOf(k)' = SnapshotsOf(k)
  BY DEF start_run, process_exits, persist_run, SnapshotsOf
<1>2. PICK at, result :
        /\ stage' = [stage EXCEPT ![r] = at]
        /\ outcome' = outcome \/ outcome' = [outcome EXCEPT ![r] = result]
        /\ Collected(specs, at, outcome'[r], artifacts[r], parsing[r], SnapshotsOf(r))
  <2>1. CASE start_run(r)
    BY <1>0, <2>1 DEF start_run, Collected
  <2>2. CASE \E result \in {"passed", "failed"} : process_exits(r, result)
    <3>1. PICK result \in {"passed", "failed"} : process_exits(r, result)
      BY <2>2
    <3>2. /\ stage[r] = "running" /\ stage' = [stage EXCEPT ![r] = "collecting"]
          /\ outcome' = [outcome EXCEPT ![r] = result] /\ outcome'[r] = result
      BY <1>0, <3>1 DEF process_exits
    <3>3. Collected(specs, "collecting", result, artifacts[r], parsing[r], SnapshotsOf(r))
      BY <1>0, <3>2 DEF Collected
    <3> QED
      BY <3>2, <3>3
  <2>3. CASE persist_run(r)
    <3>1. /\ stage[r] = "collecting" /\ stage' = [stage EXCEPT ![r] = "done"]
          /\ parsing[r] = Absent /\ outcome' = outcome
          /\ Len(artifacts[r]) + 1 \notin DOMAIN specs
      BY <2>3 DEF persist_run, Next1
    <3>2. IsSequence(specs) /\ IsSequence(artifacts[r])
      BY <1>0 DEF IInv, BaselineInv, Baselined, CollectionInv, Collected, CommandOf
    <3>3. Len(artifacts[r]) = Len(specs)
      <4>1. Len(artifacts[r]) <= Len(specs)
        BY <1>0 DEF Collected
      <4> QED
        BY <3>1, <3>2, <4>1 DEF IsSequence
    <3>4. Collected(specs, "done", outcome[r], artifacts[r], parsing[r], SnapshotsOf(r))
      BY <1>0, <3>1, <3>3 DEF Collected
    <3> QED
      BY <3>1, <3>4
  <2> QED
    BY <2>1, <2>2, <2>3
<1>3. Replaced(stage, r, at, stage')
  BY <1>0, <1>2, ExceptFacts
<1>4. /\ IsSequence(outcome') /\ Len(outcome') = Len(outcome)
      /\ \A k \in Runs \ {r} : outcome'[k] = outcome[k]
  <2>1. CASE outcome' = outcome
    BY <1>0, <2>1
  <2>2. CASE outcome' = [outcome EXCEPT ![r] = result]
    <3>1. Replaced(outcome, r, result, outcome')
      BY <1>0, <2>2, ExceptFacts
    <3> QED
      BY <1>0, <3>1 DEF Replaced
  <2> QED
    BY <1>2, <2>1, <2>2
<1>5. /\ IsSequence(stage') /\ Len(stage') = Len(stage) /\ stage'[r] = at
      /\ \A k \in Runs \ {r} : stage'[k] = stage[k]
  BY <1>0, <1>3 DEF Replaced
<1>6. Collected(specs, stage'[r], outcome'[r], artifacts'[r], parsing'[r], SnapshotsOf(r)')
  BY <1>1, <1>2, <1>5
<1> QED
  BY <1>0, <1>1, <1>4, <1>5, <1>6, OneRunChanges

\* An artifact gets its status, or passes its checks.
LEMMA CollectionCollect ==
    ASSUME IInv, CollectionInv, NEW r \in Runs, collect_artifact(r)
    PROVE  CollectionInv'
<1> DEFINE specs == CommandOf(r).specs
           n == Next1(r)
           status == artifact_status(r, n)
<1>0. /\ DOMAIN artifacts = Runs /\ DOMAIN parsing = Runs
      /\ IsSequence(stage) /\ IsSequence(outcome) /\ IsSequence(artifacts) /\ IsSequence(parsing)
      /\ Collected(specs, stage[r], outcome[r], artifacts[r], parsing[r], SnapshotsOf(r))
  BY RunTables DEF CollectionInv, IInv, TablesInv
<1>1. /\ UNCHANGED <<commands, jobs, stage, outcome, snapshots>>
      /\ \A k \in Runs : SnapshotsOf(k)' = SnapshotsOf(k)
      /\ stage[r] = "collecting" /\ parsing[r] = Absent /\ n \in DOMAIN specs
  BY DEF collect_artifact, SnapshotsOf
<1>2. IsSequence(specs) /\ n = Len(artifacts[r]) + 1
  BY DEF IInv, BaselineInv, Baselined, CollectionInv, CommandOf, Next1
<1>3. /\ status = "not_configured" <=> specs[n].format = Absent
      /\ status = "ingested" => outcome[r] = "passed" /\ CompositeOnly(specs[n])
      /\ status = "parse" =>
           outcome[r] = "passed" /\ specs[n].format # Absent /\ ~CompositeOnly(specs[n])
  BY StatusFacts
<1>4. CASE status = "parse"
  <2>1. parsing' = [parsing EXCEPT ![r] = specs[n].path] /\ artifacts' = artifacts
    BY <1>4 DEF collect_artifact
  <2> HIDE DEF status, n, specs
  <2>2. parsing'[r] = specs[n].path /\ \A k \in Runs \ {r} : parsing'[k] = parsing[k]
    BY <1>0, <2>1
  <2>3. n \in ReportsOf(specs)
    BY <1>1, <1>3, <1>4 DEF ReportsOf
  <2>4. Collected(specs, "collecting", outcome[r], artifacts[r], parsing'[r], SnapshotsOf(r))
    BY <1>0, <1>1, <1>2, <1>3, <1>4, <2>3 DEF Collected
  <2>5. Collected(specs, stage'[r], outcome'[r], artifacts'[r], parsing'[r], SnapshotsOf(r)')
    BY <1>1, <2>1, <2>4
  <2> QED
    BY <1>0, <1>1, <2>1, <2>2, <2>5, OneRunChanges DEF specs
<1>5. CASE status # "parse"
  <2>1. artifacts' = [artifacts EXCEPT ![r] = Append(artifacts[r], status)] /\ parsing' = parsing
    BY <1>5 DEF collect_artifact
  <2> HIDE DEF status, n, specs
  <2>2. ~(status = "ingested" /\ n \in ReportsOf(specs))
    BY <1>3 DEF ReportsOf
  <2>3. Collected(specs, "collecting", outcome[r], Append(artifacts[r], status), Absent,
                  SnapshotsOf(r))
    BY <1>0, <1>1, <1>2, <1>3, <2>2, StatusAdded
  <2>4. /\ IsSequence(artifacts') /\ Len(artifacts') = Len(artifacts)
        /\ artifacts'[r] = Append(artifacts[r], status)
        /\ \A k \in Runs \ {r} : artifacts'[k] = artifacts[k]
    <3>1. Replaced(artifacts, r, Append(artifacts[r], status), artifacts')
      BY <1>0, <2>1, ExceptFacts
    <3> QED
      BY <1>0, <3>1 DEF Replaced
  <2>5. Collected(specs, stage'[r], outcome'[r], artifacts'[r], parsing'[r], SnapshotsOf(r)')
    BY <1>1, <2>1, <2>3, <2>4
  <2> QED
    BY <1>0, <1>1, <2>1, <2>4, <2>5, OneRunChanges DEF specs
<1> QED
  BY <1>4, <1>5

\* A report that is archived by itself belongs to no run.
LEMMA CollectionReport ==
    ASSUME IInv, CollectionInv, NEW p \in Paths, ingest_report(p, Absent)
    PROVE  CollectionInv'
<1>1. PICK entry : snapshots' = Append(snapshots, entry) /\ entry.run = Absent
  BY DEF ingest_report, store_report
<1>2. UNCHANGED <<commands, jobs, stage, outcome, artifacts, parsing>>
  BY DEF ingest_report
<1>3. Appended(snapshots, entry, snapshots')
  BY <1>1, AppendFacts DEF IInv, TablesInv
<1>4. ASSUME NEW r \in Runs PROVE SnapshotsOf(r)' = SnapshotsOf(r)
  <2>1. r # Absent
    BY RunTables
  <2> QED
    BY <1>1, <1>3, <2>1 DEF SnapshotsOf, Appended
<1>5. \A r \in Runs : CommandOf(r)' = CommandOf(r)
  BY <1>2 DEF CommandOf
<1> QED
  BY <1>2, <1>4, <1>5 DEF CollectionInv, Runs

\* A report is stored together with its status, or is refused.
LEMMA CollectionIngest ==
    ASSUME IInv, CollectionInv, NEW r \in Runs, NEW parsed \in BOOLEAN,
           ingest_artifact(r, parsed)
    PROVE  CollectionInv'
<1> DEFINE specs == CommandOf(r).specs
           n == Len(artifacts[r]) + 1
           status == IF parsed THEN "ingested" ELSE "failed"
<1>0. /\ DOMAIN artifacts = Runs /\ DOMAIN parsing = Runs
      /\ IsSequence(stage) /\ IsSequence(outcome) /\ IsSequence(artifacts) /\ IsSequence(parsing)
      /\ Collected(specs, stage[r], outcome[r], artifacts[r], parsing[r], SnapshotsOf(r))
  BY RunTables DEF CollectionInv, IInv, TablesInv
<1>1. /\ UNCHANGED <<commands, jobs, stage, outcome>>
      /\ stage[r] = "collecting" /\ parsing[r] # Absent
      /\ artifacts' = [artifacts EXCEPT ![r] = Append(artifacts[r], status)]
      /\ parsing' = [parsing EXCEPT ![r] = Absent]
  BY DEF ingest_artifact
<1>2. IsSequence(specs)
  BY DEF IInv, BaselineInv, Baselined, CollectionInv, CommandOf
<1>3. outcome[r] = "passed" /\ n \in ReportsOf(specs)
  BY <1>0, <1>1 DEF Collected
<1>4. n \in DOMAIN specs /\ specs[n].format # Absent
  BY <1>3 DEF ReportsOf
<1>5. /\ \A k \in Runs \ {r} : SnapshotsOf(k)' = SnapshotsOf(k)
      /\ IF parsed THEN \E e : e \notin SnapshotsOf(r) /\ SnapshotsOf(r)' = SnapshotsOf(r) \cup {e}
                   ELSE SnapshotsOf(r)' = SnapshotsOf(r)
  <2>1. CASE ~parsed
    <3>1. snapshots' = snapshots
      BY <2>1 DEF ingest_artifact
    <3> QED
      BY <2>1, <3>1 DEF SnapshotsOf
  <2>2. CASE parsed
    <3>1. PICK entry : snapshots' = Append(snapshots, entry) /\ entry.run = r
      BY <2>2 DEF ingest_artifact, store_report
    <3>2. Appended(snapshots, entry, snapshots')
      BY <3>1, AppendFacts DEF IInv, TablesInv
    <3> DEFINE e == Len(snapshots) + 1
    <3>3. /\ e \notin DOMAIN snapshots /\ DOMAIN snapshots' = DOMAIN snapshots \cup {e}
          /\ \A i \in DOMAIN snapshots : snapshots'[i] = snapshots[i]
          /\ snapshots'[e].run = r
      BY <3>1, <3>2 DEF Appended
    <3> HIDE DEF e
    <3>4. \A k \in Runs \ {r} : SnapshotsOf(k)' = SnapshotsOf(k)
      BY <3>3 DEF SnapshotsOf
    <3>5. e \notin SnapshotsOf(r) /\ SnapshotsOf(r)' = SnapshotsOf(r) \cup {e}
      BY <3>3 DEF SnapshotsOf
    <3> QED
      BY <2>2, <3>4, <3>5
  <2> QED
    BY <2>1, <2>2
<1>6. /\ status = "ingested" <=> parsed
      /\ status # "not_configured"
  OBVIOUS
<1> HIDE DEF status, n, specs
<1>7. Collected(specs, "collecting", outcome[r], Append(artifacts[r], status), Absent,
                SnapshotsOf(r)')
  <2>1. n = Len(artifacts[r]) + 1
    BY DEF n
  <2>2. IF status = "ingested" /\ n \in ReportsOf(specs)
          THEN \E e : e \notin SnapshotsOf(r) /\ SnapshotsOf(r)' = SnapshotsOf(r) \cup {e}
          ELSE SnapshotsOf(r)' = SnapshotsOf(r)
    BY <1>3, <1>5, <1>6
  <2>3. Collected(specs, "collecting", outcome[r], artifacts[r], parsing[r], SnapshotsOf(r))
    BY <1>0, <1>1
  <2> QED
    BY <1>2, <1>3, <1>4, <1>6, <2>1, <2>2, <2>3, StatusAdded
<1>8. /\ IsSequence(artifacts') /\ Len(artifacts') = Len(artifacts)
      /\ artifacts'[r] = Append(artifacts[r], status)
      /\ \A k \in Runs \ {r} : artifacts'[k] = artifacts[k]
  <2>1. Replaced(artifacts, r, Append(artifacts[r], status), artifacts')
    BY <1>0, <1>1, ExceptFacts
  <2> QED
    BY <1>0, <2>1 DEF Replaced
<1>9. parsing'[r] = Absent /\ \A k \in Runs \ {r} : parsing'[k] = parsing[k]
  BY <1>0, <1>1
<1>10. Collected(specs, stage'[r], outcome'[r], artifacts'[r], parsing'[r], SnapshotsOf(r)')
  BY <1>1, <1>7, <1>8, <1>9
<1> QED
  BY <1>0, <1>1, <1>5, <1>8, <1>9, <1>10, OneRunChanges DEF specs

\* Every step keeps the count.
LEMMA CollectionNext == IInv /\ CollectionInv /\ [Next]_vars => CollectionInv'
<1> SUFFICES ASSUME IInv, CollectionInv, [Next]_vars PROVE CollectionInv'
  OBVIOUS
<1>1. ASSUME NEW q \in Requests, submit_known_key(q) \/ submit_unchanged(q) PROVE CollectionInv'
  BY <1>1, CollectionKept DEF submit_known_key, submit_unchanged
<1>2. ASSUME NEW r \in Runs, NEW p \in Paths, process_writes(r, p) PROVE CollectionInv'
  BY <1>2, CollectionKept DEF process_writes
<1>3. CASE change_checkout \/ UNCHANGED vars
  BY <1>3, CollectionKept DEF change_checkout, vars
<1>4. ASSUME NEW r \in Runs,
             \/ start_run(r) \/ persist_run(r)
             \/ \E result \in {"passed", "failed"} : process_exits(r, result)
      PROVE  CollectionInv'
  BY <1>4, CollectionMoves
<1> QED
  BY <1>1, <1>2, <1>3, <1>4, CollectionRegister, CollectionSubmit, CollectionCollect,
     CollectionIngest, CollectionReport DEF Next

\* Where all that is configured was ingested, every report was.
LEMMA AllIngested ==
    ASSUME NEW specs, IsSequence(specs), NEW statuses, IsSequence(statuses),
           Len(statuses) = Len(specs),
           \A i \in DOMAIN statuses : statuses[i] = "not_configured" <=> specs[i].format = Absent,
           coverage_ingest(statuses) = "ingested"
    PROVE  Ingested(specs, statuses) = ReportsOf(specs)
<1> DEFINE D == DOMAIN statuses
           A == {i \in D : statuses[i] \in {"not_configured"}}
           B == {i \in D : statuses[i] \in {"ingested"}}
<1>1. Len(statuses) \in Nat /\ D = 1..Len(statuses) /\ D = DOMAIN specs
  BY DEF IsSequence
<1>2. IsFiniteSet(D) /\ Cardinality(D) = Len(statuses)
  BY <1>1, PositionCount
<1>3. Cardinality(B) = Len(statuses) - Cardinality(A)
  BY DEF coverage_ingest
<1>4. A \subseteq D /\ B \subseteq D /\ A \cap B = {}
  OBVIOUS
<1> HIDE DEF A, B
<1>5. IsFiniteSet(A) /\ IsFiniteSet(B) /\ Cardinality(A) \in Nat /\ Cardinality(B) \in Nat
  BY <1>2, <1>4, FS_Subset, FS_CardinalityType
<1>6. Cardinality(A \cup B) = Cardinality(A) + Cardinality(B)
  <2>1. Cardinality(A \cap B) = 0
    BY <1>4, FS_EmptySet
  <2>2. Cardinality(A \cup B) = Cardinality(A) + Cardinality(B) - Cardinality(A \cap B)
    BY <1>5, FS_Union
  <2> QED
    BY <1>5, <2>1, <2>2
<1>7. Cardinality(A \cup B) = Cardinality(D)
  BY <1>1, <1>2, <1>3, <1>5, <1>6
<1>8. A \cup B = D
  <2>1. A \cup B \subseteq D
    BY <1>4
  <2> QED
    BY <1>2, <1>7, <2>1, FS_Subset
<1> QED
  BY <1>1, <1>8 DEF A, B, Ingested, ReportsOf

\* The invariants hold together.
THEOREM CollectionInvariance == Spec => [](IInv /\ CollectionInv)
<1>1. Init => CollectionInv
  BY CollectionInit
<1>2. IInv /\ CollectionInv /\ [Next]_vars => CollectionInv'
  BY CollectionNext
<1> QED
  BY <1>1, <1>2, InitInv, NextInv, PTL DEF Spec

\* EvidenceIsComplete: a completed run has a snapshot for every report it
\* parses when it says so, never more, and none unless it passed.
THEOREM CompleteEvidence == Spec => []EvidenceIsComplete
<1>1. ASSUME IInv, CollectionInv PROVE EvidenceIsComplete
  <2> SUFFICES ASSUME NEW r \in Runs, stage[r] = "done"
               PROVE  /\ coverage_ingest(artifacts[r]) = "ingested" =>
                           Cardinality(SnapshotsOf(r)) = Cardinality(ReportsOf(CommandOf(r).specs))
                      /\ Cardinality(SnapshotsOf(r)) <= Cardinality(ReportsOf(CommandOf(r).specs))
                      /\ outcome[r] # "passed" => SnapshotsOf(r) = {}
    BY DEF EvidenceIsComplete, ReportsOf
  <2> DEFINE specs == CommandOf(r).specs
             statuses == artifacts[r]
  <2>1. IsSequence(specs)
    BY <1>1 DEF IInv, BaselineInv, Baselined, CollectionInv, CommandOf
  <2>2. Collected(specs, "done", outcome[r], statuses, parsing[r], SnapshotsOf(r))
    BY <1>1 DEF CollectionInv
  <2> HIDE DEF specs, statuses
  <2>3. /\ IsSequence(statuses) /\ Len(statuses) = Len(specs)
        /\ \A i \in DOMAIN statuses : statuses[i] = "not_configured" <=> specs[i].format = Absent
        /\ \A i \in DOMAIN statuses : statuses[i] = "ingested" => outcome[r] = "passed"
        /\ IsFiniteSet(SnapshotsOf(r))
        /\ Cardinality(SnapshotsOf(r)) = Cardinality(Ingested(specs, statuses))
    BY <2>2 DEF Collected
  <2>4. Ingested(specs, statuses) \subseteq ReportsOf(specs) /\ IsFiniteSet(ReportsOf(specs))
    <3>1. IsFiniteSet(DOMAIN specs) /\ ReportsOf(specs) \subseteq DOMAIN specs
      BY <2>1, FS_Interval DEF IsSequence, ReportsOf
    <3> QED
      BY <3>1, FS_Subset DEF Ingested
  <2>5. Cardinality(Ingested(specs, statuses)) <= Cardinality(ReportsOf(specs))
    BY <2>4, FS_Subset
  <2>6. coverage_ingest(statuses) = "ingested" => Ingested(specs, statuses) = ReportsOf(specs)
    BY <2>1, <2>3, AllIngested
  <2>7. outcome[r] # "passed" => SnapshotsOf(r) = {}
    <3>1. SUFFICES ASSUME outcome[r] # "passed" PROVE SnapshotsOf(r) = {}
      OBVIOUS
    <3>2. Ingested(specs, statuses) = {}
      BY <2>3, <3>1 DEF Ingested
    <3> QED
      BY <2>3, <3>2, FS_EmptySet
  <2> QED
    BY <2>3, <2>5, <2>6, <2>7 DEF specs, statuses
<1> QED
  BY <1>1, CollectionInvariance, PTL

-----------------------------------------------------------------------------
(* Requests and their answers. *)

ArgumentsOf(q) == IF q.arguments = Absent THEN <<>> ELSE q.arguments

\* The job runs what the request asks for.
Serves(job, q) ==
    /\ job.launched.marker \o job.launched.rest = ArgumentsOf(q)
    /\ IF job.context = Absent THEN q.baseline = Absent /\ q.execution = Absent
       ELSE job.context.baseline = q.baseline

\* The context of a request has its arguments and its baseline.
LEMMA ContextFacts ==
    ASSUME NEW q \in Requests, ContextOf(q) # Bad
    PROVE  /\ normalize_arguments(q.arguments) = ArgumentsOf(q)
           /\ IF ContextOf(q) = Absent
                THEN ArgumentsOf(q) = <<>> /\ q.baseline = Absent /\ q.execution = Absent
                ELSE ContextOf(q).arguments = ArgumentsOf(q) /\ ContextOf(q).baseline = q.baseline
<1> DEFINE arguments == normalize_arguments(q.arguments)
<1>1. arguments # Bad /\ ContextOf(q) = normalize_run_execution(q.execution, arguments, q.baseline)
  BY DEF ContextOf
<1>2. arguments = ArgumentsOf(q)
  BY <1>1 DEF normalize_arguments, ArgumentsOf
<1> HIDE DEF arguments
<1> SUFFICES IF ContextOf(q) = Absent
               THEN arguments = <<>> /\ q.baseline = Absent /\ q.execution = Absent
               ELSE ContextOf(q).arguments = arguments /\ ContextOf(q).baseline = q.baseline
  BY <1>2 DEF arguments
<1>3. CASE q.execution = Absent
  <2> DEFINE context == generated_run_execution("full", Absent, Absent, arguments, q.baseline)
  <2>1. context # Absent
    BY <1>3, SentinelsAreNoContexts DEF arguments
  <2>2. context.arguments = arguments /\ context.baseline = q.baseline
    BY DEF generated_run_execution
  <2> HIDE DEF context
  <2> QED
    BY <1>1, <1>3, <2>1, <2>2 DEF normalize_run_execution, context
<1>4. CASE q.execution # Absent
  <2> DEFINE context == generated_run_execution(q.execution.mode, q.execution.identity,
                                                q.execution.label, arguments, q.baseline)
  <2>1. context # Absent
    BY <1>4, SentinelsAreNoContexts DEF arguments
  <2>2. context.arguments = arguments /\ context.baseline = q.baseline
    BY DEF generated_run_execution
  <2> HIDE DEF context
  <2> QED
    BY <1>1, <1>4, <2>1, <2>2 DEF normalize_run_execution, context
<1> QED
  BY <1>3, <1>4

\* The command that is launched has the arguments, in one of two places.
LEMMA RenderedArguments ==
    ASSUME NEW q \in Requests, NEW command,
           render_command(command, ArgumentsOf(q)) # Bad
    PROVE  LET launched == render_command(command, ArgumentsOf(q))
           IN launched.marker \o launched.rest = ArgumentsOf(q)
<1>1. ArgumentsOf(q) \in Seq(Range(ArgumentsOf(q)))
  <2>1. CASE q.arguments = Absent
    BY <2>1 DEF ArgumentsOf
  <2>2. CASE q.arguments # Absent
    BY <2>2, EvidenceConstants DEF ArgumentsOf, IsSequence
  <2> QED
    BY <2>1, <2>2
<1>2. ArgumentsOf(q) \o <<>> = ArgumentsOf(q) /\ <<>> \o ArgumentsOf(q) = ArgumentsOf(q)
  BY <1>1
<1> QED
  BY <1>2 DEF render_command

\* A run of the same execution serves the request.
LEMMA SameContextServes ==
    ASSUME NEW q \in Requests, ContextOf(q) # Bad, NEW job, Recorded(job),
           job.context = ContextOf(q)
    PROVE  Serves(job, q)
BY ContextFacts DEF Serves, Recorded

\* The registration that is found has the name that was asked for.
LEMMA RegisteredName ==
    ASSUME IInv, NEW name, registered_command(name) \in DOMAIN commands
    PROVE  commands[registered_command(name)].name = name
<1> DEFINE named == {i \in DOMAIN commands : commands[i].name = name}
<1>1. Len(commands) \in Nat /\ DOMAIN commands = 1..Len(commands)
  BY DEF IInv, TablesInv, IsSequence
<1>2. Absent \notin DOMAIN commands
  BY <1>1, EvidenceConstants
<1>3. named # {} /\ registered_command(name) = Max(named)
  BY <1>2 DEF registered_command
<1>4. named \in SUBSET (1..Len(commands))
  BY <1>1
<1>5. Max(named) \in named
  BY <1>1, <1>3, <1>4, MaxOfPositions
<1> QED
  BY <1>3, <1>5

\* A place in the queue.
LEMMA QueuePosition ==
    ASSUME IInv, NEW r \in Runs, queued_position(r) # Absent
    PROVE  queued_position(r) \in 1..Len(jobs)
<1> DEFINE ahead == {q \in Queued : q <= r}
<1>1. Len(jobs) \in Nat /\ Runs = 1..Len(jobs)
  BY DEF IInv, TablesInv, IsSequence, Runs
<1>2. stage[r] = "queued" /\ queued_position(r) = Cardinality(ahead)
  BY DEF queued_position
<1>3. r \in ahead /\ ahead \subseteq 1..Len(jobs)
  BY <1>1, <1>2 DEF Queued
<1> HIDE DEF ahead
<1>4. IsFiniteSet(1..Len(jobs)) /\ Cardinality(1..Len(jobs)) = Len(jobs)
  BY <1>1, PositionCount
<1>5. IsFiniteSet(ahead) /\ Cardinality(ahead) <= Len(jobs)
  BY <1>3, <1>4, FS_Subset
<1>6. Cardinality(ahead) \in Nat /\ Cardinality(ahead) # 0
  BY <1>3, <1>5, FS_CardinalityType, FS_EmptySet
<1> QED
  BY <1>1, <1>2, <1>5, <1>6

\* The runs that wait are no more than the runs.
LEMMA QueueLength ==
    ASSUME IInv PROVE Cardinality(Queued) \in Nat /\ Cardinality(Queued) <= Len(jobs)
<1>1. Len(jobs) \in Nat /\ Queued \subseteq 1..Len(jobs)
  BY DEF IInv, TablesInv, IsSequence, Runs, Queued
<1>2. IsFiniteSet(1..Len(jobs)) /\ Cardinality(1..Len(jobs)) = Len(jobs)
  BY <1>1, PositionCount
<1> QED
  BY <1>1, <1>2, FS_Subset, FS_CardinalityType

\* The run that is reused is one of the same command.
LEMMA LatestRun ==
    ASSUME RequestInv, NEW command, latest_run(command) # Absent
    PROVE  latest_run(command) \in Runs /\ jobs[latest_run(command)].command = command
<1> DEFINE own == {i \in DOMAIN started : /\ stage[started[i]] = "done"
                                          /\ jobs[started[i]].command = command}
<1>1. Len(started) \in Nat /\ DOMAIN started = 1..Len(started)
  BY DEF RequestInv, IsSequence
<1>2. own # {} /\ latest_run(command) = started[Max(own)]
  BY DEF latest_run
<1>3. own \in SUBSET (1..Len(started))
  BY <1>1
<1>4. Max(own) \in own
  BY <1>1, <1>2, <1>3, MaxOfPositions
<1> QED
  BY <1>2, <1>4 DEF RequestInv

\* What an answer must say.
Answered(told) ==
    (told # Absent /\ told.run # Absent) =>
        /\ CommandOf(told.run).name = told.request.command
        /\ Serves(jobs[told.run], told.request)
        /\ told.position # Absent => told.position \in 1..Len(jobs)

LEMMA AnsweredMatches == Answered(answer) <=> AnswerMatchesRequest
BY DEF Answered, AnswerMatchesRequest, Serves, ArgumentsOf

\* An answer that names a run of the command and of the execution.
LEMMA ToldOfSameRun ==
    ASSUME IInv, RequestInv, NEW q \in Requests, accepted(q), NEW r \in Runs,
           jobs[r].command = registered_command(q.command), jobs[r].context = ContextOf(q),
           NEW reason, NEW position,
           position = Absent \/ position = queued_position(r)
    PROVE  Answered(Told(q, r, reason, position))
<1>1. /\ Told(q, r, reason, position).run = r /\ Told(q, r, reason, position).request = q
      /\ Told(q, r, reason, position).position = position
  BY DEF Told
<1>2. ContextOf(q) # Bad /\ registered_command(q.command) \in DOMAIN commands
  BY AcceptedFacts, AcceptedNamesACommand
<1>3. CommandOf(r).name = q.command
  BY <1>2, RegisteredName DEF CommandOf
<1>4. Serves(jobs[r], q)
  BY <1>2, SameContextServes DEF RequestInv
<1>5. position # Absent => position \in 1..Len(jobs)
  BY QueuePosition
<1> QED
  BY <1>1, <1>3, <1>4, <1>5 DEF Answered

\* Steps that submit nothing and start nothing.
LEMMA RequestsKept ==
    ASSUME RequestInv, UNCHANGED <<jobs, started>> PROVE RequestInv'
BY DEF RequestInv, Runs

\* A key that is known.
LEMMA KnownKeyAnswer ==
    ASSUME IInv, RequestInv, NEW q \in Requests, submit_known_key(q)
    PROVE  RequestInv' /\ AnswerMatchesRequest'
<1> DEFINE id == registered_command(q.command)
           known == idempotent_run_id(id, q.key)
           r == Max(known)
<1>1. /\ accepted(q) /\ known # {} /\ UNCHANGED <<commands, jobs, stage, started>>
      /\ answer' = IF jobs[r].context = ContextOf(q)
                     THEN Told(q, r, "idempotency_key", queued_position(r))
                     ELSE Told(q, Absent, "conflict", Absent)
  BY DEF submit_known_key
<1>2. r \in Runs /\ jobs[r].command = id
  <2>1. Len(jobs) \in Nat /\ Runs = 1..Len(jobs)
    BY DEF IInv, TablesInv, IsSequence, Runs
  <2>2. known \in SUBSET (1..Len(jobs))
    BY <2>1 DEF idempotent_run_id
  <2>3. r \in known
    BY <1>1, <2>1, <2>2, MaxOfPositions
  <2> QED
    BY <2>3 DEF idempotent_run_id
<1> HIDE DEF r, known, id
<1>3. Answered(answer')
  <2>1. CASE jobs[r].context = ContextOf(q)
    BY <1>1, <1>2, <2>1, ToldOfSameRun DEF id
  <2>2. CASE jobs[r].context # ContextOf(q)
    BY <1>1, <2>2 DEF Answered, Told
  <2> QED
    BY <2>1, <2>2
<1>4. Answered(answer)'
  BY <1>1, <1>3 DEF Answered, CommandOf
<1>5. RequestInv'
  BY <1>1, RequestsKept
<1> QED
  BY <1>4, <1>5, AnsweredMatches, PTL

\* An unchanged checkout.
LEMMA UnchangedAnswer ==
    ASSUME IInv, RequestInv, NEW q \in Requests, submit_unchanged(q)
    PROVE  RequestInv' /\ AnswerMatchesRequest'
<1> DEFINE id == registered_command(q.command)
           latest == latest_run(id)
<1>1. /\ accepted(q) /\ Reusable(q) # {} /\ UNCHANGED <<commands, jobs, stage, started>>
      /\ answer' = Told(q, Max(Reusable(q)), "unchanged_checkout", Absent)
  BY DEF submit_unchanged
<1>2. /\ Reusable(q) = {latest} /\ latest # Absent
      /\ jobs[latest].context = ContextOf(q)
  BY <1>1 DEF Reusable, reusable_run_id_with_execution
<1>3. latest \in Runs /\ jobs[latest].command = id
  BY <1>2, LatestRun
<1>4. Max({latest}) = latest
  <2>1. Len(jobs) \in Nat /\ {latest} \in SUBSET (1..Len(jobs))
    BY <1>3 DEF IInv, TablesInv, IsSequence, Runs
  <2> QED
    BY <2>1, MaxOfPositions
<1> HIDE DEF latest, id
<1>5. Answered(answer')
  BY <1>1, <1>2, <1>3, <1>4, ToldOfSameRun DEF id
<1>6. Answered(answer)'
  BY <1>1, <1>5 DEF Answered, CommandOf
<1>7. RequestInv'
  BY <1>1, RequestsKept
<1> QED
  BY <1>6, <1>7, AnsweredMatches, PTL

\* A new run.
LEMMA NewRunAnswer ==
    ASSUME IInv, RequestInv, NEW q \in Requests, submit_command(q)
    PROVE  RequestInv' /\ AnswerMatchesRequest'
<1> DEFINE id == registered_command(q.command)
           new == Len(jobs) + 1
           launched == render_command(commands[id], normalize_arguments(q.arguments))
<1>1. PICK job : /\ jobs' = Append(jobs, job) /\ job.command = id
                 /\ job.context = ContextOf(q) /\ job.launched = launched
  <2>1. jobs' = Append(jobs,
          [command |-> id, key |-> q.key, context |-> ContextOf(q), launched |-> launched,
           branch |-> inspect_git.branch, commit |-> inspect_git.commit,
           baselines |-> artifact_baselines(commands[id]), submitted |-> clock])
    BY DEF submit_command
  <2> HIDE DEF id, launched
  <2> QED
    BY <2>1
<1>2. /\ accepted(q) /\ UNCHANGED <<commands, started>>
      /\ answer' = Told(q, new, "new", Cardinality(Queued) + 1)
  BY DEF submit_command
<1>3. /\ ContextOf(q) # Bad /\ id \in DOMAIN commands /\ launched # Bad
  BY <1>2, AcceptedFacts, AcceptedNamesACommand
<1>4. launched.marker \o launched.rest = ArgumentsOf(q)
  <2>1. normalize_arguments(q.arguments) = ArgumentsOf(q)
    BY <1>3, ContextFacts
  <2> QED
    BY <1>3, <2>1, RenderedArguments
<1> HIDE DEF launched, id
<1>5. /\ Len(jobs) \in Nat /\ Runs = 1..Len(jobs) /\ Runs' = 1..new /\ Len(jobs') = new
      /\ \A k \in Runs : jobs'[k] = jobs[k]
      /\ jobs'[new] = job
  <2>1. IsSequence(jobs)
    BY DEF IInv, TablesInv
  <2>2. Appended(jobs, job, jobs')
    BY <1>1, <2>1, AppendFacts
  <2> QED
    BY <2>2 DEF Appended, Runs
<1>6. Recorded(job) /\ Serves(job, q)
  <2>1. job.launched.marker \o job.launched.rest = ArgumentsOf(q)
    BY <1>1, <1>4
  <2> QED
    BY <1>1, <1>3, <2>1, ContextFacts DEF Recorded, Serves
<1>7. RequestInv'
  <2>1. \A k \in Runs' : Recorded(jobs'[k])
    BY <1>5, <1>6 DEF RequestInv
  <2>2. IsSequence(started') /\ \A i \in DOMAIN started' : started'[i] \in Runs'
    BY <1>2, <1>5 DEF RequestInv
  <2> QED
    BY <2>1, <2>2 DEF RequestInv
<1>8. Cardinality(Queued) + 1 \in 1..new
  BY <1>5, QueueLength
<1>9. /\ answer'.run = new /\ answer'.request = q /\ answer'.position = Cardinality(Queued) + 1
  BY <1>2 DEF Told
<1>10. commands'[jobs'[new].command].name = q.command
  <2>1. commands[id].name = q.command
    BY <1>3, RegisteredName DEF id
  <2> QED
    BY <1>1, <1>2, <1>5, <2>1
<1> HIDE DEF new
<1>11. Answered(answer)'
  BY <1>5, <1>6, <1>8, <1>9, <1>10 DEF Answered, CommandOf
<1> QED
  BY <1>7, <1>11, AnsweredMatches, PTL

\* A run that starts is known.
LEMMA StartKept ==
    ASSUME IInv, RequestInv, NEW r \in Runs, start_run(r)
    PROVE  RequestInv' /\ AnswerMatchesRequest'
<1>1. started' = Append(started, r) /\ answer' = Absent /\ jobs' = jobs
  BY DEF start_run, Delivered
<1>2. Appended(started, r, started')
  BY <1>1, AppendFacts DEF RequestInv
<1>3. RequestInv'
  BY <1>1, <1>2 DEF RequestInv, Appended, Runs
<1> QED
  BY <1>1, <1>3 DEF AnswerMatchesRequest

\* Every step keeps what the answers rest on, and answers as it should.
LEMMA RequestNext ==
    IInv /\ RequestInv /\ AnswerMatchesRequest /\ [Next]_vars
        => RequestInv' /\ AnswerMatchesRequest'
<1> SUFFICES ASSUME IInv, RequestInv, AnswerMatchesRequest, [Next]_vars
             PROVE  RequestInv' /\ AnswerMatchesRequest'
  OBVIOUS
<1>1. ASSUME answer' = Absent, UNCHANGED <<jobs, started>>
      PROVE  RequestInv' /\ AnswerMatchesRequest'
  BY <1>1, RequestsKept DEF AnswerMatchesRequest
<1>2. ASSUME NEW c \in Registrations, register_command(c)
      PROVE  RequestInv' /\ AnswerMatchesRequest'
  BY <1>1, <1>2 DEF register_command, Delivered
<1>3. ASSUME NEW r \in Runs,
             \/ collect_artifact(r) \/ persist_run(r)
             \/ \E parsed \in BOOLEAN : ingest_artifact(r, parsed)
      PROVE  RequestInv' /\ AnswerMatchesRequest'
  BY <1>1, <1>3 DEF collect_artifact, persist_run, ingest_artifact, Delivered
<1>4. ASSUME NEW r \in Runs,
             \/ \E result \in {"passed", "failed"} : process_exits(r, result)
             \/ \E p \in Paths : process_writes(r, p)
      PROVE  RequestInv' /\ AnswerMatchesRequest'
  BY <1>1, <1>4 DEF process_exits, process_writes, Delivered
<1>5. ASSUME NEW p \in Paths, ingest_report(p, Absent)
      PROVE  RequestInv' /\ AnswerMatchesRequest'
  BY <1>1, <1>5 DEF ingest_report, Delivered
<1>6. CASE change_checkout
  BY <1>1, <1>6 DEF change_checkout, Delivered
<1>7. CASE UNCHANGED vars
  BY <1>7 DEF vars, RequestInv, AnswerMatchesRequest, Runs, CommandOf
<1> QED
  BY <1>2, <1>3, <1>4, <1>5, <1>6, <1>7, KnownKeyAnswer, UnchangedAnswer, NewRunAnswer,
     StartKept DEF Next

\* AnswerMatchesRequest: whichever way a submission is answered, the run runs
\* the requested command with the requested arguments and baseline.
THEOREM AnswersAreRight == Spec => []AnswerMatchesRequest
<1>1. Init => RequestInv /\ AnswerMatchesRequest
  <2>1. IsSequence(<<>>)
    BY DEF IsSequence
  <2> QED
    BY <2>1 DEF Init, RequestInv, AnswerMatchesRequest, Runs
<1> QED
  BY <1>1, RequestNext, Invariance, PTL DEF Spec
=============================================================================
