---------------------------- MODULE SnapshotDetail ----------------------------
(***************************************************************************)
(* Coverage detail of ordinary snapshots (src/storage.rs): ingestion into  *)
(* four relational tables, compaction into one compressed payload, and the *)
(* readers that must not notice which of the two they are reading.         *)
(*                                                                         *)
(* Every action is one database operation: DuckDB runs each statement, or  *)
(* each explicit transaction, atomically, and nothing spans two of them.   *)
(***************************************************************************)
EXTENDS Naturals, FiniteSets, Sequences

CONSTANTS
    Snapshots,      \* snapshot ids
    Rows,           \* relational rows of any table
    Report,         \* Report[s][t]: the rows of table t in the report of s
    NoPayload,      \* no row in coverage_compacted_payloads
    NoSnapshot,     \* a process that works on no snapshot
    Compactors,     \* threads that may run a compaction pass
    Worker,         \* the one of them that is the background thread
    Readers,        \* threads that serve a detail query
    BatchSize,      \* compaction_batch_size
    MaxFaults       \* bound: failed operations plus restarts

TableOrder == <<"files", "lines", "test_names", "test_coverage">>
Tables == {"files", "lines", "test_names", "test_coverage"}
Detail == [Tables -> SUBSET Rows]
EmptyDetail == [t \in Tables |-> {}]

ASSUME SnapshotAssumption ==
    /\ IsFiniteSet(Snapshots)
    /\ Report \in [Snapshots -> Detail]
    /\ NoPayload \notin Detail
    /\ NoSnapshot \notin Snapshots
    /\ Worker \in Compactors
    /\ Compactors \cap Readers = {}
    /\ BatchSize \in Nat \ {0}
    /\ MaxFaults \in Nat

VARIABLES
    created,     \* created[s]: position in created_at order, 0 before ingestion
    retention,   \* snapshots.detail_retention
    rows,        \* the four detail tables
    payload,     \* coverage_compacted_payloads
    policy,      \* project_settings: enabled, and the age cutoff in force
    lastCount,   \* compaction_last_snapshot_count
    proc,        \* local state of each thread
    offered,     \* ghost: snapshots that were ever compactable
    faults       \* bound counter

vars == <<created, retention, rows, payload, policy, lastCount, proc, offered, faults>>
store == <<created, retention, rows, payload, policy, lastCount, offered>>

Procs == Compactors \cup Readers
Retentions == {"compactable", "incremental_base"}
Calls == {"none", "measurement_report", "files", "lines_all", "test_observation_sets"}
PCs == {"idle", "batch", "detail_payload", "publish", "rows", "observations",
        "compacted_detail", "done"}

\* A compactor or reader: what it runs, on which snapshot, what it has read,
\* and (compactors) the rest of the batch and the snapshots it inserted.
Thread(pc, call, snap, batch, inserted) ==
    [pc |-> pc, call |-> call, snap |-> snap, step |-> 1, read |-> EmptyDetail,
     batch |-> batch, inserted |-> inserted]

IdleProc == Thread("idle", "none", NoSnapshot, {}, {})

\* Thread me after one more read.
Advance(me, pc, step, read) ==
    [pc |-> pc, call |-> me.call, snap |-> me.snap, step |-> step, read |-> read,
     batch |-> me.batch, inserted |-> me.inserted]

ProcState == [pc : PCs, call : Calls, snap : Snapshots \cup {NoSnapshot}, step : 1..4,
              read : Detail, batch : SUBSET Snapshots, inserted : SUBSET Snapshots]

Init ==
    /\ created = [s \in Snapshots |-> 0]
    /\ retention = [s \in Snapshots |-> "compactable"]
    /\ rows = [s \in Snapshots |-> EmptyDetail]
    /\ payload = [s \in Snapshots |-> NoPayload]
    /\ policy = [enabled |-> TRUE, cutoff |-> 1]
    /\ lastCount = 0
    /\ proc = [p \in Procs |-> IdleProc]
    /\ offered = {}
    /\ faults = 0

Ingested == {s \in Snapshots : created[s] # 0}

-----------------------------------------------------------------------------
(* Ingestion and policy *)

\* One transaction writes the snapshot row and all of its detail, or nothing.
store_report(s, r) ==
    /\ created[s] = 0
    /\ created' = [created EXCEPT ![s] = Cardinality(Ingested) + 1]
    /\ retention' = [retention EXCEPT ![s] = r]
    /\ rows' = [rows EXCEPT ![s] = Report[s]]
    /\ offered' = IF r = "compactable" THEN offered \cup {s} ELSE offered
    /\ UNCHANGED <<payload, policy, lastCount, proc, faults>>

set_snapshot_detail_retention(s, r) ==
    /\ created[s] # 0
    /\ retention' = [retention EXCEPT ![s] = r]
    /\ offered' = IF r = "compactable" THEN offered \cup {s} ELSE offered
    /\ UNCHANGED <<created, rows, payload, policy, lastCount, proc, faults>>

\* A PATCH of enabled or of the age threshold, or simply time passing, moves
\* the set of snapshots the next pass considers old enough.
update_project_settings(enabled, cutoff) ==
    /\ policy' = [enabled |-> enabled, cutoff |-> cutoff]
    /\ policy' # policy
    /\ UNCHANGED <<created, retention, rows, payload, lastCount, proc, offered, faults>>

-----------------------------------------------------------------------------
(* Compaction *)

\* Mutation: the retention test is forgotten.
EligibleAnyRetention(s) ==
    created[s] # 0 /\ created[s] < policy.cutoff /\ payload[s] = NoPayload

\* Mutation: compacted snapshots are selected again and fill the batch.
EligibleAgain(s) ==
    created[s] # 0 /\ created[s] < policy.cutoff /\ retention[s] # "incremental_base"

Eligible(s) ==
    /\ created[s] # 0
    /\ created[s] < policy.cutoff
    /\ payload[s] = NoPayload
    /\ retention[s] # "incremental_base"

\* ORDER BY created_at ASC LIMIT batch_size
Candidates ==
    {s \in Snapshots :
        /\ Eligible(s)
        /\ Cardinality({o \in Snapshots : Eligible(o) /\ created[o] < created[s]}) < BatchSize}

\* compact_now always selects; the background loop selects while it is enabled.
compact_project(c) ==
    /\ proc[c].pc = "idle"
    /\ c = Worker => policy.enabled
    /\ proc' = [proc EXCEPT ![c] = Thread("batch", "none", NoSnapshot, Candidates, {})]
    /\ UNCHANGED <<store, faults>>

\* The pass takes the oldest snapshot left in its batch.
compact_next(c) ==
    /\ proc[c].pc = "batch"
    /\ \E s \in proc[c].batch :
        /\ \A o \in proc[c].batch : created[s] <= created[o]
        /\ proc' = [proc EXCEPT ![c] =
                Thread("detail_payload", "none", s, proc[c].batch \ {s}, proc[c].inserted)]
    /\ UNCHANGED <<store, faults>>

\* Four SELECTs, each on a read connection of its own.
detail_payload(p) ==
    LET me == proc[p]
        t == TableOrder[me.step]
    IN
    /\ me.pc = "detail_payload"
    /\ proc' = [proc EXCEPT ![p] =
            Advance(me, IF me.step < 4 THEN "detail_payload"
                        ELSE IF p \in Compactors THEN "publish" ELSE "compacted_detail",
                    IF me.step = 4 THEN 4 ELSE me.step + 1,
                    [me.read EXCEPT ![t] = rows[me.snap][t]])]
    /\ UNCHANGED <<store, faults>>

\* Mutation: ON CONFLICT DO UPDATE.
PublishPayloadOverwriting(c) ==
    /\ payload' = [payload EXCEPT ![proc[c].snap] = proc[c].read]
    /\ rows' = [rows EXCEPT ![proc[c].snap] = EmptyDetail]

\* INSERT ... ON CONFLICT DO NOTHING; the relational rows go in the same
\* transaction and only when the insert took effect.
PublishPayload(c) ==
    LET s == proc[c].snap IN
    IF payload[s] = NoPayload
    THEN /\ payload' = [payload EXCEPT ![s] = proc[c].read]
         /\ rows' = [rows EXCEPT ![s] = EmptyDetail]
    ELSE UNCHANGED <<payload, rows>>

\* Mutation: a snapshot is counted although another pass inserted its payload.
compact_snapshot_counts_all(c) ==
    LET s == proc[c].snap IN
    /\ proc[c].pc = "publish"
    /\ PublishPayload(c)
    /\ proc' = [proc EXCEPT ![c] =
            Thread("batch", "none", NoSnapshot, proc[c].batch, proc[c].inserted \cup {s})]
    /\ UNCHANGED <<created, retention, policy, lastCount, offered, faults>>

compact_snapshot_detail(c) ==
    LET s == proc[c].snap IN
    /\ proc[c].pc = "publish"
    /\ PublishPayload(c)
    /\ proc' = [proc EXCEPT ![c] =
            Thread("batch", "none", NoSnapshot, proc[c].batch,
                   IF payload[s] = NoPayload THEN proc[c].inserted \cup {s}
                   ELSE proc[c].inserted)]
    /\ UNCHANGED <<created, retention, policy, lastCount, offered, faults>>

\* The deadline fires after COMMIT: run_with_timeout reports a failure, which
\* ends the pass, although the transaction is durable.
compact_snapshot_late(c) ==
    /\ proc[c].pc = "publish"
    /\ faults < MaxFaults
    /\ PublishPayload(c)
    /\ proc' = [proc EXCEPT ![c] = IdleProc]
    /\ faults' = faults + 1
    /\ UNCHANGED <<created, retention, policy, lastCount, offered>>

\* CHECKPOINT, then the status row of project_settings.
compact_finish(c) ==
    /\ proc[c].pc = "batch"
    /\ proc[c].batch = {}
    /\ lastCount' = Cardinality(proc[c].inserted)
    /\ proc' = [proc EXCEPT ![c] = IdleProc]
    /\ UNCHANGED <<created, retention, rows, payload, policy, offered, faults>>

-----------------------------------------------------------------------------
(* Readers *)

\* A query names an ingested snapshot (ids come from the snapshots table).
begin_read(r, call, s) ==
    /\ proc[r].pc = "idle"
    /\ created[s] # 0
    /\ proc' = [proc EXCEPT ![r] =
            Thread(IF call = "measurement_report" THEN "detail_payload" ELSE "rows",
                   call, s, {}, {})]
    /\ UNCHANGED <<store, faults>>

\* The table a row-first reader looks at before it falls back to the payload.
FirstTable(call) ==
    IF call = "files" THEN "files"
    ELSE IF call = "lines_all" THEN "lines" ELSE "test_names"

\* Mutation: no rows is taken for an empty snapshot.
read_rows_no_fallback(r) ==
    LET me == proc[r]
        t == FirstTable(me.call)
    IN
    /\ me.pc = "rows"
    /\ proc' = [proc EXCEPT ![r] =
            Advance(me, "done", me.step, [me.read EXCEPT ![t] = rows[me.snap][t]])]
    /\ UNCHANGED <<store, faults>>

\* files, lines_all, file_coverage, lines: non-empty rows are the answer;
\* test_observation_sets goes on to read the observations.
read_rows(r) ==
    LET me == proc[r]
        t == FirstTable(me.call)
        found == rows[me.snap][t]
    IN
    /\ me.pc = "rows"
    /\ proc' = [proc EXCEPT ![r] =
            Advance(me, IF found = {} THEN "compacted_detail"
                        ELSE IF me.call = "test_observation_sets" THEN "observations"
                        ELSE "done",
                    me.step, [me.read EXCEPT ![t] = found])]
    /\ UNCHANGED <<store, faults>>

read_observations(r) ==
    LET me == proc[r] IN
    /\ me.pc = "observations"
    /\ proc' = [proc EXCEPT ![r] =
            Advance(me, "done", me.step,
                    [me.read EXCEPT !["test_coverage"] = rows[me.snap]["test_coverage"]])]
    /\ UNCHANGED <<store, faults>>

\* Mutation: the payload is used only when no row was read before it.
compacted_detail_rows_first(r) ==
    LET me == proc[r] IN
    /\ me.pc = "compacted_detail"
    /\ proc' = [proc EXCEPT ![r] =
            Advance(me, "done", me.step,
                    IF payload[me.snap] = NoPayload \/ me.read # EmptyDetail
                    THEN me.read ELSE payload[me.snap])]
    /\ UNCHANGED <<store, faults>>

\* A payload replaces whatever rows were read before it.
compacted_detail(r) ==
    LET me == proc[r] IN
    /\ me.pc = "compacted_detail"
    /\ proc' = [proc EXCEPT ![r] =
            Advance(me, "done", me.step,
                    IF payload[me.snap] = NoPayload THEN me.read ELSE payload[me.snap])]
    /\ UNCHANGED <<store, faults>>

finish_read(r) ==
    /\ proc[r].pc = "done"
    /\ proc' = [proc EXCEPT ![r] = IdleProc]
    /\ UNCHANGED <<store, faults>>

-----------------------------------------------------------------------------
(* Faults *)

\* A query or transaction fails or times out before commit; `?` ends the call.
fail_operation(p) ==
    /\ faults < MaxFaults
    /\ proc[p].pc \in {"batch", "detail_payload", "publish", "rows", "observations",
                       "compacted_detail"}
    /\ proc' = [proc EXCEPT ![p] = IdleProc]
    /\ faults' = faults + 1
    /\ UNCHANGED store

\* The process ends and a new one opens the same database.
restart ==
    /\ faults < MaxFaults
    /\ proc # [p \in Procs |-> IdleProc]
    /\ proc' = [p \in Procs |-> IdleProc]
    /\ faults' = faults + 1
    /\ UNCHANGED store

-----------------------------------------------------------------------------
Compact(c) ==
    \/ compact_project(c)
    \/ compact_next(c)
    \/ detail_payload(c)
    \/ compact_snapshot_detail(c)
    \/ compact_finish(c)

Read(r) ==
    \/ \E call \in Calls \ {"none"}, s \in Snapshots : begin_read(r, call, s)
    \/ read_rows(r)
    \/ read_observations(r)
    \/ detail_payload(r)
    \/ compacted_detail(r)
    \/ finish_read(r)

Environment ==
    \/ \E s \in Snapshots, r \in Retentions : store_report(s, r)
    \/ \E s \in Snapshots, r \in Retentions : set_snapshot_detail_retention(s, r)
    \/ \E e \in BOOLEAN, n \in 1..(Cardinality(Ingested) + 1) : update_project_settings(e, n)
    \/ \E c \in Compactors : compact_snapshot_late(c)
    \/ \E p \in Procs : fail_operation(p)
    \/ restart

Next ==
    \/ \E c \in Compactors : Compact(c)
    \/ \E r \in Readers : Read(r)
    \/ Environment

Spec == Init /\ [][Next]_vars

\* The background thread loops for as long as the store is open, so each of its
\* steps is eventually taken; nothing else is promised progress.
FairSpec == Spec /\ WF_vars(Compact(Worker))

-----------------------------------------------------------------------------
(* Properties *)

\* Every variable keeps its type.
TypeOK ==
    /\ created \in [Snapshots -> Nat]
    /\ retention \in [Snapshots -> Retentions]
    /\ rows \in [Snapshots -> Detail]
    /\ payload \in [Snapshots -> Detail \cup {NoPayload}]
    /\ policy \in [enabled : BOOLEAN, cutoff : Nat]
    /\ lastCount \in Nat
    /\ proc \in [Procs -> ProcState]
    /\ offered \in SUBSET Snapshots
    /\ faults \in 0..MaxFaults

\* Compaction loses nothing and duplicates nothing: the detail of an ingested
\* snapshot is exactly its report and lives either in the relational tables or
\* in the payload, whatever two racing passes read before they published.
DetailIntact ==
    \A s \in Ingested :
        \/ payload[s] = NoPayload /\ rows[s] = Report[s]
        \/ payload[s] = Report[s] /\ rows[s] = EmptyDetail

\* The tables a query call answers from.
Fields(call) ==
    IF call = "measurement_report" THEN {"files", "lines"}
    ELSE IF call = "files" THEN {"files"}
    ELSE IF call = "lines_all" THEN {"lines"}
    ELSE {"test_names", "test_coverage"}

\* A detail query that returns has the complete rows of the report even when a
\* compactor moved them between two of its reads (measurement_report, files and
\* lines_all; test_observation_sets is the subject of the next two properties).
ReadsComplete ==
    \A r \in Readers :
        /\ proc[r].pc = "done"
        /\ proc[r].call # "test_observation_sets"
        => \A t \in Fields(proc[r].call) : proc[r].read[t] = Report[proc[r].snap][t]

\* test_observation_sets never loses a test name, and what it returns as
\* observations is either all of them or none.
ObservationsAllOrNone ==
    \A r \in Readers :
        proc[r].pc = "done" /\ proc[r].call = "test_observation_sets" =>
            /\ proc[r].read["test_names"] = Report[proc[r].snap]["test_names"]
            /\ proc[r].read["test_coverage"] \in {Report[proc[r].snap]["test_coverage"], {}}

\* docs/operations.md: compaction "restores complete ordinary detail
\* transparently", and named observations are preserved through it, so
\* test_observation_sets returns all observations of the names it returns.
ObservationsComplete ==
    \A r \in Readers :
        proc[r].pc = "done" /\ proc[r].call = "test_observation_sets" =>
            proc[r].read["test_coverage"] = Report[proc[r].snap]["test_coverage"]

\* A snapshot that has been an incremental baseline ever since it was ingested
\* is never compacted, whichever pass runs with whatever policy.
BaselinesKept == \A s \in Snapshots : payload[s] # NoPayload => s \in offered

\* Payloads are immutable: no later pass, restart or retention change replaces
\* or removes what one transaction published.
PayloadsImmutable ==
    [][\A s \in Snapshots : payload[s] # NoPayload => payload'[s] = payload[s]]_vars

\* compacted_snapshots counts a snapshot in at most one of two racing passes.
CountedOnce ==
    \A c, d \in Compactors : c # d => proc[c].inserted \cap proc[d].inserted = {}

\* The background worker reaches every old compactable snapshot, also when each
\* pass is limited to BatchSize and other passes race with it.
EventuallyCompacted ==
    \A s \in Snapshots :
        <>[](policy.enabled /\ created[s] # 0 /\ created[s] < policy.cutoff
                /\ retention[s] = "compactable")
            => <>(payload[s] # NoPayload)

-----------------------------------------------------------------------------
(* The inductive invariant behind the safety properties *)

\* What a thread has read so far is the report's, unless the snapshot has been
\* compacted meanwhile; a thread may act on a torn read only in the latter case.
ProcInv(p) ==
    LET me == proc[p]
        uncompacted == payload[me.snap] = NoPayload
        right(t) == me.read[t] = Report[me.snap][t]
    IN
    /\ me.batch \subseteq Ingested \cap offered
    /\ me.inserted \subseteq {s \in Snapshots : payload[s] # NoPayload}
    /\ me.pc \notin {"idle", "batch"} => me.snap \in Ingested
    /\ p \in Compactors =>
        /\ me.pc \in {"idle", "batch", "detail_payload", "publish"}
        /\ me.pc \in {"detail_payload", "publish"} => me.snap \in offered
    /\ p \in Readers =>
        /\ me.pc \notin {"batch", "publish"}
        /\ me.inserted = {}
        /\ me.pc = "detail_payload" => me.call = "measurement_report"
        /\ me.pc = "rows" => /\ me.call \in {"files", "lines_all", "test_observation_sets"}
                            /\ me.read = EmptyDetail
        /\ me.pc = "observations" => me.call = "test_observation_sets" /\ right("test_names")
    /\ me.pc = "detail_payload" /\ uncompacted =>
        \A i \in 1..4 : i < me.step => right(TableOrder[i])
    /\ me.pc = "publish" /\ uncompacted => me.read = Report[me.snap]
    /\ me.pc = "compacted_detail" =>
        /\ me.call \in Calls \ {"none"}
        /\ uncompacted /\ me.call # "test_observation_sets" =>
                \A t \in Fields(me.call) : right(t)
        /\ uncompacted /\ me.call = "test_observation_sets" =>
                right("test_names") /\ me.read["test_coverage"] = {}

IInv ==
    /\ TypeOK
    /\ DetailIntact
    /\ \A s \in Snapshots : created[s] = 0 => payload[s] = NoPayload
    /\ \A s \in Ingested : retention[s] = "compactable" => s \in offered
    /\ BaselinesKept
    /\ CountedOnce
    /\ \A p \in Procs : ProcInv(p)
    /\ ReadsComplete
    /\ ObservationsAllOrNone

-----------------------------------------------------------------------------
\* Refinement: the detail of a snapshot, wherever it is kept.
DetailOf(s) ==
    IF created[s] = 0 THEN NoPayload
    ELSE IF payload[s] # NoPayload THEN payload[s] ELSE rows[s]

DetailMap == [s \in Snapshots |-> DetailOf(s)]

Abstract == INSTANCE SnapshotStore WITH NoDetail <- NoPayload, detail <- DetailMap

\* Ingestion, compaction, retention changes and restarts implement a store in
\* which a report is written once and its detail never changes.
AbstractSpec == Abstract!Spec
==============================================================================
