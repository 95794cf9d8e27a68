---------------------------- MODULE RunLifecycle ----------------------------
(***************************************************************************)
(* Managed runs of a registered command (src/storage.rs): submission with  *)
(* an idempotency key, the worker thread that waits for a slot, claims the *)
(* job and drives a child process, cancellation, retention, shutdown, and  *)
(* the reconciliation done when the database is opened again.              *)
(*                                                                         *)
(* An action is one critical section: one use of the database connection   *)
(* (the write gate makes it exclusive), one use of the slot mutex, or one  *)
(* system call on the child.  Runs are those of one registered command.    *)
(***************************************************************************)
EXTENDS Naturals, FiniteSets

CONSTANTS
    Runs,           \* run ids
    NoRun,          \* a client that works on no run
    Keys,           \* idempotency keys
    NoKey,          \* a submission without one
    Clients,        \* threads that submit and cancel
    RunConcurrency, \* run_concurrency
    RunRetention,   \* run_retention
    Timed,          \* the runs submitted with timeout_seconds
    MaxFaults       \* bound: failed operations plus restarts

ASSUME RunAssumption ==
    /\ IsFiniteSet(Runs)
    /\ NoRun \notin Runs
    /\ NoKey \notin Keys
    /\ RunConcurrency \in Nat \ {0}
    /\ RunRetention \in Nat \ {0}
    /\ Timed \subseteq Runs
    /\ MaxFaults \in Nat

VARIABLES
    job,         \* run_jobs.status, "none" without a row
    requested,   \* run_jobs with cancellation_requested_at set
    runs,        \* runs.status, "none" without a row
    key,         \* idempotency_key of the rows of both tables
    startedAt,   \* order of runs.started_at, 0 before the claim
    pc,          \* where the worker thread of each run is
    outcome,     \* the status it will persist
    victims,     \* the runs it is about to prune
    child,       \* the managed process
    expired,     \* runs whose timeout has elapsed
    active,      \* slots.0
    retained,    \* run_threads
    closer,      \* where close() is; "open" before it
    pending,     \* what close() still works through, or joined
    client,      \* local state of the clients
    ingested,    \* runs whose coverage artifacts became snapshots
    launches,    \* ghost: processes spawned for each run, ever
    legacy,      \* ghost: jobs the last open found
    faults       \* failed operations plus restarts so far

tables == <<job, requested, runs, key, startedAt, ingested>>
threads == <<pc, outcome, victims, active>>
processes == <<child, expired, launches>>
shutdown == <<retained, closer, pending>>
history == <<legacy, faults>>
vars == <<tables, threads, processes, shutdown, client, history>>

Live == {"queued", "running"}
JobStatus == {"none", "queued", "running", "cancelled", "failed", "interrupted"}
Outcomes == {"passed", "failed", "cancelled", "timeout"}
RunStatus == {"none"} \cup Outcomes
\* Worker locations that hold a slot, that have a registered process, and that
\* fail once the store is closing because they need an open connection.
Registered == {"poll", "cancellation", "finish"}
Database == {"job", "claim", "command", "cancellation", "collect", "persist", "prune",
             "delete"}
Executing == Database \cup Registered \cup {"spawn", "register"}
Holding == Executing \cup {"release", "release_error"}
Locations == Holding \cup {"none", "slots", "parking", "parked", "finalize", "ended"}
Children == {"none", "alive", "ok", "bad", "killed"}
Closers == {"open", "notify", "terminate", "join", "joining", "idle", "closed"}

Client(at, run, k, seen) == [pc |-> at, run |-> run, key |-> k, seen |-> seen]
IdleClient == Client("idle", NoRun, NoKey, "none")
ClientState == [pc : {"idle", "insert", "start", "retain", "cancel_job", "cancel_write"},
                run : Runs \cup {NoRun}, key : Keys \cup {NoKey}, seen : JobStatus]

Init ==
    /\ job = [r \in Runs |-> "none"]
    /\ requested = {}
    /\ runs = [r \in Runs |-> "none"]
    /\ key = [r \in Runs |-> NoKey]
    /\ startedAt = [r \in Runs |-> 0]
    /\ pc = [r \in Runs |-> "none"]
    /\ outcome = [r \in Runs |-> "failed"]
    /\ victims = [r \in Runs |-> {}]
    /\ child = [r \in Runs |-> "none"]
    /\ expired = {}
    /\ active = 0
    /\ retained = {}
    /\ closer = "open"
    /\ pending = {}
    /\ client = [c \in Clients |-> IdleClient]
    /\ ingested = {}
    /\ launches = [r \in Runs |-> 0]
    /\ legacy = {}
    /\ faults = 0

closing == closer # "open"
\* The slot mutex is held between the test of the counter and the wait.
SlotMutexFree == \A r \in Runs : pc[r] # "parking"
Rows(r) == job[r] # "none" \/ runs[r] # "none"
\* Run ids are new: one that any thread or table ever knew is not used again.
Fresh(r) == ~Rows(r) /\ startedAt[r] = 0 /\ pc[r] = "none"

-----------------------------------------------------------------------------
(* Clients *)

\* Mutation: the lookup forgets the runs table.
submit_lookup_jobs_only(c, k) ==
    /\ client[c].pc = "idle"
    /\ ~closing
    /\ k # NoKey => \A r \in Runs : job[r] # "none" => key[r] # k
    /\ client' = [client EXCEPT ![c] = Client("insert", NoRun, k, "none")]
    /\ UNCHANGED <<tables, threads, processes, shutdown, history>>

\* idempotent_run_id.  A submission that finds a row returns that run and
\* changes nothing, so only the one that finds none goes on.
submit_lookup(c, k) ==
    /\ client[c].pc = "idle"
    /\ ~closing
    /\ k # NoKey => \A r \in Runs : Rows(r) => key[r] # k
    /\ client' = [client EXCEPT ![c] = Client("insert", NoRun, k, "none")]
    /\ UNCHANGED <<tables, threads, processes, shutdown, history>>

\* The three INSERTs of a submission commit one by one: when a later one fails
\* the queued row stays and no worker is started for it.
submit_insert(c, r) ==
    /\ client[c].pc = "insert"
    /\ ~closing
    /\ Fresh(r)
    /\ job' = [job EXCEPT ![r] = "queued"]
    /\ key' = [key EXCEPT ![r] = client[c].key]
    /\ \/ /\ client' = [client EXCEPT ![c] = Client("start", r, NoKey, "none")]
          /\ UNCHANGED faults
       \/ /\ faults < MaxFaults
          /\ faults' = faults + 1
          /\ client' = [client EXCEPT ![c] = IdleClient]
    /\ UNCHANGED <<requested, runs, startedAt, ingested, threads, processes, shutdown,
                   legacy>>

\* The thread runs before its handle is kept where close() finds it.
start_run_worker(c) ==
    LET r == client[c].run IN
    /\ client[c].pc = "start"
    /\ pc' = [pc EXCEPT ![r] = "slots"]
    /\ client' = [client EXCEPT ![c] = Client("retain", r, NoKey, "none")]
    /\ UNCHANGED <<tables, outcome, victims, active, processes, shutdown, history>>

\* The thread could not be spawned: the job is finalized by the client.
start_run_worker_fails(c) ==
    LET r == client[c].run IN
    /\ client[c].pc = "start"
    /\ faults < MaxFaults
    /\ job' = IF closer # "closed" /\ job[r] \in Live
              THEN [job EXCEPT ![r] = "failed"] ELSE job
    /\ faults' = faults + 1
    /\ client' = [client EXCEPT ![c] = IdleClient]
    /\ UNCHANGED <<requested, runs, key, startedAt, ingested, threads, processes, shutdown,
                   legacy>>

\* close() holds run_threads while it joins.
retain_run_thread(c) ==
    /\ client[c].pc = "retain"
    /\ closer # "joining"
    /\ retained' = retained \cup {client[c].run}
    /\ client' = [client EXCEPT ![c] = IdleClient]
    /\ UNCHANGED <<tables, threads, processes, closer, pending, history>>

\* Any client operation that finds the store closing returns an error.
client_refused(c) ==
    /\ client[c].pc \in {"insert", "cancel_job", "cancel_write"}
    /\ closing
    /\ client' = [client EXCEPT ![c] = IdleClient]
    /\ UNCHANGED <<tables, threads, processes, shutdown, history>>

\* cancel_run uses the connection three times: no runs row, a live job row,
\* then a write that depends on the status it read and not on the row's.
cancel_run(c, r) ==
    /\ client[c].pc = "idle"
    /\ ~closing
    /\ job[r] # "none"
    /\ runs[r] = "none"
    /\ client' = [client EXCEPT ![c] = Client("cancel_job", r, NoKey, "none")]
    /\ UNCHANGED <<tables, threads, processes, shutdown, history>>

cancel_job(c) ==
    LET r == client[c].run IN
    /\ client[c].pc = "cancel_job"
    /\ ~closing
    /\ client' = [client EXCEPT ![c] =
            IF job[r] \in Live THEN Client("cancel_write", r, NoKey, job[r]) ELSE IdleClient]
    /\ UNCHANGED <<tables, threads, processes, shutdown, history>>

cancel_write(c) ==
    LET r == client[c].run IN
    /\ client[c].pc = "cancel_write"
    /\ ~closing
    /\ job' = IF job[r] # "none" /\ client[c].seen = "queued"
              THEN [job EXCEPT ![r] = "cancelled"] ELSE job
    /\ requested' = IF job[r] # "none" THEN requested \cup {r} ELSE requested
    /\ client' = [client EXCEPT ![c] = IdleClient]
    /\ UNCHANGED <<runs, key, startedAt, ingested, threads, processes, shutdown, history>>

-----------------------------------------------------------------------------
(* The worker thread of run r *)

Goto(r, at) == pc' = [pc EXCEPT ![r] = at]

\* Mutation: off by one in the test of the slot counter.
execute_run_one_more(r) ==
    /\ pc[r] = "slots"
    /\ SlotMutexFree
    /\ \/ closing /\ Goto(r, "finalize") /\ UNCHANGED active
       \/ ~closing /\ active <= RunConcurrency /\ Goto(r, "job") /\ active' = active + 1
    /\ UNCHANGED <<tables, outcome, victims, processes, shutdown, client, history>>

\* execute_run under the slot mutex: leave, take a slot, or prepare to wait.
execute_run(r) ==
    /\ pc[r] = "slots"
    /\ SlotMutexFree
    /\ \/ closing /\ Goto(r, "finalize") /\ UNCHANGED active
       \/ ~closing /\ active < RunConcurrency /\ Goto(r, "job") /\ active' = active + 1
       \/ ~closing /\ active >= RunConcurrency /\ Goto(r, "parking") /\ UNCHANGED active
    /\ UNCHANGED <<tables, outcome, victims, processes, shutdown, client, history>>

\* Condvar::wait releases the mutex and sleeps; close() may notify before it.
slot_wait(r) ==
    /\ pc[r] = "parking"
    /\ Goto(r, "parked")
    /\ UNCHANGED <<tables, outcome, victims, active, processes, shutdown, client, history>>

\* The job is read, then claimed by a conditional UPDATE, on two connections.
execute_run_with_slot(r) ==
    /\ pc[r] = "job"
    /\ ~closing
    /\ Goto(r, IF job[r] = "queued" THEN "claim" ELSE "release")
    /\ UNCHANGED <<tables, outcome, victims, active, processes, shutdown, client, history>>

claim_run(r) ==
    /\ pc[r] = "claim"
    /\ ~closing
    /\ IF job[r] = "queued"
       THEN /\ job' = [job EXCEPT ![r] = "running"]
            /\ startedAt' = [startedAt EXCEPT ![r] =
                    1 + Cardinality({o \in Runs : startedAt[o] # 0})]
            /\ Goto(r, "command")
       ELSE /\ Goto(r, "release")
            /\ UNCHANGED <<job, startedAt>>
    /\ UNCHANGED <<requested, runs, key, ingested, outcome, victims, active, processes,
                   shutdown, client, history>>

registered_command(r) ==
    /\ pc[r] = "command"
    /\ ~closing
    /\ Goto(r, "spawn")
    /\ UNCHANGED <<tables, outcome, victims, active, processes, shutdown, client, history>>

spawn_child(r) ==
    /\ pc[r] = "spawn"
    /\ child' = [child EXCEPT ![r] = "alive"]
    /\ launches' = [launches EXCEPT ![r] = @ + 1]
    /\ Goto(r, "register")
    /\ UNCHANGED <<tables, outcome, victims, active, expired, shutdown, client, history>>

\* From here close() can find the process and the guard will reap it.
register_process(r) ==
    /\ pc[r] = "register"
    /\ Goto(r, "poll")
    /\ UNCHANGED <<tables, outcome, victims, active, processes, shutdown, client, history>>

try_wait(r) ==
    /\ pc[r] = "poll"
    /\ outcome' = [outcome EXCEPT ![r] = IF child[r] = "ok" THEN "passed" ELSE "failed"]
    /\ Goto(r, IF child[r] = "alive" THEN "cancellation" ELSE "finish")
    /\ UNCHANGED <<tables, victims, active, processes, shutdown, client, history>>

Kill(r) == child' = IF child[r] = "alive" THEN [child EXCEPT ![r] = "killed"] ELSE child

\* Mutation: the row is not asked.
cancellation_ignores_request(r) ==
    /\ pc[r] = "cancellation"
    /\ IF closing
       THEN Kill(r) /\ Goto(r, "finish")
       ELSE Goto(r, "poll") /\ UNCHANGED child
    /\ UNCHANGED <<tables, outcome, victims, active, expired, launches, shutdown, client,
                   history>>

\* Mutation: the shutdown flag is not asked.
cancellation_ignores_closing(r) ==
    /\ pc[r] = "cancellation"
    /\ IF r \in requested
       THEN Kill(r) /\ Goto(r, "finish")
       ELSE Goto(r, "poll") /\ UNCHANGED child
    /\ UNCHANGED <<tables, outcome, victims, active, expired, launches, shutdown, client,
                   history>>

\* The control mutex is held since try_wait.  Shutdown counts as a request.
cancellation_state(r) ==
    /\ pc[r] = "cancellation"
    /\ IF closing \/ r \in requested \/ r \in expired
       THEN /\ outcome' = [outcome EXCEPT ![r] =
                    IF closing \/ r \in requested THEN "cancelled" ELSE "timeout"]
            /\ Kill(r)
            /\ Goto(r, "finish")
       ELSE /\ Goto(r, "poll")
            /\ UNCHANGED <<outcome, child>>
    /\ UNCHANGED <<tables, victims, active, expired, launches, shutdown, client, history>>

\* ManagedRunGuard::finish: kill what is left, join the captures, unregister.
finish_resources(r) ==
    /\ pc[r] = "finish"
    /\ Kill(r)
    /\ Goto(r, "collect")
    /\ UNCHANGED <<tables, outcome, victims, active, expired, launches, shutdown, client,
                   history>>

\* Mutation: the reports of any run are eligible.
collect_artifacts_any(r) ==
    /\ pc[r] = "collect"
    /\ ~closing
    /\ ingested' = ingested \cup {r}
    /\ Goto(r, "persist")
    /\ UNCHANGED <<job, requested, runs, key, startedAt, outcome, victims, active, processes,
                   shutdown, client, history>>

\* A report that is missing, stale or unreadable is recorded and not ingested;
\* only a passed run is eligible.
collect_artifacts(r) ==
    /\ pc[r] = "collect"
    /\ ~closing
    /\ \/ outcome[r] = "passed" /\ ingested' = ingested \cup {r}
       \/ UNCHANGED ingested
    /\ Goto(r, "persist")
    /\ UNCHANGED <<job, requested, runs, key, startedAt, outcome, victims, active, processes,
                   shutdown, client, history>>

\* INSERT INTO runs, then DELETE FROM run_jobs, without a transaction: the
\* second disjunct is the failure that leaves both rows.
persist_completed_run(r) ==
    /\ pc[r] = "persist"
    /\ ~closing
    /\ runs' = [runs EXCEPT ![r] = outcome[r]]
    /\ \/ /\ job' = [job EXCEPT ![r] = "none"]
          /\ requested' = requested \ {r}
          /\ Goto(r, "prune")
          /\ UNCHANGED faults
       \/ /\ faults < MaxFaults
          /\ faults' = faults + 1
          /\ Goto(r, "release_error")
          /\ UNCHANGED <<job, requested>>
    /\ UNCHANGED <<key, startedAt, ingested, outcome, victims, active, processes, shutdown,
                   client, legacy>>

Newer(r) == {o \in Runs : runs[o] # "none" /\ startedAt[o] > startedAt[r]}

\* Mutation: the oldest rows are kept.
query_pruned_newest(r) ==
    /\ pc[r] = "prune"
    /\ ~closing
    /\ victims' = [victims EXCEPT ![r] =
            {o \in Runs : runs[o] # "none" /\ Cardinality(Newer(o)) < RunRetention}]
    /\ Goto(r, "delete")
    /\ UNCHANGED <<tables, outcome, active, processes, shutdown, client, history>>

\* ORDER BY started_at DESC OFFSET run_retention
query_pruned_run_ids(r) ==
    /\ pc[r] = "prune"
    /\ ~closing
    /\ victims' = [victims EXCEPT ![r] =
            {o \in Runs : runs[o] # "none" /\ Cardinality(Newer(o)) >= RunRetention}]
    /\ Goto(r, "delete")
    /\ UNCHANGED <<tables, outcome, active, processes, shutdown, client, history>>

prune_runs(r) ==
    /\ pc[r] = "delete"
    /\ ~closing
    /\ runs' = [o \in Runs |-> IF o \in victims[r] THEN "none" ELSE runs[o]]
    /\ victims' = [victims EXCEPT ![r] = {}]
    /\ Goto(r, "release")
    /\ UNCHANGED <<job, requested, key, startedAt, ingested, outcome, active, processes,
                   shutdown, client, history>>

\* Any other error on the way, or a connection refused by the shutdown: the
\* guard kills and unregisters the process and the slot is given back.
run_error(r) ==
    /\ pc[r] \in Executing
    /\ \/ pc[r] \in Database /\ closing /\ UNCHANGED faults
       \/ faults < MaxFaults /\ faults' = faults + 1
    /\ Kill(r)
    /\ victims' = [victims EXCEPT ![r] = {}]
    /\ Goto(r, "release_error")
    /\ UNCHANGED <<tables, outcome, active, expired, launches, shutdown, client, legacy>>

\* Mutation: no worker is woken.
release_run_slot_silent(r) ==
    /\ pc[r] \in {"release", "release_error"}
    /\ SlotMutexFree
    /\ active' = active - 1
    /\ Goto(r, IF pc[r] = "release" THEN "ended" ELSE "finalize")
    /\ UNCHANGED <<tables, outcome, victims, processes, shutdown, client, history>>

\* notify_one wakes one sleeping worker, if there is one.
release_run_slot(r) ==
    LET next == IF pc[r] = "release" THEN "ended" ELSE "finalize"
        parked == {o \in Runs : pc[o] = "parked"}
    IN
    /\ pc[r] \in {"release", "release_error"}
    /\ SlotMutexFree
    /\ active' = active - 1
    /\ IF parked = {}
       THEN Goto(r, next)
       ELSE \E o \in parked : pc' = [pc EXCEPT ![r] = next, ![o] = "slots"]
    /\ UNCHANGED <<tables, outcome, victims, processes, shutdown, client, history>>

\* Allowed while closing, impossible once the pool is gone, and logged when it
\* fails: then the row keeps its status.
finalize_failed_job(r) ==
    /\ pc[r] = "finalize"
    /\ Goto(r, "ended")
    /\ \/ /\ closer # "closed"
          /\ job' = IF job[r] \in Live THEN [job EXCEPT ![r] = "failed"] ELSE job
          /\ UNCHANGED faults
       \/ /\ closer = "closed"
          /\ UNCHANGED <<job, faults>>
       \/ /\ faults < MaxFaults
          /\ faults' = faults + 1
          /\ UNCHANGED job
    /\ UNCHANGED <<requested, runs, key, startedAt, ingested, outcome, victims, active,
                   processes, shutdown, client, legacy>>

-----------------------------------------------------------------------------
(* The managed process *)

child_exit(r, how) ==
    /\ child[r] = "alive"
    /\ child' = [child EXCEPT ![r] = how]
    /\ UNCHANGED <<tables, threads, expired, launches, shutdown, client, history>>

timeout_reached(r) ==
    /\ r \in Timed \ expired
    /\ pc[r] \in Registered
    /\ expired' = expired \cup {r}
    /\ UNCHANGED <<tables, threads, child, launches, shutdown, client, history>>

-----------------------------------------------------------------------------
(* close() and open() *)

close ==
    /\ closer = "open"
    /\ closer' = "notify"
    /\ UNCHANGED <<tables, threads, processes, retained, pending, client, history>>

\* notify_all, sent without the slot mutex.
notify_all ==
    /\ closer = "notify"
    /\ pc' = [r \in Runs |-> IF pc[r] = "parked" THEN "slots" ELSE pc[r]]
    /\ pending' = {r \in Runs : pc[r] \in Registered}
    /\ closer' = "terminate"
    /\ UNCHANGED <<tables, outcome, victims, active, processes, retained, client, history>>

\* The control mutex makes it wait for a worker between try_wait and the kill.
terminate_active_processes(r) ==
    /\ closer = "terminate"
    /\ r \in pending
    /\ pc[r] # "cancellation"
    /\ Kill(r)
    /\ pending' = pending \ {r}
    /\ UNCHANGED <<tables, threads, expired, launches, retained, closer, client, history>>

drain_run_threads ==
    /\ closer = "terminate"
    /\ pending = {}
    /\ closer' = "joining"
    /\ pending' = retained
    /\ retained' = {}
    /\ UNCHANGED <<tables, threads, processes, client, history>>

\* Mutation: the handles are dropped instead of joined.
join_workers_detached ==
    /\ closer = "joining"
    /\ closer' = "idle"
    /\ UNCHANGED <<tables, threads, processes, retained, pending, client, history>>

join_workers ==
    /\ closer = "joining"
    /\ \A r \in pending : pc[r] = "ended"
    /\ closer' = "idle"
    /\ UNCHANGED <<tables, threads, processes, retained, pending, client, history>>

\* The pool is dropped and the database lease released.
take_pool ==
    /\ closer = "idle"
    /\ closer' = "closed"
    /\ UNCHANGED <<tables, threads, processes, retained, pending, client, history>>

\* Mutation: unfinished jobs are queued again and resumed.
open_resumes ==
    /\ faults < MaxFaults
    /\ faults' = faults + 1
    /\ job' = [r \in Runs |-> IF job[r] \in Live THEN "queued" ELSE job[r]]
    /\ legacy' = {r \in Runs : job[r] # "none"}
    /\ pc' = [r \in Runs |-> IF job[r] \in Live THEN "slots"
                             ELSE IF pc[r] = "none" THEN "none" ELSE "ended"]
    /\ outcome' = [r \in Runs |-> "failed"]
    /\ victims' = [r \in Runs |-> {}]
    /\ active' = 0
    /\ expired' = {}
    /\ retained' = {}
    /\ closer' = "open"
    /\ pending' = {}
    /\ client' = [c \in Clients |-> IdleClient]
    /\ UNCHANGED <<requested, runs, key, startedAt, ingested, child, launches>>

\* The process ends, at any point, and the database is opened by a new one:
\* unfinished jobs become interrupted and nothing is resumed.  A managed
\* process has a process group of its own and survives the crash.
open ==
    /\ faults < MaxFaults
    /\ faults' = faults + 1
    /\ job' = [r \in Runs |-> IF job[r] \in Live THEN "interrupted" ELSE job[r]]
    /\ legacy' = {r \in Runs : job[r] # "none"}
    /\ pc' = [r \in Runs |-> IF pc[r] = "none" THEN "none" ELSE "ended"]
    /\ outcome' = [r \in Runs |-> "failed"]
    /\ victims' = [r \in Runs |-> {}]
    /\ active' = 0
    /\ expired' = {}
    /\ retained' = {}
    /\ closer' = "open"
    /\ pending' = {}
    /\ client' = [c \in Clients |-> IdleClient]
    /\ UNCHANGED <<requested, runs, key, startedAt, ingested, child, launches>>

-----------------------------------------------------------------------------

Submit(c) ==
    \/ \E k \in Keys \cup {NoKey} : submit_lookup(c, k)
    \/ \E r \in Runs : submit_insert(c, r)
    \/ start_run_worker(c)
    \/ start_run_worker_fails(c)
    \/ retain_run_thread(c)
    \/ client_refused(c)

Cancel(c) ==
    \/ \E r \in Runs : cancel_run(c, r)
    \/ cancel_job(c)
    \/ cancel_write(c)

Claim(r) ==
    \/ execute_run(r)
    \/ slot_wait(r)
    \/ execute_run_with_slot(r)
    \/ claim_run(r)
    \/ registered_command(r)

Drive(r) ==
    \/ spawn_child(r)
    \/ register_process(r)
    \/ try_wait(r)
    \/ cancellation_state(r)
    \/ finish_resources(r)

Complete(r) ==
    \/ collect_artifacts(r)
    \/ persist_completed_run(r)
    \/ query_pruned_run_ids(r)
    \/ prune_runs(r)
    \/ run_error(r)
    \/ release_run_slot(r)
    \/ finalize_failed_job(r)

Worker(r) == Claim(r) \/ Drive(r) \/ Complete(r)

Shutdown ==
    \/ notify_all
    \/ \E r \in Runs : terminate_active_processes(r)
    \/ drain_run_threads
    \/ join_workers
    \/ take_pool

Next ==
    \/ \E c \in Clients : Submit(c) \/ Cancel(c)
    \/ \E r \in Runs :
        \/ Worker(r)
        \/ \E how \in {"ok", "bad"} : child_exit(r, how)
        \/ timeout_reached(r)
    \/ close
    \/ Shutdown
    \/ open

Spec == Init /\ [][Next]_vars

\* Threads are scheduled, the client thread that has inserted a job starts its
\* worker, and clocks advance.  Nothing makes a process exit, a client call,
\* anyone close the store, or a lock be handed out in any order.
FairSpec ==
    /\ Spec
    /\ \A r \in Runs : WF_vars(Worker(r))
    /\ \A r \in Timed : WF_vars(timeout_reached(r))
    /\ \A c \in Clients :
        WF_vars(start_run_worker(c) \/ retain_run_thread(c) \/ client_refused(c))
    /\ WF_vars(Shutdown)

-----------------------------------------------------------------------------
(* Properties *)

\* Every variable keeps its type.
TypeOK ==
    /\ job \in [Runs -> JobStatus]
    /\ requested \subseteq Runs
    /\ runs \in [Runs -> RunStatus]
    /\ key \in [Runs -> Keys \cup {NoKey}]
    /\ startedAt \in [Runs -> Nat]
    /\ pc \in [Runs -> Locations]
    /\ outcome \in [Runs -> Outcomes]
    /\ victims \in [Runs -> SUBSET Runs]
    /\ child \in [Runs -> Children]
    /\ expired \subseteq Timed
    /\ active \in Nat
    /\ retained \subseteq Runs
    /\ closer \in Closers
    /\ pending \subseteq Runs
    /\ client \in [Clients -> ClientState]
    /\ ingested \subseteq Runs
    /\ launches \in [Runs -> Nat]
    /\ legacy \subseteq Runs
    /\ faults \in 0..MaxFaults

\* The slot counter of execute_run and release_run_slot is the number of
\* workers between the two, on every error and shutdown path, and never
\* exceeds run_concurrency.
SlotsAccounted ==
    /\ active = Cardinality({r \in Runs : pc[r] \in Holding})
    /\ active <= RunConcurrency

\* claim_run lets the command of a run be executed at most once, whatever is
\* cancelled, retried, closed or restarted around it.
LaunchedOnce == \A r \in Runs : launches[r] <= 1

\* "opening storage never executes them": a job that open() finds in run_jobs
\* is never launched afterwards.
OpenNeverExecutes == [][\A r \in legacy : launches'[r] = launches[r]]_vars

\* A run recorded as passed, and every run whose coverage was ingested, had a
\* process that exited with success: no kill by cancellation, timeout, error
\* cleanup or shutdown is taken for one.
SuccessIsReal ==
    \A r \in Runs : runs[r] = "passed" \/ r \in ingested => child[r] = "ok"

\* When close() drops the pool and the lease, every worker whose handle it
\* found has ended and left no process behind.
JoinedWorkersStopped ==
    closer \in {"idle", "closed"} =>
        \A r \in pending : pc[r] = "ended" /\ child[r] # "alive"

\* prune_runs works on ids that were read earlier: it still only removes runs
\* that have run_retention newer ones.
PruneKeepsNewest ==
    [][\A r \in Runs : runs[r] # "none" /\ runs'[r] = "none"
            => Cardinality(Newer(r)) >= RunRetention]_vars

\* What run_result reports: the job row first.
Reported(r) == IF job[r] # "none" THEN job[r] ELSE runs[r]

\* A run whose worker thread was started reaches a terminal status, unless the
\* store is closed or a process without a timeout keeps its slot: no lost
\* wake-up of the slot condition variable, no slot leak and no failed step
\* leaves it queued or running for ever.
RunsSettle ==
    \A r \in Runs :
        pc[r] = "slots" ~> \/ Reported(r) \notin Live
                           \/ closer = "closed"
                           \/ \E q \in Runs \ Timed : child[q] = "alive"

\* close() is never blocked for ever by the workers it joins, by a process
\* that does not exit or by the notification it sends without the slot mutex.
CloseCompletes == closer = "notify" ~> closer \in {"closed", "open"}

\* A cancellation written to the job row stops the process that runs when it
\* has no timeout and might never exit.
CancelStops ==
    \A r \in Runs \ Timed :
        (r \in requested /\ pc[r] \in Registered)
            ~> (child[r] # "alive" \/ pc[r] \notin Registered)

\* Submissions that follow one another and repeat an idempotency key get the
\* run they name: no two rows have the same key, whether the first run is
\* queued, failed half way, finished or was found by a restart.  Submissions
\* that overlap may both insert: nothing ties the lookup to the INSERT.
OneRunPerKey ==
    (\A c, d \in Clients : c = d) =>
        \A r, o \in Runs : key[r] # NoKey /\ key[r] = key[o] /\ Rows(r) /\ Rows(o) => r = o

-----------------------------------------------------------------------------
(* The inductive invariant behind the safety properties *)

\* Worker locations before the process exists, with a process that may be
\* alive, and with a row in run_jobs.
PreSpawn == {"slots", "parking", "parked", "job", "claim", "command", "spawn"}
WithChild == {"register", "poll", "cancellation", "finish"}
WithJob == PreSpawn \cup WithChild \cup {"collect", "persist"}
Starting(c) == client[c].pc \in {"start", "retain"}

RunInv(r) ==
    /\ pc[r] \in PreSpawn \cup {"none"} => child[r] = "none" /\ launches[r] = 0
    /\ pc[r] \in WithJob => job[r] # "none"
    /\ outcome[r] = "passed" => child[r] = "ok"
    /\ runs[r] = "passed" \/ r \in ingested => child[r] = "ok"
    /\ child[r] = "alive" /\ r \notin legacy => pc[r] \in WithChild
    /\ launches[r] <= 1

\* A job found by open() keeps its row and is out of reach of every thread.
LegacyInv(r) ==
    /\ job[r] # "none"
    /\ pc[r] \in {"none", "ended"}
    /\ r \notin retained \cup pending
    /\ \A c \in Clients : Starting(c) => client[c].run # r

ClientInv(c) ==
    /\ client[c].pc \notin {"idle", "insert"} => client[c].run \in Runs
    /\ client[c].pc = "start" => job[client[c].run] # "none" /\ pc[client[c].run] = "none"
    /\ \A d \in Clients :
        c # d /\ client[c].pc = "start" /\ client[d].pc = "start" =>
            client[c].run # client[d].run

IInv ==
    /\ TypeOK
    /\ SlotsAccounted
    /\ \A r \in Runs : RunInv(r)
    /\ \A r \in legacy : LegacyInv(r)
    /\ \A c \in Clients : ClientInv(c)
    /\ closer \in {"idle", "closed"} => \A r \in pending : pc[r] = "ended"

\* What the only client found is still so when it inserts.
KeyInv ==
    /\ OneRunPerKey
    /\ (\A c, d \in Clients : c = d) =>
         \A c \in Clients : client[c].pc = "insert" /\ client[c].key # NoKey =>
           \A r \in Runs : Rows(r) => key[r] # client[c].key

\* Behind PruneKeepsNewest: a run with a row has been persisted, and the rows
\* a worker is about to prune keep run_retention newer ones.
Persisted == {"prune", "delete", "release", "release_error", "finalize", "ended"}

PruneInv ==
    /\ \A r \in Runs : runs[r] # "none" => pc[r] \in Persisted
    /\ \A r \in Runs : \A v \in victims[r] :
         pc[v] \in Persisted /\ Cardinality(Newer(v)) >= RunRetention
=============================================================================
