---------------------------- MODULE StoreSessions ----------------------------
(***************************************************************************)
(* The server's cache of repository stores (src/http.rs), the bounded      *)
(* connection pool with its query tracker and watchdog (src/pool.rs), and  *)
(* the opening, use and closing of a store (src/storage.rs).               *)
(*                                                                         *)
(* Handlers run on the runtime's threads, each store has a maintenance     *)
(* worker, and the server's task closes the stores once the listener has   *)
(* stopped.  A handler blocks its thread from the repository lookup on, so *)
(* the request deadline can only expire while it waits for a permit.       *)
(* Managed runs and their threads, which close() joins as well, are the    *)
(* subject of RunLifecycle.                                                *)
(***************************************************************************)
EXTENDS Naturals, FiniteSets

CONSTANTS
    Repos,      \* repository keys
    Requests,   \* HTTP requests, one handler each
    Kinds,      \* what they may be: MCP calls, REST calls, a project list
    Stores,     \* CoverageStore instances that may be opened
    Opened,     \* the stores that earlier requests opened, by repository
    PoolSize,   \* db_pool_size
    Permits,    \* mcp_http_concurrency
    MaxFaults,  \* bound: failures of git, of the database, elapsed deadlines
    None

Limited == {"mcp_read", "mcp_write"}
Writing == {"mcp_write", "rest_write"}

ASSUME SessionsAssumption ==
    /\ Kinds \subseteq Limited \cup Writing \cup {"rest_read", "list"}
    /\ IsFiniteSet(Requests) /\ IsFiniteSet(Stores)
    /\ Requests \cap Stores = {}
    /\ None \notin Repos \cup Requests \cup Stores
    /\ Opened \in [Repos -> Stores \cup {None}]
    /\ \A r, q \in Repos : Opened[r] = Opened[q] /\ Opened[r] # None => r = q
    /\ PoolSize \in Nat \ {0}
    /\ Permits \in Nat \ {0}
    /\ MaxFaults \in Nat

VARIABLES
    listener,    \* serving, then draining and closing stores, then stopped
    drained,     \* the stores that close_stores took from the cache
    pending,     \* those it has still to close
    closer,      \* the store that close() runs on
    closeStep,   \* where close() is
    shutdown,    \* the error that run() will return, if any
    cache,       \* stores
    openGate,    \* holder of store_open_gate
    storesLock,  \* holder of the stores mutex
    permits,     \* holders of an mcp_limiter permit
    lease,       \* the store that holds the lease of a repository's database
    repo,        \* the repository of a store, None before it is opened
    closing, pool, writer, active, conns,  \* StoreInner
    kind, target,   \* what a request asks, and of which repository
    pc, at, stage,  \* where a caller is, on which store, and for what
    todo,           \* the stores a project list has still to read
    result,         \* the result of the current or last operation
    late, cut,      \* its watchdog has fired; it was interrupted
    applied,        \* the store its operation of the work stage changed
    faults

serverVars == <<listener, drained, pending, closer, closeStep, shutdown>>
cacheVars == <<cache, openGate, storesLock>>
storeVars == <<lease, repo, closing, pool>>
opVars == <<writer, active, conns>>
askVars == <<kind, target>>
placeVars == <<pc, at, stage, todo>>
runVars == <<result, late, cut, applied>>
vars == <<serverVars, cacheVars, permits, storeVars, opVars, askVars,
          placeVars, runVars, faults>>

-----------------------------------------------------------------------------
(* Types *)

\* A store stands for its maintenance worker as a caller.
Callers == Requests \cup Stores

BeforeOp == {"permit", "open_gate", "stores", "list_lock"}
OpSteps == {"write_gate", "check", "checkout", "run", "ended", "settle"}
Steps == BeforeOp \cup OpSteps \cup {"idle", "answered", "exited"}
Stages == {"none", "ensure", "ensure_new", "work", "list"}
CloseSteps == {"none", "join", "interrupt", "idle", "pool", "lease"}

TypeOK ==
    /\ listener \in {"serving", "draining", "closing", "stopped"}
    /\ drained \in SUBSET Stores
    /\ pending \in SUBSET Stores
    /\ closer \in Stores \cup {None}
    /\ closeStep \in CloseSteps
    /\ shutdown \in {"none", "error"}
    /\ cache \in [Repos -> Stores \cup {None}]
    /\ openGate \in Requests \cup {None}
    /\ storesLock \in Requests \cup {None}
    /\ permits \in SUBSET Requests
    /\ lease \in [Repos -> Stores \cup {None}]
    /\ repo \in [Stores -> Repos \cup {None}]
    /\ closing \in [Stores -> BOOLEAN]
    /\ pool \in [Stores -> BOOLEAN]
    /\ writer \in [Stores -> Callers \cup {None}]
    /\ active \in [Stores -> SUBSET Callers]
    /\ conns \in [Stores -> SUBSET Callers]
    /\ kind \in [Requests -> Kinds \cup {None}]
    /\ target \in [Requests -> Repos \cup {None}]
    /\ pc \in [Callers -> Steps]
    /\ at \in [Callers -> Stores \cup {None}]
    /\ stage \in [Callers -> Stages]
    /\ todo \in [Callers -> SUBSET Stores]
    /\ result \in [Callers -> {"none", "ok", "error"}]
    /\ late \in SUBSET Callers
    /\ cut \in SUBSET Callers
    /\ applied \in [Callers -> Stores \cup {None}]
    /\ faults \in 0..MaxFaults

Init ==
    /\ listener = "serving" /\ drained = {} /\ pending = {}
    /\ closer = None /\ closeStep = "none" /\ shutdown = "none"
    /\ cache = Opened /\ lease = Opened
    /\ repo = [s \in Stores |-> IF \E r \in Repos : Opened[r] = s
                                  THEN CHOOSE r \in Repos : Opened[r] = s
                                  ELSE None]
    /\ pool = [s \in Stores |-> repo[s] # None]
    /\ openGate = None /\ storesLock = None /\ permits = {}
    /\ closing = [s \in Stores |-> FALSE]
    /\ writer = [s \in Stores |-> None]
    /\ active = [s \in Stores |-> {}]
    /\ conns = [s \in Stores |-> {}]
    /\ kind = [q \in Requests |-> None]
    /\ target = [q \in Requests |-> None]
    /\ pc = [c \in Callers |-> "idle"]
    /\ at = [c \in Callers |-> None]
    /\ stage = [c \in Callers |-> "none"]
    /\ todo = [c \in Callers |-> {}]
    /\ result = [c \in Callers |-> "none"]
    /\ late = {} /\ cut = {}
    /\ applied = [c \in Callers |-> None]
    /\ faults = 0

Goto(c, step) == pc' = [pc EXCEPT ![c] = step]

\* A failure of the environment, or a deadline that elapses.
Fault == faults < MaxFaults /\ faults' = faults + 1

-----------------------------------------------------------------------------
(* The request's way to its store *)

\* The handler returns: its locals go, and with them its permit.
Answer(q, r) ==
    /\ Goto(q, "answered")
    /\ result' = [result EXCEPT ![q] = r]
    /\ permits' = permits \ {q}
    /\ at' = [at EXCEPT ![q] = None]
    /\ stage' = [stage EXCEPT ![q] = "none"]
    /\ todo' = [todo EXCEPT ![q] = {}]
    /\ late' = late \ {q} /\ cut' = cut \ {q}

\* process_listener_result hands an accepted connection to a task; requests
\* for /mcp take a permit first.
spawn_connection(q) ==
    /\ listener = "serving" /\ pc[q] = "idle"
    /\ \E k \in Kinds, r \in Repos :
         /\ kind' = [kind EXCEPT ![q] = k]
         /\ target' = [target EXCEPT ![q] = r]
         /\ Goto(q, IF k \in Limited THEN "permit" ELSE "open_gate")
    /\ UNCHANGED <<serverVars, cacheVars, permits, storeVars, opVars, at,
                   stage, todo, runVars, faults>>

acquire_permit(q) ==
    /\ pc[q] = "permit" /\ Cardinality(permits) < Permits
    /\ permits' = permits \cup {q}
    /\ Goto(q, "open_gate")
    /\ UNCHANGED <<serverVars, cacheVars, storeVars, opVars, askVars, at,
                   stage, todo, runVars, faults>>

\* The deadline drops the handler, which is still waiting for its permit.
request_timeout(q) ==
    /\ pc[q] = "permit"
    /\ Answer(q, "error")
    /\ UNCHANGED <<serverVars, cacheVars, storeVars, opVars, askVars, applied,
                   faults>>

\* inspect_git or register_repository fails.
register_repository_fails(q) ==
    /\ pc[q] = "open_gate" /\ Fault
    /\ Answer(q, "error")
    /\ UNCHANGED <<serverVars, cacheVars, storeVars, opVars, askVars, applied>>

\* The repository is registered and the first of the two locks taken.
lock_store_open_gate(q) ==
    /\ pc[q] = "open_gate" /\ openGate = None
    /\ openGate' = q
    /\ Goto(q, "stores")
    /\ UNCHANGED <<serverVars, cache, storesLock, permits,
                   storeVars, opVars, askVars, at, stage, todo, runVars,
                   faults>>

\* The next operation of c, on store s.
Begin(c, s, g, write) ==
    /\ at' = [at EXCEPT ![c] = s]
    /\ stage' = [stage EXCEPT ![c] = g]
    /\ result' = [result EXCEPT ![c] = "none"]
    /\ late' = late \ {c} /\ cut' = cut \ {c}
    /\ Goto(c, IF write THEN "write_gate" ELSE "check")

\* A cached store gets its project again, under both locks.
find_store(q) ==
    /\ pc[q] = "stores" /\ storesLock = None
    /\ cache[target[q]] # None
    /\ storesLock' = q
    /\ Begin(q, cache[target[q]], "ensure", TRUE)
    /\ UNCHANGED <<serverVars, cache, openGate, permits, storeVars,
                   opVars, askVars, todo, applied, faults>>

\* CoverageStore::open: the lease, the pool, the schema, the reconciliation
\* of interrupted jobs and the maintenance worker, which starts idle.
open(q) ==
    /\ pc[q] = "stores" /\ storesLock = None
    /\ cache[target[q]] = None /\ lease[target[q]] = None
    /\ storesLock' = q
    /\ \E s \in Stores :
         /\ repo[s] = None
         /\ repo' = [repo EXCEPT ![s] = target[q]]
         /\ lease' = [lease EXCEPT ![target[q]] = s]
         /\ pool' = [pool EXCEPT ![s] = TRUE]
         /\ Begin(q, s, "ensure_new", TRUE)
    /\ UNCHANGED <<serverVars, cache, openGate, permits, closing,
                   opVars, askVars, todo, applied, faults>>

\* The lease is held, or the database cannot be opened: a store whose open
\* fails has no worker, and dropping it releases the pool and the lease.
open_fails(q) ==
    /\ pc[q] = "stores" /\ storesLock = None /\ cache[target[q]] = None
    /\ \/ lease[target[q]] # None /\ UNCHANGED faults
       \/ Fault
    /\ openGate' = None
    /\ Answer(q, "error")
    /\ UNCHANGED <<serverVars, cache, storesLock, storeVars, opVars, askVars,
                   applied>>

-----------------------------------------------------------------------------
(* One operation on a store: with_connection, with_read_connection *)

\* What the operation holds is dropped: the query guard, the connection,
\* the write gate.
Release(c) ==
    /\ active' = [active EXCEPT ![at[c]] = @ \ {c}]
    /\ conns' = [conns EXCEPT ![at[c]] = @ \ {c}]
    /\ writer' = [writer EXCEPT ![at[c]] = IF @ = c THEN None ELSE @]

\* The operation ends before it has a connection.
Fail(c) ==
    /\ result' = [result EXCEPT ![c] = "error"]
    /\ Goto(c, "settle")
    /\ Release(c)

write_gate(c) ==
    /\ pc[c] = "write_gate" /\ writer[at[c]] = None
    /\ writer' = [writer EXCEPT ![at[c]] = c]
    /\ Goto(c, "check")
    /\ UNCHANGED <<serverVars, cacheVars, permits, storeVars, active, conns,
                   askVars, at, stage, todo, runVars, faults>>

\* A closing store refuses; otherwise the pool is cloned out of its mutex,
\* and close() can no longer take it away from this caller.
ensure_store_open(c) ==
    /\ pc[c] = "check"
    /\ IF closing[at[c]] \/ ~pool[at[c]]
         THEN Fail(c)
         ELSE Goto(c, "checkout") /\ UNCHANGED <<result, opVars>>
    /\ UNCHANGED <<serverVars, cacheVars, permits, storeVars, askVars, at,
                   stage, todo, late, cut, applied, faults>>

\* The connection is checked out and the operation tracked.
checkout(c) ==
    /\ pc[c] = "checkout" /\ Cardinality(conns[at[c]]) < PoolSize
    /\ conns' = [conns EXCEPT ![at[c]] = @ \cup {c}]
    /\ active' = [active EXCEPT ![at[c]] = @ \cup {c}]
    /\ Goto(c, "run")
    /\ UNCHANGED <<serverVars, cacheVars, permits, storeVars, writer,
                   askVars, at, stage, todo, runVars, faults>>

\* The wait for a connection is bounded.
checkout_busy(c) ==
    /\ pc[c] = "checkout" /\ Cardinality(conns[at[c]]) >= PoolSize
    /\ Fail(c)
    /\ UNCHANGED <<serverVars, cacheVars, permits, storeVars, askVars, at,
                   stage, todo, late, cut, applied, faults>>

\* The watchdog fires before mark_complete, possibly after the operation has
\* returned.
watchdog(c) ==
    /\ pc[c] \in {"run", "ended"} /\ c \notin late /\ Fault
    /\ late' = late \cup {c}
    /\ cut' = cut \cup {c}
    /\ UNCHANGED <<serverVars, cacheVars, permits, storeVars, opVars, askVars,
                   placeVars, result, applied>>

\* The operation fails, when interrupted or because of the database, or it
\* changes what it has to change.
run_operation(c) ==
    /\ pc[c] = "run"
    /\ \/ /\ result' = [result EXCEPT ![c] = "ok"]
          /\ applied' = [applied EXCEPT ![c] =
                           IF c \in Requests /\ stage[c] = "work"
                             THEN at[c] ELSE @]
          /\ UNCHANGED faults
       \/ /\ c \in cut \/ faults < MaxFaults
          /\ faults' = IF c \in cut THEN faults ELSE faults + 1
          /\ result' = [result EXCEPT ![c] = "error"]
          /\ UNCHANGED applied
    /\ Goto(c, "ended")
    /\ UNCHANGED <<serverVars, cacheVars, permits, storeVars, opVars, askVars,
                   at, stage, todo, late, cut>>

\* A watchdog that fired too late to interrupt leaves the result alone.
run_with_timeout_forgives(c) ==
    /\ pc[c] = "ended"
    /\ result' = [result EXCEPT ![c] = IF c \in late THEN "ok" ELSE @]
    /\ Goto(c, "settle")
    /\ Release(c)
    /\ UNCHANGED <<serverVars, cacheVars, permits, storeVars, askVars, at,
                   stage, todo, late, cut, applied, faults>>

\* A failed operation is not untracked.
run_with_timeout_leaks(c) ==
    /\ pc[c] = "ended"
    /\ result' = [result EXCEPT ![c] = IF c \in late THEN "error" ELSE @]
    /\ Goto(c, "settle")
    /\ IF result[c] = "ok" THEN Release(c) ELSE UNCHANGED opVars
    /\ UNCHANGED <<serverVars, cacheVars, permits, storeVars, askVars, at,
                   stage, todo, late, cut, applied, faults>>

\* mark_complete, the watchdog's end and its verdict: a watchdog that fired
\* overrides the result.  Then the guards are dropped.
run_with_timeout(c) ==
    /\ pc[c] = "ended"
    /\ result' = [result EXCEPT ![c] = IF c \in late THEN "error" ELSE @]
    /\ Goto(c, "settle")
    /\ Release(c)
    /\ UNCHANGED <<serverVars, cacheVars, permits, storeVars, askVars, at,
                   stage, todo, late, cut, applied, faults>>

-----------------------------------------------------------------------------
(* What a request does with the result of an operation *)

\* The guard of the stores mutex lives on into the project list.
use_store_keeps_lock(q) ==
    /\ pc[q] = "settle" /\ stage[q] \in {"ensure", "ensure_new"}
    /\ storesLock' = IF kind[q] = "list" THEN storesLock ELSE None
    /\ openGate' = None
    /\ \/ /\ result[q] # "ok" /\ Answer(q, "error")
          /\ UNCHANGED cache
       \/ /\ result[q] = "ok" /\ kind[q] # "list"
          /\ Begin(q, at[q], "work", kind[q] \in Writing)
          /\ cache' = [cache EXCEPT ![target[q]] = at[q]]
          /\ UNCHANGED <<permits, todo>>
       \/ /\ result[q] = "ok" /\ kind[q] = "list"
          /\ Goto(q, "list_lock")
          /\ cache' = [cache EXCEPT ![target[q]] = at[q]]
          /\ UNCHANGED <<permits, todo, at, stage, result, late, cut>>
    /\ UNCHANGED <<serverVars, storeVars, opVars, askVars, applied, faults>>

\* ensure_project returned: the store enters the cache if it is new, both
\* locks are released and the tool or route runs.  A new store whose project
\* could not be recorded is dropped, but its worker keeps it open.
use_store(q) ==
    /\ pc[q] = "settle" /\ stage[q] \in {"ensure", "ensure_new"}
    /\ storesLock' = None /\ openGate' = None
    /\ \/ /\ result[q] # "ok" /\ Answer(q, "error")
          /\ UNCHANGED cache
       \/ /\ result[q] = "ok" /\ kind[q] # "list"
          /\ Begin(q, at[q], "work", kind[q] \in Writing)
          /\ cache' = [cache EXCEPT ![target[q]] = at[q]]
          /\ UNCHANGED <<permits, todo>>
       \/ /\ result[q] = "ok" /\ kind[q] = "list"
          /\ Goto(q, "list_lock")
          /\ cache' = [cache EXCEPT ![target[q]] = at[q]]
          /\ UNCHANGED <<permits, todo, at, stage, result, late, cut>>
    /\ UNCHANGED <<serverVars, storeVars, opVars, askVars, applied, faults>>

respond(q) ==
    /\ pc[q] = "settle" /\ stage[q] = "work"
    /\ Answer(q, result[q])
    /\ UNCHANGED <<serverVars, cacheVars, storeVars, opVars, askVars, applied,
                   faults>>

\* project_list reads every cached store under the stores mutex, and its own
\* store when the cache is empty.
project_list(q) ==
    /\ pc[q] = "list_lock" /\ storesLock = None
    /\ storesLock' = q
    /\ LET cached == {cache[r] : r \in Repos} \ {None}
           reads == IF cached = {} THEN {at[q]} ELSE cached
       IN \E s \in reads :
            /\ todo' = [todo EXCEPT ![q] = reads \ {s}]
            /\ Begin(q, s, "list", FALSE)
    /\ UNCHANGED <<serverVars, cache, openGate, permits, storeVars,
                   opVars, askVars, applied, faults>>

project_list_next(q) ==
    /\ pc[q] = "settle" /\ stage[q] = "list"
    /\ result[q] = "ok" /\ todo[q] # {}
    /\ \E s \in todo[q] :
         /\ todo' = [todo EXCEPT ![q] = @ \ {s}]
         /\ Begin(q, s, "list", FALSE)
    /\ UNCHANGED <<serverVars, cacheVars, permits, storeVars, opVars, askVars,
                   applied, faults>>

project_list_ends(q) ==
    /\ pc[q] = "settle" /\ stage[q] = "list"
    /\ result[q] # "ok" \/ todo[q] = {}
    /\ storesLock' = None
    /\ Answer(q, result[q])
    /\ UNCHANGED <<serverVars, cache, openGate, storeVars, opVars, askVars,
                   applied, faults>>

-----------------------------------------------------------------------------
(* The maintenance worker of a store *)

\* It reads the settings, compacts when that is due, and parks; errors are
\* only logged.
compaction_worker(s) ==
    /\ repo[s] # None /\ pc[s] = "idle" /\ ~closing[s]
    /\ \E write \in BOOLEAN : Begin(s, s, "work", write)
    /\ UNCHANGED <<serverVars, cacheVars, permits, storeVars, opVars, askVars,
                   todo, applied, faults>>

compaction_worker_parks(s) ==
    /\ pc[s] = "settle"
    /\ Goto(s, "idle")
    /\ at' = [at EXCEPT ![s] = None]
    /\ stage' = [stage EXCEPT ![s] = "none"]
    /\ result' = [result EXCEPT ![s] = "none"]
    /\ late' = late \ {s} /\ cut' = cut \ {s}
    /\ UNCHANGED <<serverVars, cacheVars, permits, storeVars, opVars, askVars,
                   todo, applied, faults>>

compaction_worker_exits(s) ==
    /\ repo[s] # None /\ pc[s] = "idle" /\ closing[s]
    /\ Goto(s, "exited")
    /\ UNCHANGED <<serverVars, cacheVars, permits, storeVars, opVars, askVars,
                   at, stage, todo, runVars, faults>>

-----------------------------------------------------------------------------
(* The server's end *)

\* A signal or a handoff stops the listener, or accept fails.
stop_listener ==
    /\ listener = "serving"
    /\ listener' = "draining"
    /\ \/ UNCHANGED <<shutdown, faults>>
       \/ Fault /\ shutdown' = "error"
    /\ UNCHANGED <<drained, pending, closer, closeStep, cacheVars, permits, storeVars,
                   opVars, askVars, placeVars, runVars>>

close_stores ==
    /\ listener = "draining" /\ storesLock = None
    /\ listener' = "closing"
    /\ drained' = {cache[r] : r \in Repos} \ {None}
    /\ pending' = drained'
    /\ cache' = [r \in Repos |-> None]
    /\ UNCHANGED <<closer, closeStep, shutdown, openGate,
                   storesLock, permits, storeVars, opVars, askVars, placeVars,
                   runVars, faults>>

\* The flag is not set before the worker is joined.
close_forgets_flag(s) ==
    /\ listener = "closing" /\ closer = None /\ s \in pending
    /\ closer' = s
    /\ pending' = pending \ {s}
    /\ closeStep' = "join"
    /\ UNCHANGED <<listener, drained, shutdown, cacheVars, permits, storeVars,
                   opVars, askVars, placeVars, runVars, faults>>

\* The next drained store: close() makes it refuse operations.
close(s) ==
    /\ listener = "closing" /\ closer = None /\ s \in pending
    /\ closer' = s
    /\ pending' = pending \ {s}
    /\ closing' = [closing EXCEPT ![s] = TRUE]
    /\ closeStep' = "join"
    /\ UNCHANGED <<listener, drained, shutdown, cacheVars, permits, lease, repo, pool,
                   opVars, askVars, placeVars, runVars, faults>>

join_worker ==
    /\ closeStep = "join" /\ pc[closer] = "exited"
    /\ closeStep' = "interrupt"
    /\ UNCHANGED <<listener, drained, pending, closer, shutdown, cacheVars, permits,
                   storeVars, opVars, askVars, placeVars, runVars, faults>>

\* An interrupt reaches the operations that run now.
interrupt_all ==
    /\ closeStep = "interrupt"
    /\ cut' = cut \cup {c \in active[closer] : pc[c] = "run"}
    /\ closeStep' = "idle"
    /\ UNCHANGED <<listener, drained, pending, closer, shutdown, cacheVars, permits,
                   storeVars, opVars, askVars, placeVars, result, late,
                   applied, faults>>

wait_for_idle ==
    /\ closeStep = "idle" /\ active[closer] = {}
    /\ closeStep' = "pool"
    /\ UNCHANGED <<listener, drained, pending, closer, shutdown, cacheVars, permits,
                   storeVars, opVars, askVars, placeVars, runVars, faults>>

\* The first error of a store makes close_stores skip the others.
wait_for_idle_times_out_lazily ==
    /\ closeStep = "idle" /\ active[closer] # {} /\ Fault
    /\ shutdown' = "error"
    /\ closer' = None /\ closeStep' = "none" /\ pending' = {}
    /\ UNCHANGED <<listener, drained, cacheVars, permits, storeVars, opVars, askVars,
                   placeVars, runVars>>

\* The lease is released on the way out.
wait_for_idle_times_out_unlocked ==
    /\ closeStep = "idle" /\ active[closer] # {} /\ Fault
    /\ shutdown' = "error"
    /\ lease' = [lease EXCEPT ![repo[closer]] = None]
    /\ closer' = None /\ closeStep' = "none"
    /\ UNCHANGED <<listener, drained, pending, cacheVars, permits, repo, closing, pool,
                   opVars, askVars, placeVars, runVars>>

\* close() gives up, with the pool and the lease in place; close_stores
\* remembers the error and goes on.
wait_for_idle_times_out ==
    /\ closeStep = "idle" /\ active[closer] # {} /\ Fault
    /\ shutdown' = "error"
    /\ closer' = None /\ closeStep' = "none"
    /\ UNCHANGED <<listener, drained, pending, cacheVars, permits, storeVars, opVars,
                   askVars, placeVars, runVars>>

take_pool ==
    /\ closeStep = "pool"
    /\ pool' = [pool EXCEPT ![closer] = FALSE]
    /\ closeStep' = "lease"
    /\ UNCHANGED <<listener, drained, pending, closer, shutdown, cacheVars, permits,
                   lease, repo, closing, opVars, askVars, placeVars, runVars,
                   faults>>

take_lease ==
    /\ closeStep = "lease"
    /\ lease' = [lease EXCEPT ![repo[closer]] = None]
    /\ closer' = None /\ closeStep' = "none"
    /\ UNCHANGED <<listener, drained, pending, shutdown, cacheVars, permits, repo,
                   closing, pool, opVars, askVars, placeVars, runVars, faults>>

\* combine_shutdown_results: serve_until_shutdown returns.
serve_until_shutdown_returns ==
    /\ listener = "closing" /\ pending = {} /\ closer = None
    /\ listener' = "stopped"
    /\ UNCHANGED <<drained, pending, closer, closeStep, shutdown, cacheVars, permits,
                   storeVars, opVars, askVars, placeVars, runVars, faults>>

-----------------------------------------------------------------------------
Operate(c) ==
    \/ write_gate(c) \/ ensure_store_open(c) \/ checkout(c)
    \/ checkout_busy(c) \/ run_operation(c) \/ run_with_timeout(c)

Handle(q) ==
    \/ acquire_permit(q) \/ request_timeout(q)
    \/ register_repository_fails(q) \/ lock_store_open_gate(q)
    \/ find_store(q) \/ open(q) \/ open_fails(q)
    \/ use_store(q) \/ respond(q)
    \/ project_list(q) \/ project_list_next(q) \/ project_list_ends(q)

Maintain(s) == compaction_worker_parks(s) \/ compaction_worker_exits(s)

Close ==
    \/ close_stores \/ join_worker \/ interrupt_all \/ wait_for_idle
    \/ wait_for_idle_times_out \/ take_pool \/ take_lease
    \/ serve_until_shutdown_returns
    \/ \E s \in Stores : close(s)

Next ==
    \/ \E c \in Callers : Operate(c) \/ watchdog(c)
    \/ \E q \in Requests : spawn_connection(q) \/ Handle(q)
    \/ \E s \in Stores : compaction_worker(s) \/ Maintain(s)
    \/ stop_listener
    \/ Close

Spec == Init /\ [][Next]_vars

\* Threads and tasks run on.  A mutex or a connection that is free again and
\* again is taken at last, since its other users release it after bounded
\* work and a worker parks between two rounds: hence strong fairness.
\* Nothing obliges a client to connect, a worker to start another round, a
\* watchdog to fire or the server to stop.
Fairness ==
    /\ \A q \in Requests : SF_vars(Operate(q) \/ Handle(q))
    /\ \A s \in Stores : SF_vars(Operate(s) \/ Maintain(s))
    /\ SF_vars(Close)

FairSpec == Spec /\ Fairness

-----------------------------------------------------------------------------
(* Properties *)

\* No two stores have a pool on the same repository's database, although
\* stores are closed while late requests open new ones (storage.rs close
\* takes the pool before the lease).
OneStorePerRepo ==
    \A s, t \in Stores :
        pool[s] /\ pool[t] /\ repo[s] = repo[t] => s = t

\* A caller that has its answer, or parks, holds nothing another caller
\* waits for, whichever step of its operation failed: no connection, write
\* gate, tracker entry, lock or permit (the guards of with_connection and of
\* service_for_repository_path).
NothingRetained ==
    \A c \in Callers : pc[c] \in {"idle", "answered", "exited"} =>
        /\ c \notin permits /\ openGate # c /\ storesLock # c
        /\ \A s \in Stores : c \notin conns[s] \cup active[s] /\ writer[s] # c

\* A success the client sees is a change the store it asked for has seen,
\* with interrupts and watchdogs in between (pool.rs run_with_timeout).  The
\* converse does not hold: a watchdog that fires as the operation returns
\* turns its success into a timeout.
OkIsApplied ==
    \A q \in Requests :
        pc[q] = "answered" /\ result[q] = "ok" /\ kind[q] # "list" =>
            applied[q] # None /\ repo[applied[q]] = target[q]

\* When the server has stopped, every store it drained refuses operations
\* and has released its pool and its lease, also after the close of another
\* store failed; if one has not, the server reports an error (http.rs
\* close_stores, combine_shutdown_results).
EveryDrainedStoreClosed ==
    listener = "stopped" =>
        \A s \in drained :
            /\ closing[s]
            /\ (~pool[s] /\ lease[repo[s]] # s) \/ shutdown = "error"

\* Every accepted request is answered, and so nothing of the server waits
\* for itself.
EveryRequestAnswered ==
    \A q \in Requests : pc[q] \in {"permit", "open_gate"} ~> pc[q] = "answered"

\* A server that stops listening returns, while requests and workers use the
\* stores it closes.
ServerStops == listener = "draining" ~> listener = "stopped"

-----------------------------------------------------------------------------
(* The inductive invariant behind the safety properties *)

\* The store holds the lease of its repository's database.
Owned(s) == repo[s] # None /\ lease[repo[s]] = s

\* A request records the project of its store under both locks.
Ensuring(q) == pc[q] \in OpSteps /\ stage[q] \in {"ensure", "ensure_new"}

\* A caller inside an operation has a store, a request beyond its start a
\* repository, and workers never wait for a permit or a lock of the server.
PlaceInv ==
    /\ \A c \in Callers : pc[c] \in OpSteps => at[c] \in Stores
    /\ \A q \in Requests : /\ pc[q] # "idle" => target[q] \in Repos
                           /\ pc[q] = "list_lock" => at[q] \in Stores
                           /\ pc[q] # "exited"
    /\ \A s \in Stores : pc[s] \in OpSteps \cup {"idle", "exited"}

\* Who holds a permit, a lock, a connection, a tracker entry or the write gate
\* is at a step that gives it back.
HoldInv ==
    /\ \A q \in permits : pc[q] \notin {"idle", "permit", "answered"}
    /\ openGate # None => pc[openGate] = "stores" \/ Ensuring(openGate)
    /\ \A q \in Requests :
         storesLock = q <=> pc[q] \in OpSteps /\ stage[q] \in {"ensure", "ensure_new", "list"}
    /\ \A s \in Stores, c \in Callers :
         /\ c \in conns[s] \cup active[s] => at[c] = s /\ pc[c] \in {"run", "ended"}
         /\ writer[s] = c => at[c] = s /\ pc[c] \in {"check", "checkout", "run", "ended"}

\* A store with a pool, in the cache, about to be closed or being prepared owns
\* its lease, and no store that is to be closed is in the cache again.
OwnInv ==
    /\ \A s \in Stores : pool[s] => Owned(s)
    /\ \A r \in Repos : cache[r] # None =>
         repo[cache[r]] = r /\ lease[r] = cache[r] /\ cache[r] \notin pending \cup {closer}
    /\ \A s \in pending : Owned(s)
    /\ closer # None => Owned(closer) /\ closer \notin pending
    /\ \A q \in Requests : Ensuring(q) =>
         /\ repo[at[q]] = target[q] /\ lease[target[q]] = at[q]
         /\ at[q] \notin pending \cup {closer}
    /\ closeStep # "none" <=> closer # None
    /\ closeStep = "lease" => ~pool[closer]
    /\ listener \in {"serving", "draining"} => pending = {} /\ closer = None

\* A drained store waits to be closed, is being closed, or has been.
CloseInv ==
    /\ listener \in {"serving", "draining"} => drained = {}
    /\ listener = "stopped" => pending = {} /\ closer = None
    /\ \A s \in drained :
         /\ repo[s] # None
         /\ s \notin pending =>
              /\ closing[s]
              /\ \/ s = closer
                 \/ ~pool[s] /\ lease[repo[s]] # s
                 \/ shutdown = "error"

\* The result of a request's own operation is that of the store it asked for.
ApplyInv ==
    \A q \in Requests :
        /\ pc[q] \in OpSteps /\ stage[q] = "work" => kind[q] # "list" /\ repo[at[q]] = target[q]
        /\ pc[q] = "list_lock" \/ (pc[q] \in OpSteps /\ stage[q] = "list") => kind[q] = "list"
        /\ pc[q] \in {"write_gate", "check", "checkout", "run"} => result[q] # "ok"
        /\ pc[q] \in {"ended", "settle"} /\ stage[q] = "work" /\ result[q] = "ok" =>
             applied[q] = at[q]
        /\ pc[q] = "answered" /\ result[q] = "ok" /\ kind[q] # "list" =>
             applied[q] # None /\ repo[applied[q]] = target[q]

IInv == TypeOK /\ PlaceInv /\ HoldInv /\ OwnInv /\ CloseInv /\ ApplyInv
=============================================================================
