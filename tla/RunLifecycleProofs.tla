-------------------------- MODULE RunLifecycleProofs --------------------------
(* Safety of managed runs for every number of runs, clients, slots, faults *)
(* and restarts: IInv of RunLifecycle is inductive.                         *)
EXTENDS RunLifecycle, FiniteSetTheorems, WellFoundedInduction, TLAPS

\* The order of the natural numbers as a set of pairs.
Below == {pair \in Nat \X Nat : pair[1] < pair[2]}

\* A set of natural numbers that is not empty has a least element.
LEMMA LeastNumber ==
    ASSUME NEW T \in SUBSET Nat, T # {} PROVE \E n \in T : \A m \in T : n <= m
<1>1. OpToRel(<, Nat) = Below
  BY Zenon DEF OpToRel, Below
<1>2. IsWellFoundedOn(Below, Nat)
  BY <1>1, NatLessThanWellFounded, Zenon
<1>3. PICK n \in T : \A m \in T : <<m, n>> \notin Below
  BY <1>2, WFMin, Zenon
<1>4. ASSUME NEW m \in T PROVE n <= m
  <2>1. <<m, n>> \in Nat \X Nat /\ m \in Nat /\ n \in Nat
    OBVIOUS
  <2>2. m < n => <<m, n>> \in Below
    BY <2>1 DEF Below
  <2> QED
    BY <1>3, <2>1, <2>2
<1> QED
  BY <1>4

USE RunAssumption

Held == {r \in Runs : pc[r] \in Holding}

\* The workers that hold a slot are finitely many.
LEMMA HeldFinite == IsFiniteSet(Held) /\ Cardinality(Held) \in Nat
<1>1. Held \subseteq Runs /\ IsFiniteSet(Runs)
  BY DEF Held
<1>2. IsFiniteSet(Held)
  BY <1>1, FS_Subset
<1> QED
  BY <1>2, FS_CardinalityType

\* A step that moves no worker into or out of the slots keeps the count.
LEMMA SlotsStay ==
  ASSUME SlotsAccounted, UNCHANGED active,
         \A r \in Runs : pc'[r] \in Holding <=> pc[r] \in Holding
  PROVE  SlotsAccounted'
<1>1. {r \in Runs : pc[r] \in Holding}' = {r \in Runs : pc[r] \in Holding}
  OBVIOUS
<1> QED
  BY <1>1 DEF SlotsAccounted

\* After a restart no worker holds a slot.
LEMMA NoSlotsHeld ==
  ASSUME active' = 0, \A r \in Runs : pc'[r] \notin Holding
  PROVE  SlotsAccounted'
<1>1. {r \in Runs : pc[r] \in Holding}' = {}
  OBVIOUS
<1>2. Cardinality({}) = 0
  BY FS_EmptySet
<1>3. active' =< RunConcurrency
  OBVIOUS
<1> QED
  BY <1>1, <1>2, <1>3 DEF SlotsAccounted

\* A worker that enters takes one slot of those that are free.
LEMMA SlotTaken ==
  ASSUME SlotsAccounted, active \in Nat, active < RunConcurrency, active' = active + 1,
         NEW r \in Runs, pc[r] \notin Holding, pc'[r] \in Holding,
         \A o \in Runs \ {r} : pc'[o] \in Holding <=> pc[o] \in Holding
  PROVE  SlotsAccounted'
<1>1. {o \in Runs : pc[o] \in Holding}' = Held \cup {r}
  BY DEF Held
<1>2. Cardinality(Held \cup {r}) = Cardinality(Held) + 1
  BY HeldFinite, FS_AddElement DEF Held
<1>3. active = Cardinality(Held)
  BY DEF SlotsAccounted, Held
<1>4. active' = Cardinality({o \in Runs : pc[o] \in Holding}')
  BY <1>1, <1>2, <1>3
<1>5. active' =< RunConcurrency
  OBVIOUS
<1> QED
  BY <1>4, <1>5 DEF SlotsAccounted

\* A worker that leaves gives its slot back.
LEMMA SlotGivenBack ==
  ASSUME SlotsAccounted, active \in Nat, active' = active - 1,
         NEW r \in Runs, pc[r] \in Holding, pc'[r] \notin Holding,
         \A o \in Runs \ {r} : pc'[o] \in Holding <=> pc[o] \in Holding
  PROVE  SlotsAccounted' /\ active' \in Nat
<1>1. {o \in Runs : pc[o] \in Holding}' = Held \ {r}
  BY DEF Held
<1>2. Cardinality(Held \ {r}) = Cardinality(Held) - 1
  BY HeldFinite, FS_RemoveElement DEF Held
<1>3. active = Cardinality(Held)
  BY DEF SlotsAccounted, Held
<1>4. IsFiniteSet(Held \ {r})
  BY HeldFinite, FS_RemoveElement
<1>5. Cardinality(Held \ {r}) \in Nat
  BY <1>4, FS_CardinalityType
<1>6. active' = Cardinality({o \in Runs : pc[o] \in Holding}')
  BY <1>1, <1>2, <1>3
<1>7. active' \in Nat
  BY <1>2, <1>3, <1>5
<1>8. active' =< RunConcurrency
  BY DEF SlotsAccounted
<1> QED
  BY <1>6, <1>7, <1>8 DEF SlotsAccounted

-----------------------------------------------------------------------------

\* Nothing is queued, running or retained at first.
LEMMA InitIInv == Init => IInv
<1> SUFFICES ASSUME Init PROVE IInv
  OBVIOUS
<1>1. TypeOK
  BY DEF Init, TypeOK, JobStatus, RunStatus, Outcomes, Locations, Children, Closers,
         ClientState, IdleClient, Client
<1>2. SlotsAccounted
  <2>1. {r \in Runs : pc[r] \in Holding} = {}
    BY DEF Init, Holding, Executing, Database, Registered
  <2> QED
    BY <2>1, FS_EmptySet DEF Init, SlotsAccounted
<1>3. \A r \in Runs : RunInv(r)
  BY DEF Init, RunInv, WithJob, WithChild, PreSpawn
<1>4. \A c \in Clients : ClientInv(c)
  BY DEF Init, ClientInv, IdleClient, Client
<1> QED
  BY <1>1, <1>2, <1>3, <1>4 DEF Init, IInv

\* What every step of a worker thread has in common: it touches its own run,
\* and possibly wakes a sleeping worker or prunes rows of finished runs.
LEMMA WorkerStep ==
  ASSUME IInv, TypeOK', SlotsAccounted', UNCHANGED <<shutdown, client, legacy>>,
         NEW r \in Runs, pc[r] \notin {"none", "ended"}, pc'[r] # "none",
         RunInv(r)', 
         \A o \in Runs \ {r} :
            /\ pc'[o] = pc[o] \/ (pc[o] = "parked" /\ pc'[o] = "slots")
            /\ child'[o] = child[o] /\ launches'[o] = launches[o]
            /\ outcome'[o] = outcome[o] /\ job'[o] = job[o]
            /\ runs'[o] \in {runs[o], "none"}
            /\ o \in ingested' => o \in ingested
  PROVE  IInv'
<1> USE DEF IInv, shutdown
<1>1. ASSUME NEW o \in Runs PROVE RunInv(o)'
  <2>1. CASE o = r
    BY <2>1
  <2>2. CASE o # r
    <3>1. RunInv(o)
      OBVIOUS
    <3> QED
      BY <2>2, <3>1 DEF RunInv, WithJob, WithChild, PreSpawn
  <2> QED
    BY <2>1, <2>2
<1>2. ASSUME NEW o \in legacy' PROVE LegacyInv(o)'
  <2>1. o \in Runs /\ LegacyInv(o)
    BY DEF TypeOK
  <2>2. o # r
    BY <2>1 DEF LegacyInv
  <2> QED
    BY <2>1, <2>2 DEF LegacyInv, Starting
<1>3. ASSUME NEW c \in Clients PROVE ClientInv(c)'
  <2>1. ClientInv(c)
    OBVIOUS
  <2>2. client[c].pc = "start" => client[c].run \in Runs \ {r}
    BY <2>1 DEF ClientInv
  <2> QED
    BY <2>1, <2>2 DEF ClientInv
<1>4. closer' \in {"idle", "closed"} => \A o \in pending' : pc'[o] = "ended"
  BY DEF TypeOK
<1> QED
  BY <1>1, <1>2, <1>3, <1>4

-----------------------------------------------------------------------------
(* Worker steps: the type, the slots and the worker's own run; WorkerStep has *)
(* the rest.                                                                  *)
USE DEF Goto, tables, threads, processes, shutdown, history

\* Going to sleep takes no slot.
LEMMA SlotWaitStep == ASSUME IInv, NEW r \in Runs, slot_wait(r) PROVE IInv'
<1> USE DEF IInv
<1>1. TypeOK'
  BY DEF TypeOK, Locations, Holding, Executing, Database, Registered, slot_wait
<1>2. SlotsAccounted'
  BY SlotsStay DEF TypeOK, Locations, Holding, Executing, Database, Registered, slot_wait
<1>3. RunInv(r)'
  BY DEF RunInv, WithJob, WithChild, PreSpawn, TypeOK, slot_wait
<1> QED
  BY <1>1, <1>2, <1>3, WorkerStep DEF TypeOK, slot_wait

\* Reading the job keeps the slot.
LEMMA ExecuteWithSlotStep == ASSUME IInv, NEW r \in Runs, execute_run_with_slot(r) PROVE IInv'
<1> USE DEF IInv
<1>1. TypeOK'
  BY DEF TypeOK, Locations, Holding, Executing, Database, Registered, execute_run_with_slot
<1>2. SlotsAccounted'
  BY SlotsStay DEF TypeOK, Locations, Holding, Executing, Database, Registered, execute_run_with_slot
<1>3. RunInv(r)'
  BY DEF RunInv, WithJob, WithChild, PreSpawn, TypeOK, execute_run_with_slot
<1> QED
  BY <1>1, <1>2, <1>3, WorkerStep DEF TypeOK, execute_run_with_slot

\* Reading the command keeps the slot.
LEMMA RegisteredCommandStep == ASSUME IInv, NEW r \in Runs, registered_command(r) PROVE IInv'
<1> USE DEF IInv
<1>1. TypeOK'
  BY DEF TypeOK, Locations, Holding, Executing, Database, Registered, registered_command
<1>2. SlotsAccounted'
  BY SlotsStay DEF TypeOK, Locations, Holding, Executing, Database, Registered, registered_command
<1>3. RunInv(r)'
  BY DEF RunInv, WithJob, WithChild, PreSpawn, TypeOK, registered_command
<1> QED
  BY <1>1, <1>2, <1>3, WorkerStep DEF TypeOK, registered_command

\* The process is the first one of its run.
LEMMA SpawnStep == ASSUME IInv, NEW r \in Runs, spawn_child(r) PROVE IInv'
<1> USE DEF IInv
<1>1. TypeOK'
  BY DEF TypeOK, Locations, Holding, Executing, Database, Registered, Children, spawn_child
<1>2. SlotsAccounted'
  BY SlotsStay DEF TypeOK, Locations, Holding, Executing, Database, Registered, spawn_child
<1>3. RunInv(r)'
  BY DEF RunInv, WithJob, WithChild, PreSpawn, TypeOK, spawn_child
<1> QED
  BY <1>1, <1>2, <1>3, WorkerStep DEF TypeOK, spawn_child

\* Registering the process changes no other state.
LEMMA RegisterStep == ASSUME IInv, NEW r \in Runs, register_process(r) PROVE IInv'
<1> USE DEF IInv
<1>1. TypeOK'
  BY DEF TypeOK, Locations, Holding, Executing, Database, Registered, register_process
<1>2. SlotsAccounted'
  BY SlotsStay DEF TypeOK, Locations, Holding, Executing, Database, Registered, register_process
<1>3. RunInv(r)'
  BY DEF RunInv, WithJob, WithChild, PreSpawn, TypeOK, register_process
<1> QED
  BY <1>1, <1>2, <1>3, WorkerStep DEF TypeOK, register_process

\* Only a process that exited with success passes.
LEMMA TryWaitStep == ASSUME IInv, NEW r \in Runs, try_wait(r) PROVE IInv'
<1> USE DEF IInv
<1>1. TypeOK'
  BY DEF TypeOK, Locations, Holding, Executing, Database, Registered, Outcomes, try_wait
<1>2. SlotsAccounted'
  BY SlotsStay DEF TypeOK, Locations, Holding, Executing, Database, Registered, try_wait
<1>3. RunInv(r)'
  BY DEF RunInv, WithJob, WithChild, PreSpawn, TypeOK, try_wait
<1> QED
  BY <1>1, <1>2, <1>3, WorkerStep DEF TypeOK, try_wait

\* A process that is cancelled or timed out does not pass.
LEMMA CancellationStep == ASSUME IInv, NEW r \in Runs, cancellation_state(r) PROVE IInv'
<1> USE DEF IInv
<1>1. TypeOK'
  BY DEF TypeOK, Locations, Holding, Executing, Database, Registered, Outcomes, Children, cancellation_state, Kill
<1>2. SlotsAccounted'
  BY SlotsStay DEF TypeOK, Locations, Holding, Executing, Database, Registered, cancellation_state, Kill
<1>3. RunInv(r)'
  BY DEF RunInv, WithJob, WithChild, PreSpawn, TypeOK, cancellation_state, Kill
<1> QED
  BY <1>1, <1>2, <1>3, WorkerStep DEF TypeOK, cancellation_state, Kill

\* The guard leaves no process alive.
LEMMA FinishStep == ASSUME IInv, NEW r \in Runs, finish_resources(r) PROVE IInv'
<1> USE DEF IInv
<1>1. TypeOK'
  BY DEF TypeOK, Locations, Holding, Executing, Database, Registered, Children, finish_resources, Kill
<1>2. SlotsAccounted'
  BY SlotsStay DEF TypeOK, Locations, Holding, Executing, Database, Registered, finish_resources, Kill
<1>3. RunInv(r)'
  BY DEF RunInv, WithJob, WithChild, PreSpawn, TypeOK, finish_resources, Kill
<1> QED
  BY <1>1, <1>2, <1>3, WorkerStep DEF TypeOK, finish_resources, Kill

\* Only a passed run is ingested.
LEMMA CollectStep == ASSUME IInv, NEW r \in Runs, collect_artifacts(r) PROVE IInv'
<1> USE DEF IInv
<1>1. TypeOK'
  BY DEF TypeOK, Locations, Holding, Executing, Database, Registered, collect_artifacts
<1>2. SlotsAccounted'
  BY SlotsStay DEF TypeOK, Locations, Holding, Executing, Database, Registered, collect_artifacts
<1>3. RunInv(r)'
  BY DEF RunInv, WithJob, WithChild, PreSpawn, TypeOK, collect_artifacts
<1> QED
  BY <1>1, <1>2, <1>3, WorkerStep DEF TypeOK, collect_artifacts

\* The recorded outcome is the worker's.
LEMMA PersistStep == ASSUME IInv, NEW r \in Runs, persist_completed_run(r) PROVE IInv'
<1> USE DEF IInv
<1>1. TypeOK'
  BY DEF TypeOK, Locations, Holding, Executing, Database, Registered, RunStatus, JobStatus, persist_completed_run
<1>2. SlotsAccounted'
  BY SlotsStay DEF TypeOK, Locations, Holding, Executing, Database, Registered, persist_completed_run
<1>3. RunInv(r)'
  BY DEF RunInv, WithJob, WithChild, PreSpawn, TypeOK, persist_completed_run
<1> QED
  BY <1>1, <1>2, <1>3, WorkerStep DEF TypeOK, persist_completed_run

\* Selecting rows to prune changes no row.
LEMMA QueryPrunedStep == ASSUME IInv, NEW r \in Runs, query_pruned_run_ids(r) PROVE IInv'
<1> USE DEF IInv
<1>1. TypeOK'
  BY DEF TypeOK, Locations, Holding, Executing, Database, Registered, query_pruned_run_ids
<1>2. SlotsAccounted'
  BY SlotsStay DEF TypeOK, Locations, Holding, Executing, Database, Registered, query_pruned_run_ids
<1>3. RunInv(r)'
  BY DEF RunInv, WithJob, WithChild, PreSpawn, TypeOK, query_pruned_run_ids
<1> QED
  BY <1>1, <1>2, <1>3, WorkerStep DEF TypeOK, query_pruned_run_ids

\* Pruning removes rows of finished runs only.
LEMMA PruneStep == ASSUME IInv, NEW r \in Runs, prune_runs(r) PROVE IInv'
<1> USE DEF IInv
<1>1. TypeOK'
  BY DEF TypeOK, Locations, Holding, Executing, Database, Registered, RunStatus, prune_runs
<1>2. SlotsAccounted'
  BY SlotsStay DEF TypeOK, Locations, Holding, Executing, Database, Registered, prune_runs
<1>3. RunInv(r)'
  BY DEF RunInv, WithJob, WithChild, PreSpawn, TypeOK, prune_runs
<1> QED
  BY <1>1, <1>2, <1>3, WorkerStep DEF TypeOK, prune_runs

\* An error leaves no process alive and keeps the slot until it is released.
LEMMA ErrorStep == ASSUME IInv, NEW r \in Runs, run_error(r) PROVE IInv'
<1> USE DEF IInv
<1>1. TypeOK'
  BY DEF TypeOK, Locations, Holding, Executing, Database, Registered, Children, run_error, Kill
<1>2. SlotsAccounted'
  BY SlotsStay DEF TypeOK, Locations, Holding, Executing, Database, Registered, run_error, Kill
<1>3. RunInv(r)'
  BY DEF RunInv, WithJob, WithChild, PreSpawn, TypeOK, run_error, Kill
<1> QED
  BY <1>1, <1>2, <1>3, WorkerStep DEF TypeOK, Executing, Database, Registered, run_error, Kill

\* A failed job keeps its row.
LEMMA FinalizeStep == ASSUME IInv, NEW r \in Runs, finalize_failed_job(r) PROVE IInv'
<1> USE DEF IInv
<1>1. TypeOK'
  BY DEF TypeOK, Locations, Holding, Executing, Database, Registered, JobStatus, finalize_failed_job
<1>2. SlotsAccounted'
  BY SlotsStay DEF TypeOK, Locations, Holding, Executing, Database, Registered, finalize_failed_job
<1>3. RunInv(r)'
  BY DEF RunInv, WithJob, WithChild, PreSpawn, TypeOK, finalize_failed_job
<1> QED
  BY <1>1, <1>2, <1>3, WorkerStep DEF TypeOK, finalize_failed_job

\* A claim is a conditional update of a row that stays.
LEMMA ClaimStep == ASSUME IInv, NEW r \in Runs, claim_run(r) PROVE IInv'
<1> USE DEF IInv
<1>1. 1 + Cardinality({o \in Runs : startedAt[o] # 0}) \in Nat
  <2>1. IsFiniteSet({o \in Runs : startedAt[o] # 0})
    BY FS_Subset
  <2> QED
    BY <2>1, FS_CardinalityType
<1>2. TypeOK'
  BY <1>1 DEF TypeOK, JobStatus, Locations, Holding, Executing, Database, Registered, claim_run
<1>3. SlotsAccounted'
  BY SlotsStay DEF TypeOK, Locations, Holding, Executing, Database, Registered, claim_run
<1>4. RunInv(r)'
  BY DEF RunInv, WithJob, WithChild, PreSpawn, TypeOK, claim_run
<1> QED
  BY <1>2, <1>3, <1>4, WorkerStep DEF TypeOK, claim_run

\* The test of the counter and the increment are one critical section.
LEMMA ExecuteStep == ASSUME IInv, NEW r \in Runs, execute_run(r) PROVE IInv'
<1> USE DEF IInv
<1>1. TypeOK'
  BY DEF TypeOK, Locations, Holding, Executing, Database, Registered, execute_run
<1>2. SlotsAccounted'
  <2>1. CASE UNCHANGED active
    <3>1. pc'[r] \in {"finalize", "parking"}
      BY <2>1 DEF TypeOK, execute_run
    <3> QED
      BY <2>1, <3>1, SlotsStay DEF TypeOK, Locations, Holding, Executing, Database, Registered, execute_run
  <2>2. CASE active < RunConcurrency /\ Goto(r, "job") /\ active' = active + 1
    BY <2>2, SlotTaken DEF TypeOK, Locations, Holding, Executing, Database, Registered, execute_run
  <2> QED
    BY <2>1, <2>2 DEF execute_run
<1>3. RunInv(r)'
  BY DEF RunInv, WithJob, WithChild, PreSpawn, TypeOK, execute_run
<1> QED
  BY <1>1, <1>2, <1>3, WorkerStep DEF TypeOK, execute_run

\* Giving the slot back may wake one worker, which is not holding one.
LEMMA ReleaseStep == ASSUME IInv, NEW r \in Runs, release_run_slot(r) PROVE IInv'
<1> USE DEF IInv
<1> DEFINE next == IF pc[r] = "release" THEN "ended" ELSE "finalize"
<1>1. /\ pc[r] \in {"release", "release_error"}
      /\ pc' \in [Runs -> Locations]
      /\ pc'[r] = next
      /\ \A o \in Runs \ {r} : pc'[o] = pc[o] \/ (pc[o] = "parked" /\ pc'[o] = "slots")
  BY DEF TypeOK, Locations, Holding, Executing, Database, Registered, release_run_slot
<1>2. SlotsAccounted' /\ active' \in Nat
  BY <1>1, SlotGivenBack DEF TypeOK, Locations, Holding, Executing, Database, Registered, release_run_slot
<1>3. TypeOK'
  BY <1>1, <1>2 DEF TypeOK, release_run_slot
<1>4. RunInv(r)'
  BY <1>1 DEF RunInv, WithJob, WithChild, PreSpawn, TypeOK, release_run_slot
<1> QED
  BY <1>1, <1>2, <1>3, <1>4, WorkerStep DEF release_run_slot

-----------------------------------------------------------------------------
(* Client steps *)

\* A client step that starts no run and touches no table.
LEMMA ClientOnly ==
  ASSUME IInv, NEW c \in Clients, NEW new,
         new \in ClientState, new.pc \notin {"start", "retain"},
         new.pc \notin {"idle", "insert"} => new.run \in Runs,
         client' = [client EXCEPT ![c] = new],
         UNCHANGED <<tables, threads, processes, shutdown, history>>
  PROVE  IInv'
<1> USE DEF IInv
<1>1. TypeOK'
  BY DEF TypeOK
<1>2. SlotsAccounted'
  BY DEF SlotsAccounted
<1>3. \A r \in Runs : RunInv(r)'
  BY DEF RunInv
<1>4. \A r \in legacy' : LegacyInv(r)'
  BY DEF LegacyInv, Starting, TypeOK
<1>5. \A d \in Clients : ClientInv(d)'
  BY DEF ClientInv, TypeOK
<1> QED
  BY <1>1, <1>2, <1>3, <1>4, <1>5

\* An idle client is a client state without a run.
LEMMA IdleClientState ==
  IdleClient \in ClientState /\ IdleClient.pc = "idle"
  BY DEF IdleClient, Client, ClientState, JobStatus

\* Looking a key up, the two reads of a cancellation and a refused call.
LEMMA LookupStep ==
  ASSUME IInv, NEW c \in Clients, NEW k \in Keys \cup {NoKey}, submit_lookup(c, k)
  PROVE  IInv'
<1> DEFINE new == Client("insert", NoRun, k, "none")
<1>1. new \in ClientState /\ new.pc = "insert"
  BY DEF Client, ClientState, JobStatus
<1> QED
  BY <1>1, ClientOnly DEF submit_lookup

\* A refused call only ends.
LEMMA RefusedStep == ASSUME IInv, NEW c \in Clients, client_refused(c) PROVE IInv'
  BY IdleClientState, ClientOnly DEF client_refused

\* The first read of a cancellation touches nothing.
LEMMA CancelRunStep ==
  ASSUME IInv, NEW c \in Clients, NEW r \in Runs, cancel_run(c, r) PROVE IInv'
<1> DEFINE new == Client("cancel_job", r, NoKey, "none")
<1>1. new \in ClientState /\ new.pc = "cancel_job" /\ new.run = r
  BY DEF Client, ClientState, JobStatus
<1> QED
  BY <1>1, ClientOnly DEF cancel_run

\* Nor does the second.
LEMMA CancelJobStep == ASSUME IInv, NEW c \in Clients, cancel_job(c) PROVE IInv'
<1> DEFINE r == client[c].run
           new == IF job[r] \in Live THEN Client("cancel_write", r, NoKey, job[r])
                  ELSE IdleClient
<1>1. r \in Runs /\ job[r] \in JobStatus
  BY DEF IInv, ClientInv, cancel_job, TypeOK
<1>2. /\ new \in ClientState
      /\ new.pc \notin {"start", "retain"}
      /\ new.pc \notin {"idle", "insert"} => new.run \in Runs
  BY <1>1, IdleClientState DEF Client, ClientState
<1>3. client' = [client EXCEPT ![c] = new]
  BY DEF cancel_job
<1> HIDE DEF new
<1> QED
  BY <1>2, <1>3, ClientOnly DEF cancel_job

\* The write of a cancellation leaves the row where it is.
LEMMA CancelWriteStep == ASSUME IInv, NEW c \in Clients, cancel_write(c) PROVE IInv'
<1> USE DEF IInv
<1> DEFINE r == client[c].run
<1>1. r \in Runs
  BY DEF ClientInv, cancel_write
<1>2. client' = [client EXCEPT ![c] = IdleClient]
  BY DEF cancel_write
<1>3. /\ job' \in [Runs -> JobStatus]
      /\ \A o \in Runs : job'[o] = "none" <=> job[o] = "none"
  BY <1>1 DEF cancel_write, TypeOK, JobStatus
<1>4. TypeOK'
  BY <1>1, <1>2, <1>3, IdleClientState DEF TypeOK, cancel_write
<1>5. SlotsAccounted'
  BY DEF SlotsAccounted, cancel_write
<1>6. \A o \in Runs : RunInv(o)'
  BY <1>3 DEF RunInv, cancel_write
<1>7. \A o \in legacy' : LegacyInv(o)'
  BY <1>2, <1>3, IdleClientState DEF LegacyInv, Starting, TypeOK, cancel_write
<1>8. \A d \in Clients : ClientInv(d)'
  BY <1>2, <1>3, IdleClientState DEF ClientInv, TypeOK, cancel_write
<1> QED
  BY <1>4, <1>5, <1>6, <1>7, <1>8 DEF cancel_write

\* A new run has a row, no worker and one client that will start it.
LEMMA InsertStep ==
  ASSUME IInv, NEW c \in Clients, NEW r \in Runs, submit_insert(c, r) PROVE IInv'
<1> USE DEF IInv
<1> DEFINE started == Client("start", r, NoKey, "none")
<1>1. /\ job[r] = "none" /\ pc[r] = "none"
      /\ job' = [job EXCEPT ![r] = "queued"]
      /\ key' = [key EXCEPT ![r] = client[c].key]
  BY DEF submit_insert, Fresh, Rows
<1>2. started \in ClientState /\ started.pc = "start" /\ started.run = r
  BY DEF Client, ClientState, JobStatus
<1> HIDE DEF started
<1>3. PICK new \in {started, IdleClient} : client' = [client EXCEPT ![c] = new]
  BY DEF submit_insert, started
<1>4. TypeOK'
  <2>1. client[c].key \in Keys \cup {NoKey}
    BY DEF TypeOK, ClientState
  <2>2. key' \in [Runs -> Keys \cup {NoKey}] /\ job' \in [Runs -> JobStatus]
    BY <1>1, <2>1 DEF TypeOK, JobStatus
  <2>3. client' \in [Clients -> ClientState]
    BY <1>2, <1>3, IdleClientState DEF TypeOK
  <2>4. faults' \in 0..MaxFaults
    BY DEF TypeOK, submit_insert
  <2> QED
    BY <2>2, <2>3, <2>4 DEF TypeOK, submit_insert
<1>5. SlotsAccounted'
  BY DEF SlotsAccounted, submit_insert
<1>6. \A o \in Runs : RunInv(o)'
  BY <1>1 DEF RunInv, submit_insert, TypeOK
<1>7. r \notin legacy
  BY <1>1 DEF LegacyInv
<1>8. \A o \in legacy' : LegacyInv(o)'
  BY <1>1, <1>2, <1>3, <1>7, IdleClientState DEF LegacyInv, Starting, TypeOK, submit_insert
<1>9. ASSUME NEW d \in Clients PROVE ClientInv(d)'
  <2>1. ClientInv(d) /\ ClientInv(c)
    OBVIOUS
  <2>2. \A e \in Clients : client[e].pc = "start" => client[e].run # r
    BY <1>1 DEF ClientInv
  <2>3. client'[d] = IF d = c THEN new ELSE client[d]
    BY <1>3 DEF TypeOK
  <2>4. pc' = pc
    BY DEF submit_insert
  <2> QED
    BY <1>1, <1>2, <1>3, <2>1, <2>2, <2>3, <2>4, IdleClientState DEF ClientInv, TypeOK
<1> QED
  BY <1>4, <1>5, <1>6, <1>8, <1>9 DEF submit_insert

\* The worker of a run is started once.
LEMMA StartStep == ASSUME IInv, NEW c \in Clients, start_run_worker(c) PROVE IInv'
<1> USE DEF IInv
<1> DEFINE r == client[c].run
           new == Client("retain", r, NoKey, "none")
<1>1. r \in Runs /\ job[r] # "none" /\ pc[r] = "none"
  BY DEF ClientInv, start_run_worker
<1>2. new \in ClientState /\ new.pc = "retain" /\ new.run = r
  BY <1>1 DEF Client, ClientState, JobStatus
<1>3. client' = [client EXCEPT ![c] = new] /\ pc' = [pc EXCEPT ![r] = "slots"]
  BY DEF start_run_worker
<1>4. client[c].pc = "start"
  BY DEF start_run_worker
<1> HIDE DEF r, new
<1>5. TypeOK'
  BY <1>1, <1>2, <1>3 DEF TypeOK, Locations, start_run_worker
<1>6. SlotsAccounted'
  BY <1>1, <1>3, SlotsStay
    DEF TypeOK, Holding, Executing, Database, Registered, start_run_worker
<1>7. \A o \in Runs : RunInv(o)'
  BY <1>1, <1>3 DEF RunInv, WithJob, PreSpawn, WithChild, TypeOK, start_run_worker
<1>8. r \notin legacy
  BY <1>4 DEF LegacyInv, Starting, r
<1>9. \A o \in legacy' : LegacyInv(o)'
  BY <1>1, <1>2, <1>3, <1>8 DEF LegacyInv, Starting, TypeOK, start_run_worker
<1>10. ASSUME NEW d \in Clients PROVE ClientInv(d)'
  <2>1. ClientInv(d) /\ ClientInv(c)
    OBVIOUS
  <2>2. client'[d] = IF d = c THEN new ELSE client[d]
    BY <1>3 DEF TypeOK
  <2>3. d # c /\ client[d].pc = "start" => client[d].run # r
    BY <1>4, <2>1 DEF ClientInv, r
  <2>4. job' = job
    BY DEF start_run_worker
  <2> QED
    BY <1>1, <1>2, <1>3, <2>1, <2>2, <2>3, <2>4 DEF ClientInv, TypeOK
<1>11. closer' \in {"idle", "closed"} => \A o \in pending' : pc'[o] = "ended"
  BY <1>1, <1>3 DEF start_run_worker, TypeOK
<1> QED
  BY <1>5, <1>6, <1>7, <1>9, <1>10, <1>11

\* A thread that cannot be spawned leaves a failed row.
LEMMA StartFailsStep == ASSUME IInv, NEW c \in Clients, start_run_worker_fails(c) PROVE IInv'
<1> USE DEF IInv
<1> DEFINE r == client[c].run
<1>1. r \in Runs
  BY DEF ClientInv, start_run_worker_fails
<1>2. client' = [client EXCEPT ![c] = IdleClient]
  BY DEF start_run_worker_fails
<1>3. /\ job' \in [Runs -> JobStatus]
      /\ \A o \in Runs : job'[o] = "none" <=> job[o] = "none"
  BY <1>1 DEF start_run_worker_fails, TypeOK, JobStatus, Live
<1>4. TypeOK'
  BY <1>2, <1>3, IdleClientState DEF TypeOK, start_run_worker_fails
<1>5. SlotsAccounted'
  BY DEF SlotsAccounted, start_run_worker_fails
<1>6. \A o \in Runs : RunInv(o)'
  BY <1>3 DEF RunInv, start_run_worker_fails
<1>7. \A o \in legacy' : LegacyInv(o)'
  BY <1>2, <1>3, IdleClientState DEF LegacyInv, Starting, TypeOK, start_run_worker_fails
<1>8. \A d \in Clients : ClientInv(d)'
  BY <1>2, <1>3, IdleClientState DEF ClientInv, TypeOK, start_run_worker_fails
<1> QED
  BY <1>4, <1>5, <1>6, <1>7, <1>8 DEF start_run_worker_fails

\* A retained handle belongs to a run started since the last open.
LEMMA RetainStep == ASSUME IInv, NEW c \in Clients, retain_run_thread(c) PROVE IInv'
<1> USE DEF IInv
<1> DEFINE r == client[c].run
<1>1. r \in Runs
  BY DEF ClientInv, retain_run_thread
<1>2. client' = [client EXCEPT ![c] = IdleClient]
  BY DEF retain_run_thread
<1>3. r \notin legacy
  BY DEF LegacyInv, Starting, retain_run_thread
<1>4. TypeOK'
  BY <1>1, <1>2, IdleClientState DEF TypeOK, retain_run_thread
<1>5. SlotsAccounted'
  BY DEF SlotsAccounted, retain_run_thread
<1>6. \A o \in Runs : RunInv(o)'
  BY DEF RunInv, retain_run_thread
<1>7. \A o \in legacy' : LegacyInv(o)'
  BY <1>2, <1>3, IdleClientState DEF LegacyInv, Starting, TypeOK, retain_run_thread
<1>8. \A d \in Clients : ClientInv(d)'
  BY <1>2, IdleClientState DEF ClientInv, TypeOK, retain_run_thread
<1> QED
  BY <1>4, <1>5, <1>6, <1>7, <1>8 DEF retain_run_thread

-----------------------------------------------------------------------------
(* The process, the shutdown and the restart *)

\* Exits, kills and deadlines: nothing but the process and the clock changes,
\* and only a process that is alive changes.
LEMMA ProcessStep ==
  ASSUME IInv, UNCHANGED <<tables, threads, launches, retained, closer, client, history>>,
         child' \in [Runs -> Children], expired' \subseteq Timed,
         \A r \in Runs : child'[r] = child[r] \/ (child[r] = "alive" /\ child'[r] # "alive"),
         pending' \subseteq pending
  PROVE  IInv'
<1> USE DEF IInv
<1>1. TypeOK'
  BY DEF TypeOK
<1>2. SlotsAccounted'
  BY DEF SlotsAccounted
<1>3. \A r \in Runs : RunInv(r)'
  BY DEF RunInv, PreSpawn
<1>4. \A r \in legacy' : LegacyInv(r)'
  BY DEF LegacyInv, Starting
<1>5. \A c \in Clients : ClientInv(c)'
  BY DEF ClientInv
<1> QED
  BY <1>1, <1>2, <1>3, <1>4, <1>5

\* A process exits on its own.
LEMMA ExitStep ==
  ASSUME IInv, NEW r \in Runs, NEW how \in {"ok", "bad"}, child_exit(r, how) PROVE IInv'
<1>1. /\ child' \in [Runs -> Children]
      /\ \A o \in Runs : child'[o] = child[o] \/ (child[o] = "alive" /\ child'[o] # "alive")
  BY DEF IInv, TypeOK, Children, child_exit
<1> QED
  BY <1>1, ProcessStep DEF IInv, TypeOK, child_exit

\* A deadline passes.
LEMMA TimeoutStep == ASSUME IInv, NEW r \in Runs, timeout_reached(r) PROVE IInv'
  BY ProcessStep DEF IInv, TypeOK, timeout_reached

\* close() kills a registered process.
LEMMA TerminateStep ==
  ASSUME IInv, NEW r \in Runs, terminate_active_processes(r) PROVE IInv'
<1>1. /\ child' \in [Runs -> Children]
      /\ \A o \in Runs : child'[o] = child[o] \/ (child[o] = "alive" /\ child'[o] # "alive")
  BY DEF IInv, TypeOK, Children, Kill, terminate_active_processes
<1> QED
  BY <1>1, ProcessStep DEF IInv, TypeOK, terminate_active_processes

\* The steps of close() that move no worker into or out of a slot: what it
\* works through was started since the last open.
LEMMA ShutdownStep ==
  ASSUME IInv, UNCHANGED <<tables, outcome, victims, active, processes, client, history>>,
         closer' \in Closers,
         \A r \in Runs : pc'[r] = pc[r] \/ (pc[r] = "parked" /\ pc'[r] = "slots"),
         pc' \in [Runs -> Locations],
         retained' \subseteq Runs, pending' \subseteq Runs,
         retained' \cap legacy = {}, pending' \cap legacy = {},
         closer' \in {"idle", "closed"} => \A r \in pending' : pc'[r] = "ended"
  PROVE  IInv'
<1> USE DEF IInv
<1>1. TypeOK'
  BY DEF TypeOK
<1>2. SlotsAccounted'
  BY SlotsStay DEF Holding, Executing, Database, Registered
<1>3. \A r \in Runs : RunInv(r)'
  BY DEF RunInv, PreSpawn, WithJob, WithChild
<1>4. \A r \in legacy' : LegacyInv(r)'
  BY DEF LegacyInv, Starting, TypeOK
<1>5. \A c \in Clients : ClientInv(c)'
  BY DEF ClientInv
<1> QED
  BY <1>1, <1>2, <1>3, <1>4, <1>5

\* What close() has at hand is never a job of an earlier process.
LEMMA NotLegacy == IInv => (retained \cup pending) \cap legacy = {}
  BY DEF IInv, LegacyInv

\* The steps of close() that only move it forward.
LEMMA CloseStep == ASSUME IInv, close \/ join_workers \/ take_pool PROVE IInv'
<1>1. CASE close
  BY <1>1, NotLegacy, ShutdownStep DEF IInv, TypeOK, Closers, close
<1>2. CASE join_workers
  BY <1>2, NotLegacy, ShutdownStep DEF IInv, TypeOK, Closers, join_workers
<1>3. CASE take_pool
  BY <1>3, NotLegacy, ShutdownStep DEF IInv, TypeOK, Closers, take_pool
<1> QED
  BY <1>1, <1>2, <1>3

\* notify_all wakes every sleeping worker and looks at the registered processes.
LEMMA NotifyStep == ASSUME IInv, notify_all PROVE IInv'
<1>1. pending' \cap legacy = {} /\ pending' \subseteq Runs
  BY DEF IInv, LegacyInv, Registered, notify_all
<1>2. /\ pc' \in [Runs -> Locations]
      /\ \A r \in Runs : pc'[r] = pc[r] \/ (pc[r] = "parked" /\ pc'[r] = "slots")
  BY DEF IInv, TypeOK, Locations, notify_all
<1> QED
  BY <1>1, <1>2, NotLegacy, ShutdownStep DEF IInv, TypeOK, Closers, notify_all

\* close() takes the retained handles.
LEMMA DrainStep == ASSUME IInv, drain_run_threads PROVE IInv'
  BY NotLegacy, ShutdownStep DEF IInv, TypeOK, Closers, drain_run_threads

\* After a restart every job row belongs to no thread, and a process that is
\* still alive belongs to such a row.
LEMMA OpenStep == ASSUME IInv, open PROVE IInv'
<1> USE DEF IInv
<1>1. /\ job' \in [Runs -> JobStatus]
      /\ \A r \in Runs : job'[r] = "none" <=> job[r] = "none"
  BY DEF TypeOK, JobStatus, Live, open
<1>2. /\ pc' \in [Runs -> Locations]
      /\ \A r \in Runs : pc'[r] = IF pc[r] = "none" THEN "none" ELSE "ended"
  BY DEF TypeOK, Locations, open
<1>3. client' = [c \in Clients |-> IdleClient]
  BY DEF open
<1>4. TypeOK'
  BY <1>1, <1>2, <1>3, IdleClientState DEF TypeOK, Outcomes, Closers, open
<1>5. SlotsAccounted'
  <2>1. \A r \in Runs : pc'[r] \notin Holding
    BY <1>2 DEF Holding, Executing, Database, Registered
  <2> QED
    BY <2>1, NoSlotsHeld DEF open
<1>6. ASSUME NEW r \in Runs PROVE RunInv(r)'
  <2>1. RunInv(r) /\ (r \in legacy => LegacyInv(r))
    OBVIOUS
  <2>2. child[r] = "alive" => job[r] # "none"
    BY <2>1 DEF RunInv, LegacyInv, WithJob, WithChild
  <2>3. child[r] = "alive" => r \in legacy'
    BY <2>2 DEF open
  <2> QED
    BY <1>1, <1>2, <2>1, <2>3 DEF RunInv, WithJob, WithChild, PreSpawn, open
<1>7. \A r \in legacy' : LegacyInv(r)'
  BY <1>1, <1>2, <1>3, IdleClientState DEF LegacyInv, Starting, open
<1>8. \A c \in Clients : ClientInv(c)'
  BY <1>3, IdleClientState DEF ClientInv
<1> QED
  BY <1>4, <1>5, <1>6, <1>7, <1>8 DEF open

-----------------------------------------------------------------------------

\* Every step preserves the invariant.
LEMMA NextIInv == IInv /\ [Next]_vars => IInv'
<1> SUFFICES ASSUME IInv, [Next]_vars PROVE IInv'
  OBVIOUS
<1>1. ASSUME NEW c \in Clients, Submit(c) PROVE IInv'
  BY <1>1, LookupStep, InsertStep, StartStep, StartFailsStep, RetainStep, RefusedStep
    DEF Submit
<1>2. ASSUME NEW c \in Clients, Cancel(c) PROVE IInv'
  BY <1>2, CancelRunStep, CancelJobStep, CancelWriteStep DEF Cancel
<1>3. ASSUME NEW r \in Runs, Claim(r) PROVE IInv'
  BY <1>3, ExecuteStep, SlotWaitStep, ExecuteWithSlotStep, ClaimStep, RegisteredCommandStep
    DEF Claim
<1>4. ASSUME NEW r \in Runs, Drive(r) PROVE IInv'
  BY <1>4, SpawnStep, RegisterStep, TryWaitStep, CancellationStep, FinishStep DEF Drive
<1>5. ASSUME NEW r \in Runs, Complete(r) PROVE IInv'
  BY <1>5, CollectStep, PersistStep, QueryPrunedStep, PruneStep, ErrorStep, ReleaseStep,
     FinalizeStep DEF Complete
<1>6. ASSUME Shutdown PROVE IInv'
  BY <1>6, NotifyStep, TerminateStep, DrainStep, CloseStep DEF Shutdown
<1>7. CASE UNCHANGED vars
  <2>1. SlotsAccounted'
    BY <1>7 DEF IInv, SlotsAccounted, vars
  <2> QED
    BY <1>7, <2>1 DEF IInv, TypeOK, RunInv, LegacyInv, ClientInv, Starting, vars
<1> QED
  BY <1>1, <1>2, <1>3, <1>4, <1>5, <1>6, <1>7, ExitStep, TimeoutStep, CloseStep, OpenStep
    DEF Next, Worker

\* IInv holds in every reachable state.
THEOREM Invariance == Spec => []IInv
  BY InitIInv, NextIInv, PTL DEF Spec

\* TypeOK, for every instance.
THEOREM TypeCorrect == Spec => []TypeOK
<1>1. IInv => TypeOK
  BY DEF IInv
<1> QED
  BY <1>1, Invariance, PTL

\* SlotsAccounted: execute_run and release_run_slot never leak a slot or
\* exceed run_concurrency, on any path.
THEOREM SlotsNeverLeak == Spec => []SlotsAccounted
<1>1. IInv => SlotsAccounted
  BY DEF IInv
<1> QED
  BY <1>1, Invariance, PTL

\* LaunchedOnce: the command of a run is executed at most once, ever.
THEOREM AtMostOneLaunch == Spec => []LaunchedOnce
<1>1. IInv => LaunchedOnce
  BY DEF IInv, RunInv, LaunchedOnce
<1> QED
  BY <1>1, Invariance, PTL

\* SuccessIsReal: passed runs and ingested coverage come from processes that
\* exited with success.
THEOREM SuccessNeverInvented == Spec => []SuccessIsReal
<1>1. IInv => SuccessIsReal
  BY DEF IInv, RunInv, SuccessIsReal
<1> QED
  BY <1>1, Invariance, PTL

\* JoinedWorkersStopped: close() returns after the workers it found, and they
\* leave no process.
THEOREM CloseStopsJoinedWorkers == Spec => []JoinedWorkersStopped
<1>1. IInv => JoinedWorkersStopped
  BY DEF IInv, TypeOK, RunInv, LegacyInv, WithChild, JoinedWorkersStopped
<1> QED
  BY <1>1, Invariance, PTL

\* OpenNeverExecutes: a job that open() finds is never launched.
THEOREM LegacyNeverLaunched == Spec => OpenNeverExecutes
<1>1. IInv /\ [Next]_vars => [\A r \in legacy : launches'[r] = launches[r]]_vars
  <2> SUFFICES ASSUME IInv, Next, NEW r \in legacy PROVE launches'[r] = launches[r]
    BY DEF vars
  <2>1. r \in Runs /\ pc[r] \in {"none", "ended"}
    BY DEF IInv, TypeOK, LegacyInv
  <2>2. CASE \E c \in Clients : Submit(c) \/ Cancel(c)
    BY <2>2 DEF Submit, Cancel, submit_lookup, submit_insert, start_run_worker,
           start_run_worker_fails, retain_run_thread, client_refused, cancel_run, cancel_job,
           cancel_write
  <2>3. CASE \E o \in Runs : Claim(o)
    BY <2>3 DEF Claim, execute_run, slot_wait, execute_run_with_slot, claim_run,
           registered_command
  <2>4. CASE \E o \in Runs : spawn_child(o)
    BY <2>1, <2>4 DEF spawn_child, IInv, TypeOK
  <2>5. CASE \E o \in Runs : Drive(o) /\ ~spawn_child(o)
    BY <2>5 DEF Drive, register_process, try_wait, cancellation_state, finish_resources
  <2>6. CASE \E o \in Runs : Complete(o)
    BY <2>6 DEF Complete, collect_artifacts, persist_completed_run, query_pruned_run_ids,
           prune_runs, run_error, release_run_slot, finalize_failed_job
  <2>7. CASE \/ \E o \in Runs : (\E how \in {"ok", "bad"} : child_exit(o, how)) \/ timeout_reached(o)
             \/ close \/ Shutdown \/ open
    BY <2>7 DEF child_exit, timeout_reached, close, Shutdown, notify_all,
           terminate_active_processes, drain_run_threads, join_workers, take_pool, open
  <2> QED
    BY <2>2, <2>3, <2>4, <2>5, <2>6, <2>7 DEF Next, Worker
<1> QED
  BY <1>1, Invariance, PTL DEF Spec, OpenNeverExecutes

-----------------------------------------------------------------------------
(* Idempotency keys *)

\* Steps that add no row and let no client go on to insert.
LEMMA KeysKept ==
  ASSUME KeyInv, UNCHANGED key, \A r \in Runs : Rows(r)' => Rows(r),
         \A c \in Clients : client'[c] = client[c] \/ client'[c].pc # "insert"
  PROVE  KeyInv'
  BY DEF KeyInv, OneRunPerKey

\* Steps that leave the rows alone, too.
LEMMA RowsKept ==
  ASSUME KeyInv, UNCHANGED <<job, runs, key>>,
         \A c \in Clients : client'[c] = client[c] \/ client'[c].pc # "insert"
  PROVE  KeyInv'
  BY KeysKept DEF Rows

\* A client that found no row with the key.
LEMMA LookupKeys ==
  ASSUME IInv, KeyInv, NEW c \in Clients, NEW k \in Keys \cup {NoKey}, submit_lookup(c, k)
  PROVE  KeyInv'
<1>1. /\ client'[c].key = k
      /\ \A d \in Clients \ {c} : client'[d] = client[d]
      /\ \A r \in Runs : k # NoKey /\ Rows(r) => key[r] # k
  BY DEF submit_lookup, Client, IInv, TypeOK
<1>2. UNCHANGED <<job, runs, key>>
  BY DEF submit_lookup, tables
<1>3. OneRunPerKey'
  BY <1>2 DEF KeyInv, OneRunPerKey, Rows
<1> QED
  BY <1>1, <1>2, <1>3 DEF KeyInv, Rows

\* The new row is the only one with its key, and the client is done with it.
LEMMA InsertKeys ==
  ASSUME IInv, KeyInv, NEW c \in Clients, NEW r \in Runs, submit_insert(c, r)
  PROVE  KeyInv'
<1> SUFFICES ASSUME \A d, e \in Clients : d = e PROVE KeyInv'
  BY DEF KeyInv, OneRunPerKey
<1>1. /\ key'[r] = client[c].key /\ \A o \in Runs \ {r} : key'[o] = key[o]
      /\ \A o \in Runs \ {r} : Rows(o)' = Rows(o)
  BY DEF submit_insert, IInv, TypeOK, Rows
<1>2. client'[c].pc # "insert"
  BY DEF submit_insert, IInv, TypeOK, IdleClient, Client
<1>3. \A o \in Runs : client[c].key # NoKey /\ Rows(o) => key[o] # client[c].key
  BY DEF submit_insert, KeyInv
<1>4. OneRunPerKey'
  BY <1>1, <1>3 DEF KeyInv, OneRunPerKey
<1> QED
  BY <1>2, <1>4 DEF KeyInv

\* Clients that start, retain, cancel or give up.
LEMMA ClientKeys ==
  ASSUME IInv, KeyInv, NEW c \in Clients,
         \/ start_run_worker(c) \/ start_run_worker_fails(c) \/ retain_run_thread(c)
         \/ client_refused(c) \/ (\E r \in Runs : cancel_run(c, r))
         \/ cancel_job(c) \/ cancel_write(c)
  PROVE  KeyInv'
<1>1. \A d \in Clients : client'[d] = client[d] \/ client'[d].pc # "insert"
  BY DEF IInv, TypeOK, Client, IdleClient, start_run_worker, start_run_worker_fails,
     retain_run_thread, client_refused, cancel_run, cancel_job, cancel_write
<1>2. UNCHANGED <<runs, key>>
  BY DEF tables, start_run_worker, start_run_worker_fails, retain_run_thread,
     client_refused, cancel_run, cancel_job, cancel_write
<1>3. \A r \in Runs : job'[r] # "none" => job[r] # "none"
  BY DEF IInv, TypeOK, Live, tables, start_run_worker, start_run_worker_fails,
     retain_run_thread, client_refused, cancel_run, cancel_job, cancel_write
<1> QED
  BY <1>1, <1>2, <1>3, KeysKept DEF Rows

\* A worker persists a run that has a row in run_jobs.
LEMMA WorkerKeys == ASSUME IInv, KeyInv, NEW r \in Runs, Worker(r) PROVE KeyInv'
<1>1. UNCHANGED <<key, client>>
  BY DEF tables, Worker, Claim, Drive, Complete, execute_run, slot_wait,
     execute_run_with_slot, claim_run, registered_command, spawn_child, register_process,
     try_wait, cancellation_state, finish_resources, collect_artifacts,
     persist_completed_run, query_pruned_run_ids, prune_runs, run_error, release_run_slot,
     finalize_failed_job
<1>2. CASE claim_run(r)
  BY <1>1, <1>2, KeysKept DEF claim_run, Rows, IInv, TypeOK
<1>3. CASE persist_completed_run(r)
  <2>1. job[r] # "none"
    BY <1>3 DEF persist_completed_run, IInv, RunInv, WithJob
  <2>2. /\ \A o \in Runs : job'[o] # "none" => job[o] # "none"
        /\ \A o \in Runs \ {r} : runs'[o] = runs[o]
    BY <1>3 DEF persist_completed_run, IInv, TypeOK
  <2> QED
    BY <1>1, <2>1, <2>2, KeysKept DEF Rows
<1>4. CASE prune_runs(r)
  <2>1. UNCHANGED job /\ \A o \in Runs : runs'[o] # "none" => runs[o] # "none"
    BY <1>4 DEF prune_runs
  <2> QED
    BY <1>1, <2>1, KeysKept DEF Rows
<1>5. CASE finalize_failed_job(r)
  <2>1. UNCHANGED runs /\ \A o \in Runs : job'[o] # "none" => job[o] # "none"
    BY <1>5 DEF finalize_failed_job, IInv, TypeOK, Live
  <2> QED
    BY <1>1, <2>1, KeysKept DEF Rows
<1>6. CASE ~(claim_run(r) \/ persist_completed_run(r) \/ prune_runs(r) \/ finalize_failed_job(r))
  <2>1. UNCHANGED <<job, runs>>
    BY <1>6 DEF tables, Worker, Claim, Drive, Complete, execute_run, slot_wait,
       execute_run_with_slot, registered_command, spawn_child, register_process,
       try_wait, cancellation_state, finish_resources, collect_artifacts,
       query_pruned_run_ids, run_error, release_run_slot
  <2> QED
    BY <1>1, <2>1, RowsKept
<1> QED
  BY <1>2, <1>3, <1>4, <1>5, <1>6

\* Processes, close() and open() add no row.
LEMMA OtherKeys ==
  ASSUME IInv, KeyInv,
         \/ \E r \in Runs : (\E how \in {"ok", "bad"} : child_exit(r, how)) \/ timeout_reached(r)
         \/ close \/ Shutdown \/ open \/ UNCHANGED vars
  PROVE  KeyInv'
<1>1. CASE open
  <2>1. /\ UNCHANGED <<runs, key>> /\ \A r \in Runs : job'[r] # "none" => job[r] # "none"
    BY <1>1 DEF open, Live
  <2>2. \A c \in Clients : client'[c].pc # "insert"
    BY <1>1 DEF open, IdleClient, Client
  <2> QED
    BY <2>1, <2>2, KeysKept DEF Rows
<1>2. CASE ~open
  <2>1. UNCHANGED <<tables, client>>
    BY <1>2 DEF vars, Shutdown, child_exit, timeout_reached, close, notify_all,
       terminate_active_processes, drain_run_threads, join_workers, take_pool
  <2> QED
    BY <2>1, RowsKept DEF tables
<1> QED
  BY <1>1, <1>2

\* OneRunPerKey: when submissions do not overlap, a key has one row at most,
\* through failures, pruning and restarts.
THEOREM KeysNameOneRun == Spec => []OneRunPerKey
<1>1. Init => KeyInv
  BY DEF Init, KeyInv, OneRunPerKey, Rows, IdleClient, Client
<1>2. IInv /\ KeyInv /\ [Next]_vars => KeyInv'
  <2> SUFFICES ASSUME IInv, KeyInv, [Next]_vars PROVE KeyInv'
    OBVIOUS
  <2>1. ASSUME NEW c \in Clients, Submit(c) \/ Cancel(c) PROVE KeyInv'
    BY <2>1, LookupKeys, InsertKeys, ClientKeys DEF Submit, Cancel
  <2> QED
    BY <2>1, WorkerKeys, OtherKeys DEF Next
<1>3. KeyInv => OneRunPerKey
  BY DEF KeyInv
<1> QED
  BY <1>1, <1>2, <1>3, Invariance, PTL DEF Spec

-----------------------------------------------------------------------------
(* Pruning *)

\* The newer rows of a run are finitely many.
LEMMA NewerFinite ==
  ASSUME NEW r PROVE IsFiniteSet(Newer(r)) /\ Cardinality(Newer(r)) \in Nat
<1>1. Newer(r) \subseteq Runs
  BY DEF Newer
<1>2. IsFiniteSet(Newer(r))
  BY <1>1, FS_Subset
<1> QED
  BY <1>2, FS_CardinalityType

\* Of the runs in a set, one has no newer row in it.
LEMMA NewestOf ==
  ASSUME TypeOK, NEW D \in SUBSET Runs, D # {}, \A d \in D : runs[d] # "none"
  PROVE  \E d \in D : Newer(d) \cap D = {}
<1> DEFINE T == {Cardinality(Newer(d)) : d \in D}
<1>1. T \in SUBSET Nat /\ T # {}
  BY NewerFinite
<1>2. PICK n \in T : \A m \in T : n <= m
  BY <1>1, LeastNumber
<1>3. PICK d \in D : n = Cardinality(Newer(d))
  BY <1>2
<1>4. ASSUME NEW e \in Newer(d) \cap D PROVE FALSE
  <2>1. Newer(e) \subseteq Newer(d) /\ e \notin Newer(e) /\ e \in Newer(d)
    BY <1>4 DEF Newer, TypeOK
  <2>2. Newer(e) # Newer(d)
    BY <2>1
  <2>3. Cardinality(Newer(e)) <= Cardinality(Newer(d))
        /\ Cardinality(Newer(e)) # Cardinality(Newer(d))
    BY <2>1, <2>2, NewerFinite, FS_Subset
  <2>4. Cardinality(Newer(d)) <= Cardinality(Newer(e))
    BY <1>2, <1>3, <1>4
  <2>5. Cardinality(Newer(d)) \in Nat /\ Cardinality(Newer(e)) \in Nat
    BY NewerFinite
  <2> QED
    BY <2>3, <2>4, <2>5
<1> QED
  BY <1>3, <1>4

\* The rows that leave have run_retention newer ones each; what has as many
\* keeps them.
LEMMA PrunedKeepRank ==
  ASSUME TypeOK, UNCHANGED startedAt, NEW V,
         \A o \in Runs : runs'[o] = IF o \in V THEN "none" ELSE runs[o],
         \A v \in V \cap Runs : Cardinality(Newer(v)) >= RunRetention,
         NEW x \in Runs, Cardinality(Newer(x)) >= RunRetention
  PROVE  Cardinality(Newer(x)') >= RunRetention
<1> DEFINE D == Newer(x) \cap V
<1>1. Newer(x)' = Newer(x) \ V
  BY DEF Newer
<1>2. IsFiniteSet(Newer(x) \ V) /\ Cardinality(Newer(x) \ V) \in Nat
  <2>1. Newer(x) \ V \subseteq Newer(x)
    OBVIOUS
  <2> QED
    BY <2>1, NewerFinite, FS_Subset, FS_CardinalityType
<1>3. CASE D = {}
  <2>1. Newer(x)' = Newer(x)
    BY <1>1, <1>3
  <2> QED
    BY <2>1
<1>4. CASE D # {}
  <2>1. D \in SUBSET Runs /\ \A d \in D : runs[d] # "none"
    BY DEF Newer
  <2>2. PICK d \in D : Newer(d) \cap D = {}
    BY <1>4, <2>1, NewestOf
  <2>3. Newer(d) \subseteq Newer(x)
    BY <2>2 DEF Newer, TypeOK
  <2>4. Newer(d) \subseteq Newer(x) \ V
    BY <2>2, <2>3
  <2>5. Cardinality(Newer(d)) <= Cardinality(Newer(x) \ V)
    BY <1>2, <2>4, FS_Subset
  <2>6. Cardinality(Newer(d)) >= RunRetention /\ Cardinality(Newer(d)) \in Nat
    BY <2>1, <2>2, NewerFinite
  <2> QED
    BY <1>1, <1>2, <2>5, <2>6
<1> QED
  BY <1>3, <1>4

\* Steps that leave the rows alone and read none.
LEMMA PruneKept ==
  ASSUME PruneInv, TypeOK, UNCHANGED <<runs, startedAt>>,
         \A r \in Runs : victims'[r] \subseteq victims[r],
         \A r \in Runs : pc[r] \in Persisted => pc'[r] \in Persisted
  PROVE  PruneInv'
<1>1. \A r : Newer(r)' = Newer(r)
  BY DEF Newer
<1>2. ASSUME NEW r \in Runs, NEW v \in victims'[r]
      PROVE  pc'[v] \in Persisted /\ Cardinality(Newer(v)') >= RunRetention
  <2>1. v \in victims[r] /\ v \in Runs
    BY DEF TypeOK
  <2> QED
    BY <1>1, <2>1 DEF PruneInv
<1>3. \A r \in Runs : runs'[r] # "none" => pc'[r] \in Persisted
  BY DEF PruneInv
<1> QED
  BY <1>2, <1>3 DEF PruneInv

\* The run that is claimed has no row yet.
LEMMA ClaimPrune ==
  ASSUME IInv, PruneInv, NEW r \in Runs, claim_run(r) PROVE PruneInv'
<1>1. /\ pc[r] = "claim" /\ UNCHANGED <<runs, victims>>
      /\ \A o \in Runs \ {r} : pc'[o] = pc[o] /\ startedAt'[o] = startedAt[o]
  BY DEF claim_run, IInv, TypeOK
<1>2. runs[r] = "none" /\ \A q \in Runs : r \notin victims[q]
  BY <1>1 DEF PruneInv, Persisted
<1>3. \A o \in Runs \ {r} : Newer(o)' = Newer(o)
  BY <1>1, <1>2 DEF Newer
<1>4. ASSUME NEW q \in Runs, NEW v \in victims'[q]
      PROVE  pc'[v] \in Persisted /\ Cardinality(Newer(v)') >= RunRetention
  <2>1. v \in victims[q] /\ v \in Runs \ {r}
    BY <1>1, <1>2 DEF IInv, TypeOK
  <2> QED
    BY <1>1, <1>3, <2>1 DEF PruneInv
<1>5. \A q \in Runs : runs'[q] # "none" => pc'[q] \in Persisted
  BY <1>1, <1>2 DEF PruneInv
<1> QED
  BY <1>4, <1>5 DEF PruneInv

\* A row that is added is newer than some and takes none away.
LEMMA PersistPrune ==
  ASSUME IInv, PruneInv, NEW r \in Runs, persist_completed_run(r) PROVE PruneInv'
<1>1. /\ pc'[r] \in Persisted /\ UNCHANGED <<startedAt, victims>> /\ runs'[r] # "none"
      /\ \A o \in Runs \ {r} : pc'[o] = pc[o] /\ runs'[o] = runs[o]
  BY DEF persist_completed_run, IInv, TypeOK, Persisted, Outcomes
<1>2. ASSUME NEW v \in Runs, Cardinality(Newer(v)) >= RunRetention
      PROVE  Cardinality(Newer(v)') >= RunRetention
  <2>1. Newer(v) \subseteq Newer(v)' /\ Newer(v)' \subseteq Runs
    BY <1>1 DEF Newer
  <2>2. IsFiniteSet(Newer(v)')
    BY <2>1, FS_Subset
  <2>3. Cardinality(Newer(v)') \in Nat /\ Cardinality(Newer(v)) \in Nat
    BY <2>2, NewerFinite, FS_CardinalityType
  <2>4. Cardinality(Newer(v)) <= Cardinality(Newer(v)')
    BY <2>1, <2>2, FS_Subset
  <2> QED
    BY <1>2, <2>3, <2>4
<1>3. ASSUME NEW q \in Runs, NEW v \in victims'[q]
      PROVE  pc'[v] \in Persisted /\ Cardinality(Newer(v)') >= RunRetention
  <2>1. v \in victims[q] /\ v \in Runs
    BY <1>1 DEF IInv, TypeOK
  <2>2. pc[v] \in Persisted /\ Cardinality(Newer(v)) >= RunRetention
    BY <2>1 DEF PruneInv
  <2> QED
    BY <1>1, <1>2, <2>1, <2>2
<1>4. \A q \in Runs : runs'[q] # "none" => pc'[q] \in Persisted
  BY <1>1 DEF PruneInv
<1> QED
  BY <1>3, <1>4 DEF PruneInv

\* The rows that are read have the rank they are read for.
LEMMA QueryPrune ==
  ASSUME IInv, PruneInv, NEW r \in Runs, query_pruned_run_ids(r) PROVE PruneInv'
<1>1. /\ UNCHANGED <<runs, startedAt>>
      /\ victims'[r] = {o \in Runs : runs[o] # "none" /\ Cardinality(Newer(o)) >= RunRetention}
      /\ \A o \in Runs \ {r} : pc'[o] = pc[o] /\ victims'[o] = victims[o]
      /\ pc'[r] \in Persisted
  BY DEF query_pruned_run_ids, IInv, TypeOK, Persisted
<1>2. \A o : Newer(o)' = Newer(o)
  BY <1>1 DEF Newer
<1>3. \A o \in Runs : pc[o] \in Persisted => pc'[o] \in Persisted
  BY <1>1
<1>4. ASSUME NEW q \in Runs, NEW v \in victims'[q]
      PROVE  pc'[v] \in Persisted /\ Cardinality(Newer(v)') >= RunRetention
  <2>1. CASE q = r
    BY <1>1, <1>2, <1>3, <2>1 DEF PruneInv
  <2>2. CASE q # r
    <3>1. v \in victims[q] /\ v \in Runs
      BY <1>1, <2>2 DEF IInv, TypeOK
    <3> QED
      BY <1>2, <1>3, <3>1 DEF PruneInv
  <2> QED
    BY <2>1, <2>2
<1>5. \A q \in Runs : runs'[q] # "none" => pc'[q] \in Persisted
  BY <1>1, <1>3 DEF PruneInv
<1> QED
  BY <1>4, <1>5 DEF PruneInv

\* Two workers prune at the same time: what one removes costs the rows that
\* the other is about to remove nothing.
LEMMA DeletePrune ==
  ASSUME IInv, PruneInv, NEW r \in Runs, prune_runs(r) PROVE PruneInv'
<1>1. /\ UNCHANGED startedAt
      /\ \A o \in Runs : runs'[o] = IF o \in victims[r] THEN "none" ELSE runs[o]
      /\ \A o \in Runs : victims'[o] \subseteq victims[o]
      /\ \A o \in Runs \ {r} : pc'[o] = pc[o]
      /\ pc'[r] \in Persisted
  BY DEF prune_runs, IInv, TypeOK, Persisted
<1>2. \A v \in victims[r] \cap Runs : Cardinality(Newer(v)) >= RunRetention
  BY DEF PruneInv
<1>3. \A v \in Runs : Cardinality(Newer(v)) >= RunRetention
                        => Cardinality(Newer(v)') >= RunRetention
  BY <1>1, <1>2, PrunedKeepRank DEF IInv
<1>4. ASSUME NEW q \in Runs, NEW v \in victims'[q]
      PROVE  pc'[v] \in Persisted /\ Cardinality(Newer(v)') >= RunRetention
  <2>1. v \in victims[q] /\ v \in Runs
    BY <1>1 DEF IInv, TypeOK
  <2> QED
    BY <1>1, <1>3, <2>1 DEF PruneInv
<1>5. \A q \in Runs : runs'[q] # "none" => pc'[q] \in Persisted
  BY <1>1 DEF PruneInv
<1> QED
  BY <1>4, <1>5 DEF PruneInv

\* The other steps of a worker.
LEMMA WorkerPrune == ASSUME IInv, PruneInv, NEW r \in Runs, Worker(r) PROVE PruneInv'
<1> USE DEF IInv, TypeOK, Persisted
<1>1. CASE \/ execute_run(r) \/ slot_wait(r) \/ execute_run_with_slot(r)
           \/ registered_command(r)
  BY <1>1, PruneKept DEF execute_run, slot_wait, execute_run_with_slot, registered_command
<1>2. CASE Drive(r)
  BY <1>2, PruneKept DEF Drive, spawn_child, register_process, try_wait, cancellation_state,
     finish_resources
<1>3. CASE collect_artifacts(r) \/ run_error(r) \/ finalize_failed_job(r)
  BY <1>3, PruneKept DEF collect_artifacts, run_error, finalize_failed_job
<1>4. CASE release_run_slot(r)
  BY <1>4, PruneKept DEF release_run_slot
<1> QED
  BY <1>1, <1>2, <1>3, <1>4, ClaimPrune, PersistPrune, QueryPrune, DeletePrune
    DEF Worker, Claim, Complete

\* Clients, processes, close() and open() prune nothing.
LEMMA OtherPrune ==
  ASSUME IInv, PruneInv,
         \/ \E c \in Clients : Submit(c) \/ Cancel(c)
         \/ \E r \in Runs : (\E how \in {"ok", "bad"} : child_exit(r, how)) \/ timeout_reached(r)
         \/ close \/ Shutdown \/ open \/ UNCHANGED vars
  PROVE  PruneInv'
<1> USE DEF IInv, TypeOK, Persisted
<1>1. CASE open
  BY <1>1, PruneKept DEF open
<1>2. CASE notify_all
  BY <1>2, PruneKept DEF notify_all
<1>3. ASSUME NEW c \in Clients, start_run_worker(c) PROVE PruneInv'
  <2>1. pc[client[c].run] = "none" /\ client[c].run \in Runs
    BY <1>3 DEF start_run_worker, ClientInv
  <2> QED
    BY <1>3, <2>1, PruneKept DEF start_run_worker
<1>4. ASSUME UNCHANGED <<runs, startedAt, victims, pc>> PROVE PruneInv'
  BY <1>4, PruneKept
<1>5. ASSUME NEW c \in Clients, Submit(c) \/ Cancel(c), ~start_run_worker(c) PROVE PruneInv'
  BY <1>4, <1>5 DEF Submit, Cancel, submit_lookup, submit_insert, start_run_worker_fails,
     retain_run_thread, client_refused, cancel_run, cancel_job, cancel_write
<1>6. CASE \/ \E r \in Runs : (\E how \in {"ok", "bad"} : child_exit(r, how)) \/ timeout_reached(r)
           \/ close \/ (Shutdown /\ ~notify_all) \/ UNCHANGED vars
  BY <1>4, <1>6 DEF vars, Shutdown, child_exit, timeout_reached, close,
     terminate_active_processes, drain_run_threads, join_workers, take_pool
<1> QED
  BY <1>1, <1>2, <1>3, <1>5, <1>6

\* PruneKeepsNewest: however many workers prune, and however old the ids are
\* that they read, no run leaves that is among the run_retention newest.
THEOREM NewestRunsStay == Spec => PruneKeepsNewest
<1>1. Init => PruneInv
  BY DEF Init, PruneInv
<1>2. IInv /\ PruneInv /\ [Next]_vars => PruneInv'
  BY WorkerPrune, OtherPrune DEF Next
<1>3. IInv /\ PruneInv /\ [Next]_vars =>
        [\A r \in Runs : runs[r] # "none" /\ runs'[r] = "none"
            => Cardinality(Newer(r)) >= RunRetention]_vars
  <2> SUFFICES ASSUME IInv, PruneInv, Next, NEW r \in Runs,
                      runs[r] # "none", runs'[r] = "none"
               PROVE  Cardinality(Newer(r)) >= RunRetention
    BY DEF vars
  <2>1. ASSUME NEW o \in Runs, prune_runs(o) PROVE Cardinality(Newer(r)) >= RunRetention
    <3>1. r \in victims[o]
      BY <2>1 DEF prune_runs
    <3> QED
      BY <3>1 DEF PruneInv
  <2>2. ASSUME NEW o \in Runs, persist_completed_run(o) PROVE FALSE
    BY <2>2 DEF persist_completed_run, IInv, TypeOK, Outcomes
  <2>3. ASSUME NEW o \in Runs, Worker(o), ~prune_runs(o), ~persist_completed_run(o) PROVE FALSE
    BY <2>3 DEF Worker, Claim, Drive, Complete, execute_run, slot_wait,
       execute_run_with_slot, claim_run, registered_command, spawn_child, register_process,
       try_wait, cancellation_state, finish_resources, collect_artifacts,
       query_pruned_run_ids, run_error, release_run_slot, finalize_failed_job
  <2>4. ASSUME NEW c \in Clients, Submit(c) \/ Cancel(c) PROVE FALSE
    BY <2>4 DEF Submit, Cancel, submit_lookup, submit_insert, start_run_worker,
       start_run_worker_fails, retain_run_thread, client_refused, cancel_run, cancel_job,
       cancel_write
  <2>5. CASE \/ \E o \in Runs : (\E how \in {"ok", "bad"} : child_exit(o, how)) \/ timeout_reached(o)
             \/ close \/ Shutdown \/ open
    BY <2>5 DEF child_exit, timeout_reached, close, Shutdown, notify_all,
           terminate_active_processes, drain_run_threads, join_workers, take_pool, open
  <2> QED
    BY <2>1, <2>2, <2>3, <2>4, <2>5 DEF Next
<1> QED
  BY <1>1, <1>2, <1>3, Invariance, PTL DEF Spec, PruneKeepsNewest

=============================================================================
