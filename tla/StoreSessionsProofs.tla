------------------------- MODULE StoreSessionsProofs -------------------------
(***************************************************************************)
(* Proofs of the safety properties of StoreSessions, for every number of   *)
(* repositories, requests, stores, connections, permits and faults.        *)
(***************************************************************************)
EXTENDS StoreSessions, TLAPS

USE SessionsAssumption DEF serverVars, cacheVars, storeVars, opVars, askVars, placeVars, runVars

-----------------------------------------------------------------------------
(* Initial states. *)

\* The invariant holds initially, whichever stores earlier requests opened.
LEMMA InitInv == Init => IInv
<1> SUFFICES ASSUME Init PROVE IInv
  OBVIOUS
<1>1. \A s \in Stores : /\ repo[s] \in Repos \cup {None}
                        /\ repo[s] # None => Opened[repo[s]] = s
  <2> TAKE s \in Stores
  <2>1. CASE \E r \in Repos : Opened[r] = s
    BY <2>1 DEF Init
  <2>2. CASE ~ \E r \in Repos : Opened[r] = s
    BY <2>2 DEF Init
  <2> QED
    BY <2>1, <2>2
<1>2. \A r \in Repos : Opened[r] # None => repo[Opened[r]] = r
  <2> TAKE r \in Repos
  <2> SUFFICES ASSUME Opened[r] # None PROVE repo[Opened[r]] = r
    OBVIOUS
  <2> DEFINE s == Opened[r]
  <2>1. s \in Stores /\ \E q \in Repos : Opened[q] = s
    OBVIOUS
  <2>2. repo[s] = CHOOSE q \in Repos : Opened[q] = s
    BY <2>1 DEF Init
  <2>3. repo[s] \in Repos /\ Opened[repo[s]] = s
    BY <2>1, <2>2
  <2> QED
    BY <2>1, <2>3
<1>3. repo \in [Stores -> Repos \cup {None}]
  BY <1>1 DEF Init
<1>4. TypeOK
  BY <1>3 DEF Init, TypeOK, Callers, Steps, OpSteps, BeforeOp, Stages, CloseSteps
<1>5. PlaceInv
  BY DEF Init, PlaceInv, Callers, OpSteps
<1>6. HoldInv
  BY DEF Init, HoldInv, Callers, OpSteps
<1>7. OwnInv
  BY <1>1, <1>2, <1>3 DEF Init, OwnInv, Owned, Ensuring, Callers, OpSteps
<1>8. CloseInv
  BY DEF Init, CloseInv
<1>9. ApplyInv
  BY DEF Init, ApplyInv, Callers, OpSteps
<1> QED
  BY <1>4, <1>5, <1>6, <1>7, <1>8, <1>9 DEF IInv

-----------------------------------------------------------------------------
(* One lemma per action, one step per part of the invariant. *)

\* A new request has a repository and holds nothing.
LEMMA SpawnConnectionInv == ASSUME IInv, NEW q \in Requests, spawn_connection(q) PROVE IInv'
<1> USE DEF IInv
<1>1. TypeOK'
  BY DEF TypeOK, Callers, Steps, BeforeOp, spawn_connection, Goto
<1>2. PlaceInv'
  BY DEF TypeOK, OpSteps, PlaceInv, spawn_connection, Goto
<1>3. HoldInv'
  BY DEF OpSteps, HoldInv, Ensuring, spawn_connection, Goto
<1>4. OwnInv'
  BY DEF OpSteps, OwnInv, Ensuring, Owned, spawn_connection, Goto
<1>5. CloseInv'
  BY DEF CloseInv, spawn_connection
<1>6. ApplyInv'
  BY DEF OpSteps, ApplyInv, spawn_connection, Goto
<1> QED
  BY <1>1, <1>2, <1>3, <1>4, <1>5, <1>6

\* A permit is held from here on.
LEMMA AcquirePermitInv == ASSUME IInv, NEW q \in Requests, acquire_permit(q) PROVE IInv'
<1> USE DEF IInv
<1>1. TypeOK'
  BY DEF TypeOK, Steps, BeforeOp, acquire_permit, Goto
<1>2. PlaceInv'
  BY DEF OpSteps, PlaceInv, acquire_permit, Goto
<1>3. HoldInv'
  BY DEF TypeOK, Callers, OpSteps, Stages, HoldInv, Ensuring, acquire_permit, Goto
<1>4. OwnInv'
  BY DEF OpSteps, OwnInv, Ensuring, Owned, acquire_permit, Goto
<1>5. CloseInv'
  BY DEF CloseInv, acquire_permit
<1>6. ApplyInv'
  BY DEF OpSteps, ApplyInv, acquire_permit, Goto
<1> QED
  BY <1>1, <1>2, <1>3, <1>4, <1>5, <1>6

\* A request that waits for its permit holds nothing.
LEMMA RequestTimeoutInv == ASSUME IInv, NEW q \in Requests, request_timeout(q) PROVE IInv'
<1> USE DEF IInv
<1>1. TypeOK'
  BY DEF TypeOK, Steps, OpSteps, Stages, request_timeout, Answer, Goto
<1>2. PlaceInv'
  BY DEF OpSteps, PlaceInv, request_timeout, Answer, Goto
<1>3. HoldInv'
  BY DEF OpSteps, HoldInv, Ensuring, request_timeout, Answer, Goto
<1>4. OwnInv'
  BY DEF TypeOK, OwnInv, Ensuring, Owned, request_timeout, Answer, Goto
<1>5. CloseInv'
  BY DEF CloseInv, request_timeout
<1>6. ApplyInv'
  BY DEF TypeOK, ApplyInv, request_timeout, Answer, Goto
<1> QED
  BY <1>1, <1>2, <1>3, <1>4, <1>5, <1>6

\* A request that is refused gives its permit back.
LEMMA RegisterRepositoryFailsInv == ASSUME IInv, NEW q \in Requests, register_repository_fails(q) PROVE IInv'
<1> USE DEF IInv
<1>1. TypeOK'
  BY DEF TypeOK, Callers, Steps, Stages, register_repository_fails, Fault, Answer, Goto
<1>2. PlaceInv'
  BY DEF OpSteps, PlaceInv, register_repository_fails, Answer, Goto
<1>3. HoldInv'
  BY DEF OpSteps, HoldInv, PlaceInv, Ensuring, register_repository_fails, Answer, Goto
<1>4. OwnInv'
  BY DEF TypeOK, OwnInv, Ensuring, Owned, register_repository_fails, Answer, Goto
<1>5. CloseInv'
  BY DEF CloseInv, register_repository_fails
<1>6. ApplyInv'
  BY DEF TypeOK, ApplyInv, register_repository_fails, Answer, Goto
<1> QED
  BY <1>1, <1>2, <1>3, <1>4, <1>5, <1>6

\* The open gate goes to a request that is about to look for its store.
LEMMA LockStoreOpenGateInv == ASSUME IInv, NEW q \in Requests, lock_store_open_gate(q) PROVE IInv'
<1> USE DEF IInv
<1>1. TypeOK'
  BY DEF TypeOK, Steps, BeforeOp, lock_store_open_gate, Goto
<1>2. PlaceInv'
  BY DEF OpSteps, PlaceInv, lock_store_open_gate, Goto
<1>3. HoldInv'
  BY DEF TypeOK, Callers, OpSteps, HoldInv, PlaceInv, lock_store_open_gate, Goto
<1>4. OwnInv'
  BY DEF OpSteps, OwnInv, Ensuring, Owned, lock_store_open_gate, Goto
<1>5. CloseInv'
  BY DEF CloseInv, lock_store_open_gate
<1>6. ApplyInv'
  BY DEF OpSteps, ApplyInv, lock_store_open_gate, Goto
<1> QED
  BY <1>1, <1>2, <1>3, <1>4, <1>5, <1>6

\* A cached store owns its lease and is not about to be closed, and the stores
\* mutex keeps it so.
LEMMA FindStoreInv == ASSUME IInv, NEW q \in Requests, find_store(q) PROVE IInv'
<1> USE DEF IInv
<1>1. TypeOK'
  <2>1. cache[target[q]] \in Stores
    BY DEF TypeOK, PlaceInv, find_store
  <2> QED
    BY <2>1 DEF TypeOK, Callers, Steps, OpSteps, Stages, find_store, Begin, Goto
<1>2. PlaceInv'
  BY DEF TypeOK, PlaceInv, find_store, Begin, Goto
<1>3. HoldInv'
  BY DEF TypeOK, Callers, OpSteps, Stages, HoldInv, Ensuring, find_store, Begin, Goto
<1>4. OwnInv'
  BY DEF TypeOK, OwnInv, PlaceInv, Ensuring, Owned, find_store, Begin, Goto
<1>5. CloseInv'
  BY DEF CloseInv, find_store
<1>6. ApplyInv'
  BY DEF TypeOK, ApplyInv, find_store, Begin, Goto
<1> QED
  BY <1>1, <1>2, <1>3, <1>4, <1>5, <1>6

\* The repository's lease was free, so no store with a pool has it, and the new
\* store is none of those that are to be closed.
LEMMA OpenInv == ASSUME IInv, NEW q \in Requests, open(q) PROVE IInv'
<1> USE DEF IInv
<1>1. TypeOK'
  <2>1. target[q] \in Repos
    BY DEF PlaceInv, open
  <2>2. /\ repo' \in [Stores -> Repos \cup {None}] /\ lease' \in [Repos -> Stores \cup {None}]
        /\ pool' \in [Stores -> BOOLEAN]
    BY <2>1 DEF TypeOK, open
  <2>3. /\ pc' \in [Callers -> Steps] /\ at' \in [Callers -> Stores \cup {None}]
        /\ stage' \in [Callers -> Stages] /\ result' \in [Callers -> {"none", "ok", "error"}]
        /\ late' \in SUBSET Callers /\ cut' \in SUBSET Callers
    BY DEF TypeOK, Callers, Steps, OpSteps, Stages, open, Begin, Goto
  <2> QED
    BY <2>2, <2>3 DEF TypeOK, open
<1>2. PlaceInv'
  BY DEF TypeOK, PlaceInv, open, Begin, Goto
<1>3. HoldInv'
  BY DEF TypeOK, Callers, OpSteps, HoldInv, Ensuring, open, Begin, Goto
<1>4. OwnInv'
  BY DEF TypeOK, OwnInv, HoldInv, PlaceInv, Ensuring, Owned, open, Begin, Goto
<1>5. CloseInv'
  BY DEF CloseInv, OwnInv, open
<1>6. ApplyInv'
  BY DEF TypeOK, OpSteps, ApplyInv, PlaceInv, open, Begin, Goto
<1> QED
  BY <1>1, <1>2, <1>3, <1>4, <1>5, <1>6

\* A failed open leaves no store and gives up both locks.
LEMMA OpenFailsInv == ASSUME IInv, NEW q \in Requests, open_fails(q) PROVE IInv'
<1> USE DEF IInv
<1>1. TypeOK'
  BY DEF TypeOK, Callers, Steps, Stages, open_fails, Fault, Answer, Goto
<1>2. PlaceInv'
  BY DEF OpSteps, PlaceInv, open_fails, Answer, Goto
<1>3. HoldInv'
  BY DEF TypeOK, HoldInv, open_fails, Answer, Goto
<1>4. OwnInv'
  BY DEF TypeOK, OwnInv, Ensuring, Owned, open_fails, Answer, Goto
<1>5. CloseInv'
  BY DEF CloseInv, open_fails
<1>6. ApplyInv'
  BY DEF TypeOK, ApplyInv, open_fails, Answer, Goto
<1> QED
  BY <1>1, <1>2, <1>3, <1>4, <1>5, <1>6

\* The write gate is held by a caller that will release it.
LEMMA WriteGateInv == ASSUME IInv, NEW c \in Callers, write_gate(c) PROVE IInv'
<1> USE DEF IInv
<1>1. TypeOK'
  BY DEF TypeOK, Steps, OpSteps, write_gate, Goto
<1>2. PlaceInv'
  BY DEF OpSteps, PlaceInv, write_gate, Goto
<1>3. HoldInv'
  BY DEF TypeOK, OpSteps, HoldInv, Ensuring, write_gate, Goto
<1>4. OwnInv'
  BY DEF OpSteps, OwnInv, Ensuring, Owned, write_gate, Goto
<1>5. CloseInv'
  BY DEF CloseInv, write_gate
<1>6. ApplyInv'
  BY DEF OpSteps, ApplyInv, write_gate, Goto
<1> QED
  BY <1>1, <1>2, <1>3, <1>4, <1>5, <1>6

\* A refused operation releases the write gate.
LEMMA EnsureStoreOpenInv == ASSUME IInv, NEW c \in Callers, ensure_store_open(c) PROVE IInv'
<1> USE DEF IInv
<1>1. TypeOK'
  <2>1. at[c] \in Stores
    BY DEF PlaceInv, OpSteps, ensure_store_open
  <2>2. CASE closing[at[c]] \/ ~pool[at[c]]
    <3>1. writer' \in [Stores -> Callers \cup {None}]
      BY <2>1, <2>2 DEF TypeOK, ensure_store_open, Fail, Release
    <3>2. active' \in [Stores -> SUBSET Callers] /\ conns' \in [Stores -> SUBSET Callers]
      BY <2>1, <2>2 DEF TypeOK, ensure_store_open, Fail, Release
    <3>3. pc' \in [Callers -> Steps]
      BY <2>2 DEF TypeOK, Steps, OpSteps, ensure_store_open, Fail, Goto
    <3>4. result' \in [Callers -> {"none", "ok", "error"}]
      BY <2>2 DEF TypeOK, ensure_store_open, Fail
    <3> QED
      BY <3>1, <3>2, <3>3, <3>4 DEF TypeOK, ensure_store_open
  <2>3. CASE ~(closing[at[c]] \/ ~pool[at[c]])
    BY <2>3 DEF TypeOK, Steps, OpSteps, ensure_store_open, Goto
  <2> QED
    BY <2>2, <2>3
<1>2. PlaceInv'
  <2>1. \A d \in Callers : pc'[d] = pc[d] \/ (pc[d] \in OpSteps /\ pc'[d] \in {"settle", "checkout"})
    BY DEF TypeOK, OpSteps, Callers, ensure_store_open, Fail, Goto
  <2> QED
    BY <2>1 DEF PlaceInv, OpSteps, Callers, ensure_store_open
<1>3. HoldInv'
  BY DEF TypeOK, Callers, Steps, BeforeOp, OpSteps, Stages, CloseSteps, HoldInv, PlaceInv,
         Ensuring, ensure_store_open, Fail, Release, Goto
<1>4. OwnInv'
  BY DEF TypeOK, Callers, OpSteps, OwnInv, Ensuring, Owned, ensure_store_open, Fail, Goto
<1>5. CloseInv'
  BY DEF CloseInv, ensure_store_open
<1>6. ApplyInv'
  BY DEF TypeOK, Callers, OpSteps, ApplyInv, ensure_store_open, Fail, Goto
<1> QED
  BY <1>1, <1>2, <1>3, <1>4, <1>5, <1>6

\* The connection and the tracker entry belong to the store the caller is at.
LEMMA CheckoutInv == ASSUME IInv, NEW c \in Callers, checkout(c) PROVE IInv'
<1> USE DEF IInv
<1>1. TypeOK'
  <2>1. at[c] \in Stores
    BY DEF PlaceInv, OpSteps, checkout
  <2>2. writer' \in [Stores -> Callers \cup {None}]
    BY <2>1 DEF TypeOK, Callers, checkout, Goto
  <2>3. active' \in [Stores -> SUBSET Callers] /\ conns' \in [Stores -> SUBSET Callers]
    BY <2>1 DEF TypeOK, Callers, checkout, Goto
  <2> QED
    BY <2>2, <2>3 DEF TypeOK, Callers, Steps, OpSteps, Stages, checkout, Goto
<1>2. PlaceInv'
  BY DEF OpSteps, PlaceInv, checkout, Goto
<1>3. HoldInv'
  BY DEF TypeOK, OpSteps, HoldInv, Ensuring, checkout, Goto
<1>4. OwnInv'
  BY DEF OpSteps, OwnInv, Ensuring, Owned, checkout, Goto
<1>5. CloseInv'
  BY DEF CloseInv, checkout
<1>6. ApplyInv'
  BY DEF OpSteps, ApplyInv, checkout, Goto
<1> QED
  BY <1>1, <1>2, <1>3, <1>4, <1>5, <1>6

\* A caller that gets no connection releases the write gate.
LEMMA CheckoutBusyInv == ASSUME IInv, NEW c \in Callers, checkout_busy(c) PROVE IInv'
<1> USE DEF IInv
<1>1. TypeOK'
  <2>1. at[c] \in Stores
    BY DEF PlaceInv, OpSteps, checkout_busy
  <2>2. writer' \in [Stores -> Callers \cup {None}]
    BY <2>1 DEF TypeOK, Callers, checkout_busy, Fail, Release, Goto
  <2>3. active' \in [Stores -> SUBSET Callers] /\ conns' \in [Stores -> SUBSET Callers]
    BY <2>1 DEF TypeOK, Callers, checkout_busy, Fail, Release, Goto
  <2> QED
    BY <2>2, <2>3 DEF TypeOK, Callers, Steps, OpSteps, Stages, checkout_busy, Fail, Release, Goto
<1>2. PlaceInv'
  BY DEF OpSteps, PlaceInv, checkout_busy, Fail, Goto
<1>3. HoldInv'
  BY DEF TypeOK, Callers, OpSteps, HoldInv, Ensuring, checkout_busy, Fail, Release, Goto
<1>4. OwnInv'
  BY DEF OpSteps, OwnInv, Ensuring, Owned, checkout_busy, Fail, Goto
<1>5. CloseInv'
  BY DEF CloseInv, checkout_busy
<1>6. ApplyInv'
  BY DEF TypeOK, OpSteps, ApplyInv, checkout_busy, Fail, Goto
<1> QED
  BY <1>1, <1>2, <1>3, <1>4, <1>5, <1>6

\* A watchdog changes no result by itself.
LEMMA WatchdogInv == ASSUME IInv, NEW c \in Callers, watchdog(c) PROVE IInv'
<1> USE DEF IInv
<1>1. TypeOK'
  BY DEF TypeOK, watchdog, Fault
<1>2. PlaceInv'
  BY DEF PlaceInv, watchdog
<1>3. HoldInv'
  BY DEF HoldInv, Ensuring, watchdog
<1>4. OwnInv'
  BY DEF OwnInv, HoldInv, Ensuring, Owned, watchdog
<1>5. CloseInv'
  BY DEF CloseInv, watchdog
<1>6. ApplyInv'
  BY DEF ApplyInv, watchdog
<1> QED
  BY <1>1, <1>2, <1>3, <1>4, <1>5, <1>6

\* A success is a change of the store the request asked for.
LEMMA RunOperationInv == ASSUME IInv, NEW c \in Callers, run_operation(c) PROVE IInv'
<1> USE DEF IInv
<1>1. TypeOK'
  <2>1. at[c] \in Stores
    BY DEF PlaceInv, OpSteps, run_operation
  <2>2. result' \in [Callers -> {"none", "ok", "error"}]
    BY DEF TypeOK, run_operation
  <2>3. applied' \in [Callers -> Stores \cup {None}]
    BY <2>1 DEF TypeOK, run_operation
  <2>4. faults' \in 0..MaxFaults
    BY DEF TypeOK, run_operation
  <2> QED
    BY <2>2, <2>3, <2>4 DEF TypeOK, Steps, OpSteps, run_operation, Goto
<1>2. PlaceInv'
  BY DEF OpSteps, PlaceInv, run_operation, Goto
<1>3. HoldInv'
  BY DEF OpSteps, HoldInv, Ensuring, run_operation, Goto
<1>4. OwnInv'
  BY DEF OpSteps, OwnInv, Ensuring, Owned, run_operation, Goto
<1>5. CloseInv'
  BY DEF CloseInv, run_operation
<1>6. ApplyInv'
  BY DEF TypeOK, Callers, OpSteps, ApplyInv, run_operation, Goto
<1> QED
  BY <1>1, <1>2, <1>3, <1>4, <1>5, <1>6

\* Everything the operation held is released, and no error becomes a success.
LEMMA RunWithTimeoutInv == ASSUME IInv, NEW c \in Callers, run_with_timeout(c) PROVE IInv'
<1> USE DEF IInv
<1>1. TypeOK'
  <2>1. at[c] \in Stores
    BY DEF PlaceInv, OpSteps, run_with_timeout
  <2>2. writer' \in [Stores -> Callers \cup {None}]
    BY <2>1 DEF TypeOK, Callers, run_with_timeout, Release, Goto
  <2>3. active' \in [Stores -> SUBSET Callers] /\ conns' \in [Stores -> SUBSET Callers]
    BY <2>1 DEF TypeOK, Callers, run_with_timeout, Release, Goto
  <2> QED
    BY <2>2, <2>3 DEF TypeOK, Callers, Steps, OpSteps, Stages, run_with_timeout, Release, Goto
<1>2. PlaceInv'
  BY DEF OpSteps, PlaceInv, run_with_timeout, Goto
<1>3. HoldInv'
  BY DEF TypeOK, Callers, OpSteps, HoldInv, Ensuring, run_with_timeout, Release, Goto
<1>4. OwnInv'
  BY DEF OpSteps, OwnInv, Ensuring, Owned, run_with_timeout, Goto
<1>5. CloseInv'
  BY DEF CloseInv, PlaceInv, run_with_timeout, Release
<1>6. ApplyInv'
  BY DEF OpSteps, ApplyInv, run_with_timeout, Goto
<1> QED
  BY <1>1, <1>2, <1>3, <1>4, <1>5, <1>6

\* The store that enters the cache owns its lease and is not about to be
\* closed, since the stores mutex was held all the time.
LEMMA UseStoreInv == ASSUME IInv, NEW q \in Requests, use_store(q) PROVE IInv'
<1> USE DEF IInv
<1> DEFINE Fails == result[q] # "ok" /\ Answer(q, "error") /\ UNCHANGED cache
           Works == /\ Begin(q, at[q], "work", kind[q] \in Writing)
                    /\ cache' = [cache EXCEPT ![target[q]] = at[q]]
                    /\ UNCHANGED <<permits, todo>>
           Lists == /\ Goto(q, "list_lock")
                    /\ cache' = [cache EXCEPT ![target[q]] = at[q]]
                    /\ UNCHANGED <<permits, todo, at, stage, result, late, cut>>
<1>0. /\ Fails \/ (Works /\ kind[q] # "list") \/ (Lists /\ kind[q] = "list")
      /\ pc[q] = "settle" /\ stage[q] \in {"ensure", "ensure_new"}
      /\ at[q] \in Stores /\ target[q] \in Repos /\ q \in Callers
      /\ storesLock' = None /\ openGate' = None
      /\ UNCHANGED <<serverVars, storeVars, opVars, askVars, applied, faults>>
  BY DEF PlaceInv, OpSteps, Callers, use_store
<1>1. TypeOK'
  <2>1. CASE Fails
    BY <1>0, <2>1 DEF TypeOK, Callers, Steps, OpSteps, Stages, Answer, Goto
  <2>2. CASE Works
    BY <1>0, <2>2 DEF TypeOK, Callers, Steps, OpSteps, Stages, Begin, Goto
  <2>3. CASE Lists
    BY <1>0, <2>3 DEF TypeOK, Steps, BeforeOp, Goto
  <2> QED
    BY <1>0, <2>1, <2>2, <2>3
<1>2. PlaceInv'
  <2>1. CASE Fails
    BY <1>0, <2>1 DEF TypeOK, PlaceInv, Callers, OpSteps, Answer, Goto
  <2>2. CASE Works
    BY <1>0, <2>2 DEF TypeOK, PlaceInv, Callers, OpSteps, Begin, Goto
  <2>3. CASE Lists
    BY <1>0, <2>3 DEF TypeOK, PlaceInv, Callers, OpSteps, Goto
  <2> QED
    BY <1>0, <2>1, <2>2, <2>3
<1>3. HoldInv'
  <2>1. storesLock = q /\ \A t \in Stores : q \notin conns[t] \cup active[t] /\ writer[t] # q
    BY <1>0 DEF HoldInv, OpSteps
  <2>2. \A d \in Callers : d # q => pc'[d] = pc[d] /\ at'[d] = at[d] /\ stage'[d] = stage[d]
    BY <1>0 DEF TypeOK, Answer, Begin, Goto
  <2>3. pc'[q] \in OpSteps => stage'[q] = "work"
    BY <1>0 DEF TypeOK, OpSteps, Answer, Begin, Goto
  <2>4. permits' \subseteq permits /\ (q \in permits' => pc'[q] \notin {"idle", "permit", "answered"})
    BY <1>0 DEF TypeOK, Answer, Begin, Goto
  <2>5. permits \subseteq Requests /\ Requests \subseteq Callers
    BY DEF TypeOK, Callers
  <2> QED
    BY <1>0, <2>1, <2>2, <2>3, <2>4, <2>5 DEF HoldInv, Ensuring
<1>4. OwnInv'
  <2>1. CASE Fails
    BY <1>0, <2>1 DEF TypeOK, OwnInv, HoldInv, PlaceInv, Ensuring, Owned, Callers, OpSteps, Answer, Goto
  <2>2. CASE Works
    BY <1>0, <2>2 DEF TypeOK, OwnInv, HoldInv, PlaceInv, Ensuring, Owned, Callers, OpSteps, Begin, Goto
  <2>3. CASE Lists
    BY <1>0, <2>3 DEF TypeOK, OwnInv, HoldInv, PlaceInv, Ensuring, Owned, Callers, OpSteps, Goto
  <2> QED
    BY <1>0, <2>1, <2>2, <2>3
<1>5. CloseInv'
  BY DEF CloseInv, use_store
<1>6. ApplyInv'
  BY DEF TypeOK, Callers, OpSteps, ApplyInv, OwnInv, Ensuring, use_store, Answer, Begin,
         Goto
<1> QED
  BY <1>1, <1>2, <1>3, <1>4, <1>5, <1>6

\* The answer is the result of the request's own operation.
LEMMA RespondInv == ASSUME IInv, NEW q \in Requests, respond(q) PROVE IInv'
<1> USE DEF IInv
<1>1. TypeOK'
  BY DEF TypeOK, Steps, Stages, respond, Answer, Goto
<1>2. PlaceInv'
  BY DEF TypeOK, OpSteps, PlaceInv, respond, Answer, Goto
<1>3. HoldInv'
  BY DEF HoldInv, Ensuring, respond, Answer, Goto
<1>4. OwnInv'
  BY DEF OwnInv, Ensuring, Owned, respond, Answer, Goto
<1>5. CloseInv'
  BY DEF CloseInv, respond
<1>6. ApplyInv'
  BY DEF TypeOK, OpSteps, ApplyInv, PlaceInv, respond, Answer, Goto
<1> QED
  BY <1>1, <1>2, <1>3, <1>4, <1>5, <1>6

\* The list reads its stores under the stores mutex.
LEMMA ProjectListInv == ASSUME IInv, NEW q \in Requests, project_list(q) PROVE IInv'
<1> USE DEF IInv
<1> DEFINE cached == {cache[r] : r \in Repos} \ {None}
           reads == IF cached = {} THEN {at[q]} ELSE cached
<1>0. PICK s \in Stores : /\ todo' = [todo EXCEPT ![q] = reads \ {s}]
                          /\ Begin(q, s, "list", FALSE) /\ reads \subseteq Stores
  <2>1. reads \subseteq Stores
    <3>1. at[q] \in Stores
      BY DEF PlaceInv, project_list
    <3>2. cached \subseteq Stores
      BY DEF TypeOK
    <3> HIDE DEF cached
    <3> QED
      BY <3>1, <3>2
  <2>2. PICK s \in reads : /\ todo' = [todo EXCEPT ![q] = reads \ {s}]
                           /\ Begin(q, s, "list", FALSE)
    BY DEF project_list
  <2> HIDE DEF reads
  <2> QED
    BY <2>1, <2>2
<1> HIDE DEF reads
<1>1. TypeOK'
  BY <1>0 DEF TypeOK, Callers, Steps, OpSteps, Stages, project_list, Begin, Goto
<1>2. PlaceInv'
  BY <1>0 DEF TypeOK, PlaceInv, Callers, OpSteps, project_list, Begin, Goto
<1>3. HoldInv'
  BY DEF TypeOK, Callers, OpSteps, HoldInv, Ensuring, project_list, Begin, Goto
<1>4. OwnInv'
  BY DEF TypeOK, OwnInv, Ensuring, Owned, project_list, Begin, Goto
<1>5. CloseInv'
  BY DEF CloseInv, project_list
<1>6. ApplyInv'
  BY DEF TypeOK, ApplyInv, project_list, Begin, Goto
<1> QED
  BY <1>1, <1>2, <1>3, <1>4, <1>5, <1>6

\* The next store of the list is read under the same mutex.
LEMMA ProjectListNextInv == ASSUME IInv, NEW q \in Requests, project_list_next(q) PROVE IInv'
<1> USE DEF IInv
<1>1. TypeOK'
  BY DEF TypeOK, Callers, Steps, OpSteps, Stages, project_list_next, Begin, Goto
<1>2. PlaceInv'
  BY DEF TypeOK, PlaceInv, project_list_next, Begin, Goto
<1>3. HoldInv'
  BY DEF OpSteps, HoldInv, Ensuring, project_list_next, Begin, Goto
<1>4. OwnInv'
  BY DEF OwnInv, Ensuring, Owned, project_list_next, Begin, Goto
<1>5. CloseInv'
  BY DEF CloseInv, project_list_next
<1>6. ApplyInv'
  BY DEF TypeOK, OpSteps, ApplyInv, project_list_next, Begin, Goto
<1> QED
  BY <1>1, <1>2, <1>3, <1>4, <1>5, <1>6

\* The list gives the mutex up.
LEMMA ProjectListEndsInv == ASSUME IInv, NEW q \in Requests, project_list_ends(q) PROVE IInv'
<1> USE DEF IInv
<1>1. TypeOK'
  BY DEF TypeOK, Steps, Stages, project_list_ends, Answer, Goto
<1>2. PlaceInv'
  BY DEF TypeOK, OpSteps, PlaceInv, project_list_ends, Answer, Goto
<1>3. HoldInv'
  BY DEF TypeOK, Callers, Steps, BeforeOp, OpSteps, Stages, CloseSteps, HoldInv, PlaceInv,
         Ensuring, project_list_ends, Answer, Goto
<1>4. OwnInv'
  BY DEF OwnInv, Ensuring, Owned, project_list_ends, Answer, Goto
<1>5. CloseInv'
  BY DEF CloseInv, project_list_ends
<1>6. ApplyInv'
  BY DEF OpSteps, ApplyInv, Owned, project_list_ends, Answer, Goto
<1> QED
  BY <1>1, <1>2, <1>3, <1>4, <1>5, <1>6

\* A worker that starts a round holds nothing yet.
LEMMA CompactionWorkerInv == ASSUME IInv, NEW s \in Stores, compaction_worker(s) PROVE IInv'
<1> USE DEF IInv
<1>1. TypeOK'
  BY DEF TypeOK, Callers, Steps, OpSteps, Stages, compaction_worker, Begin, Goto
<1>2. PlaceInv'
  BY DEF TypeOK, OpSteps, PlaceInv, compaction_worker, Begin, Goto
<1>3. HoldInv'
  <2>1. s \notin Requests /\ s \in Callers /\ s # openGate
    BY DEF TypeOK, Callers
  <2>2. \A d \in Callers : d # s => pc'[d] = pc[d] /\ at'[d] = at[d] /\ stage'[d] = stage[d]
    BY DEF TypeOK, compaction_worker, Begin, Goto
  <2>3. \A t \in Stores : s \notin conns[t] \cup active[t] /\ writer[t] # s
    BY <2>1 DEF HoldInv, compaction_worker
  <2>4. permits \subseteq Requests /\ openGate \in Requests \cup {None}
    BY DEF TypeOK
  <2> QED
    BY <2>1, <2>2, <2>3, <2>4 DEF HoldInv, Ensuring, Callers, compaction_worker
<1>4. OwnInv'
  BY DEF OwnInv, Ensuring, Owned, compaction_worker, Begin, Goto
<1>5. CloseInv'
  BY DEF CloseInv, compaction_worker
<1>6. ApplyInv'
  BY DEF ApplyInv, compaction_worker, Begin, Goto
<1> QED
  BY <1>1, <1>2, <1>3, <1>4, <1>5, <1>6

\* A worker that parks has released everything.
LEMMA CompactionWorkerParksInv == ASSUME IInv, NEW s \in Stores, compaction_worker_parks(s) PROVE IInv'
<1> USE DEF IInv
<1>1. TypeOK'
  BY DEF TypeOK, Steps, Stages, compaction_worker_parks, Goto
<1>2. PlaceInv'
  BY DEF TypeOK, OpSteps, PlaceInv, compaction_worker_parks, Goto
<1>3. HoldInv'
  BY DEF TypeOK, HoldInv, Ensuring, compaction_worker_parks, Goto
<1>4. OwnInv'
  BY DEF OwnInv, Ensuring, Owned, compaction_worker_parks, Goto
<1>5. CloseInv'
  BY DEF CloseInv, compaction_worker_parks
<1>6. ApplyInv'
  BY DEF ApplyInv, compaction_worker_parks, Goto
<1> QED
  BY <1>1, <1>2, <1>3, <1>4, <1>5, <1>6

\* A worker that exits has released everything.
LEMMA CompactionWorkerExitsInv == ASSUME IInv, NEW s \in Stores, compaction_worker_exits(s) PROVE IInv'
<1> USE DEF IInv
<1>1. TypeOK'
  BY DEF TypeOK, Steps, compaction_worker_exits, Goto
<1>2. PlaceInv'
  BY DEF OpSteps, PlaceInv, compaction_worker_exits, Goto
<1>3. HoldInv'
  BY DEF TypeOK, HoldInv, Ensuring, compaction_worker_exits, Goto
<1>4. OwnInv'
  BY DEF OwnInv, Ensuring, Owned, compaction_worker_exits, Goto
<1>5. CloseInv'
  BY DEF CloseInv, compaction_worker_exits
<1>6. ApplyInv'
  BY DEF ApplyInv, compaction_worker_exits, Goto
<1> QED
  BY <1>1, <1>2, <1>3, <1>4, <1>5, <1>6

\* Nothing is closed before the listener has stopped.
LEMMA StopListenerInv == ASSUME IInv, stop_listener PROVE IInv'
<1> USE DEF IInv
<1>1. TypeOK'
  BY DEF TypeOK, stop_listener, Fault
<1>2. PlaceInv'
  BY DEF PlaceInv, stop_listener
<1>3. HoldInv'
  BY DEF HoldInv, Ensuring, stop_listener
<1>4. OwnInv'
  BY DEF OpSteps, OwnInv, Ensuring, Owned, stop_listener
<1>5. CloseInv'
  BY DEF CloseInv, stop_listener
<1>6. ApplyInv'
  BY DEF ApplyInv, stop_listener
<1> QED
  BY <1>1, <1>2, <1>3, <1>4, <1>5, <1>6

\* No request prepares a store, since the stores mutex is free; the drained
\* stores own their leases and leave the cache.
LEMMA CloseStoresInv == ASSUME IInv, close_stores PROVE IInv'
<1> USE DEF IInv
<1>1. TypeOK'
  BY DEF TypeOK, close_stores
<1>2. PlaceInv'
  BY DEF PlaceInv, close_stores
<1>3. HoldInv'
  BY DEF HoldInv, Ensuring, close_stores
<1>4. OwnInv'
  BY DEF OwnInv, HoldInv, Ensuring, Owned, close_stores
<1>5. CloseInv'
  BY DEF CloseInv, OwnInv, close_stores
<1>6. ApplyInv'
  BY DEF ApplyInv, close_stores
<1> QED
  BY <1>1, <1>2, <1>3, <1>4, <1>5, <1>6

\* The store that close() runs on refuses operations.
LEMMA CloseInvKept == ASSUME IInv, NEW s \in Stores, close(s) PROVE IInv'
<1> USE DEF IInv
<1>1. TypeOK'
  BY DEF TypeOK, CloseSteps, close
<1>2. PlaceInv'
  BY DEF PlaceInv, close
<1>3. HoldInv'
  BY DEF HoldInv, Ensuring, close
<1>4. OwnInv'
  BY DEF OwnInv, Ensuring, Owned, close
<1>5. CloseInv'
  BY DEF TypeOK, CloseInv, close
<1>6. ApplyInv'
  BY DEF ApplyInv, close
<1> QED
  BY <1>1, <1>2, <1>3, <1>4, <1>5, <1>6

\* Joining the worker changes no store.
LEMMA JoinWorkerInv == ASSUME IInv, join_worker PROVE IInv'
<1> USE DEF IInv
<1>1. TypeOK'
  BY DEF TypeOK, CloseSteps, join_worker
<1>2. PlaceInv'
  BY DEF PlaceInv, join_worker
<1>3. HoldInv'
  BY DEF HoldInv, Ensuring, join_worker
<1>4. OwnInv'
  BY DEF TypeOK, OwnInv, Ensuring, Owned, join_worker
<1>5. CloseInv'
  BY DEF CloseInv, join_worker
<1>6. ApplyInv'
  BY DEF ApplyInv, join_worker
<1> QED
  BY <1>1, <1>2, <1>3, <1>4, <1>5, <1>6

\* An interrupt changes no result by itself.
LEMMA InterruptAllInv == ASSUME IInv, interrupt_all PROVE IInv'
<1> USE DEF IInv
<1>1. TypeOK'
  <2>1. closer \in Stores
    BY DEF TypeOK, OwnInv, interrupt_all
  <2>2. cut' \in SUBSET Callers
    BY <2>1 DEF TypeOK, interrupt_all
  <2> QED
    BY <2>2 DEF TypeOK, CloseSteps, interrupt_all
<1>2. PlaceInv'
  BY DEF PlaceInv, interrupt_all
<1>3. HoldInv'
  BY DEF HoldInv, Ensuring, interrupt_all
<1>4. OwnInv'
  BY DEF OwnInv, Ensuring, Owned, interrupt_all
<1>5. CloseInv'
  BY DEF CloseInv, interrupt_all
<1>6. ApplyInv'
  BY DEF ApplyInv, interrupt_all
<1> QED
  BY <1>1, <1>2, <1>3, <1>4, <1>5, <1>6

\* Waiting changes no store.
LEMMA WaitForIdleInv == ASSUME IInv, wait_for_idle PROVE IInv'
<1> USE DEF IInv
<1>1. TypeOK'
  BY DEF TypeOK, CloseSteps, wait_for_idle
<1>2. PlaceInv'
  BY DEF PlaceInv, wait_for_idle
<1>3. HoldInv'
  BY DEF HoldInv, Ensuring, wait_for_idle
<1>4. OwnInv'
  BY DEF OwnInv, Ensuring, Owned, wait_for_idle
<1>5. CloseInv'
  BY DEF CloseInv, wait_for_idle
<1>6. ApplyInv'
  BY DEF ApplyInv, wait_for_idle
<1> QED
  BY <1>1, <1>2, <1>3, <1>4, <1>5, <1>6

\* A store that cannot be closed keeps its pool and its lease, and the server
\* an error.
LEMMA WaitForIdleTimesOutInv == ASSUME IInv, wait_for_idle_times_out PROVE IInv'
<1> USE DEF IInv
<1>1. TypeOK'
  BY DEF TypeOK, CloseSteps, wait_for_idle_times_out, Fault
<1>2. PlaceInv'
  BY DEF PlaceInv, wait_for_idle_times_out
<1>3. HoldInv'
  BY DEF HoldInv, Ensuring, wait_for_idle_times_out
<1>4. OwnInv'
  BY DEF Callers, OwnInv, PlaceInv, Ensuring, Owned, wait_for_idle_times_out
<1>5. CloseInv'
  BY DEF CloseInv, OwnInv, wait_for_idle_times_out
<1>6. ApplyInv'
  BY DEF ApplyInv, wait_for_idle_times_out
<1> QED
  BY <1>1, <1>2, <1>3, <1>4, <1>5, <1>6

\* The pool goes first.
LEMMA TakePoolInv == ASSUME IInv, take_pool PROVE IInv'
<1> USE DEF IInv
<1>1. TypeOK'
  BY DEF TypeOK, OpSteps, CloseSteps, take_pool
<1>2. PlaceInv'
  BY DEF PlaceInv, take_pool
<1>3. HoldInv'
  BY DEF HoldInv, Ensuring, take_pool
<1>4. OwnInv'
  BY DEF TypeOK, OwnInv, Ensuring, Owned, take_pool
<1>5. CloseInv'
  BY DEF CloseInv, take_pool
<1>6. ApplyInv'
  BY DEF ApplyInv, take_pool
<1> QED
  BY <1>1, <1>2, <1>3, <1>4, <1>5, <1>6

\* The lease goes last, when its store has no pool any more, and it is no other
\* store's.
LEMMA TakeLeaseInv == ASSUME IInv, take_lease PROVE IInv'
<1> USE DEF IInv
<1>1. TypeOK'
  BY DEF TypeOK, BeforeOp, CloseSteps, take_lease
<1>2. PlaceInv'
  BY DEF PlaceInv, take_lease
<1>3. HoldInv'
  BY DEF HoldInv, Ensuring, take_lease
<1>4. OwnInv'
  BY DEF Callers, OwnInv, PlaceInv, Ensuring, Owned, take_lease
<1>5. CloseInv'
  BY DEF TypeOK, CloseInv, OwnInv, take_lease
<1>6. ApplyInv'
  BY DEF ApplyInv, take_lease
<1> QED
  BY <1>1, <1>2, <1>3, <1>4, <1>5, <1>6

\* The server returns when nothing is left to close.
LEMMA ServeUntilShutdownReturnsInv == ASSUME IInv, serve_until_shutdown_returns PROVE IInv'
<1> USE DEF IInv
<1>1. TypeOK'
  BY DEF TypeOK, serve_until_shutdown_returns
<1>2. PlaceInv'
  BY DEF PlaceInv, serve_until_shutdown_returns
<1>3. HoldInv'
  BY DEF HoldInv, Ensuring, serve_until_shutdown_returns
<1>4. OwnInv'
  BY DEF OwnInv, PlaceInv, Ensuring, Owned, serve_until_shutdown_returns
<1>5. CloseInv'
  BY DEF CloseInv, serve_until_shutdown_returns
<1>6. ApplyInv'
  BY DEF ApplyInv, serve_until_shutdown_returns
<1> QED
  BY <1>1, <1>2, <1>3, <1>4, <1>5, <1>6

-----------------------------------------------------------------------------
(* The theorems. *)

\* Every step keeps the invariant.
LEMMA NextInv == IInv /\ [Next]_vars => IInv'
<1> SUFFICES ASSUME IInv, [Next]_vars PROVE IInv'
  OBVIOUS
<1>1. ASSUME NEW c \in Callers, Operate(c) \/ watchdog(c) PROVE IInv'
  BY <1>1, WriteGateInv, EnsureStoreOpenInv, CheckoutInv, CheckoutBusyInv, WatchdogInv,
     RunOperationInv, RunWithTimeoutInv DEF Operate
<1>2. ASSUME NEW q \in Requests, spawn_connection(q) \/ Handle(q) PROVE IInv'
  BY <1>2, SpawnConnectionInv, AcquirePermitInv, RequestTimeoutInv, RegisterRepositoryFailsInv,
     LockStoreOpenGateInv, FindStoreInv, OpenInv, OpenFailsInv, UseStoreInv, RespondInv,
     ProjectListInv, ProjectListNextInv, ProjectListEndsInv DEF Handle
<1>3. ASSUME NEW s \in Stores, compaction_worker(s) \/ Maintain(s) PROVE IInv'
  BY <1>3, CompactionWorkerInv, CompactionWorkerParksInv, CompactionWorkerExitsInv DEF Maintain
<1>4. CASE stop_listener
  BY <1>4, StopListenerInv
<1>5. CASE Close
  BY <1>5, CloseStoresInv, CloseInvKept, JoinWorkerInv, InterruptAllInv, WaitForIdleInv,
     WaitForIdleTimesOutInv, TakePoolInv, TakeLeaseInv, ServeUntilShutdownReturnsInv DEF Close
<1>6. CASE UNCHANGED vars
  BY <1>6 DEF vars, IInv, TypeOK, PlaceInv, HoldInv, OwnInv, CloseInv, ApplyInv, Ensuring, Owned
<1> QED
  BY <1>1, <1>2, <1>3, <1>4, <1>5, <1>6 DEF Next

\* The inductive invariant of the server, its stores and their callers.
THEOREM Invariance == Spec => []IInv
BY InitInv, NextInv, PTL DEF Spec

\* TypeOK, for every instance.
THEOREM TypeCorrect == Spec => []TypeOK
<1>1. IInv => TypeOK
  BY DEF IInv
<1> QED
  BY <1>1, Invariance, PTL

\* OneStorePerRepo: whoever has a pool holds the lease of its repository, and
\* the lease has one holder.
THEOREM StoresNeverShareADatabase == Spec => []OneStorePerRepo
<1>1. IInv => OneStorePerRepo
  BY DEF IInv, OwnInv, Owned, OneStorePerRepo
<1> QED
  BY <1>1, Invariance, PTL

\* NothingRetained: no path out of a request or of a worker's round keeps a
\* permit, a lock, a connection, a tracker entry or the write gate.
THEOREM NothingLeaks == Spec => []NothingRetained
<1>1. IInv => NothingRetained
  <2> SUFFICES ASSUME IInv, NEW c \in Callers, pc[c] \in {"idle", "answered", "exited"}
               PROVE  /\ c \notin permits /\ openGate # c /\ storesLock # c
                      /\ \A s \in Stores : c \notin conns[s] \cup active[s] /\ writer[s] # c
    BY DEF NothingRetained
  <2>1. c \in Requests => c \notin permits /\ openGate # c /\ storesLock # c
    BY DEF IInv, PlaceInv, HoldInv, Ensuring, OpSteps
  <2>2. c \in Stores => c \notin permits /\ openGate # c /\ storesLock # c
    BY DEF IInv, TypeOK
  <2>3. \A s \in Stores : c \notin conns[s] \cup active[s] /\ writer[s] # c
    BY DEF IInv, HoldInv
  <2> QED
    BY <2>1, <2>2, <2>3 DEF Callers
<1> QED
  BY <1>1, Invariance, PTL

\* OkIsApplied: a success that a client sees is a change of the store of the
\* repository it asked for.
THEOREM SuccessIsApplied == Spec => []OkIsApplied
<1>1. IInv => OkIsApplied
  BY DEF IInv, ApplyInv, OkIsApplied
<1> QED
  BY <1>1, Invariance, PTL

\* EveryDrainedStoreClosed: a server that has stopped has closed the stores it
\* drained, or reports an error.
THEOREM ShutdownClosesStores == Spec => []EveryDrainedStoreClosed
<1>1. IInv => EveryDrainedStoreClosed
  <2> SUFFICES ASSUME IInv, listener = "stopped", NEW s \in drained
               PROVE  closing[s] /\ ((~pool[s] /\ lease[repo[s]] # s) \/ shutdown = "error")
    BY DEF EveryDrainedStoreClosed
  <2>1. pending = {} /\ closer = None /\ s # None
    BY DEF IInv, TypeOK, CloseInv
  <2> QED
    BY <2>1 DEF IInv, CloseInv
<1> QED
  BY <1>1, Invariance, PTL
=============================================================================
