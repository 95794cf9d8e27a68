------------------------ MODULE DaemonRecoveryProofs ------------------------
(***************************************************************************)
(* Proofs of the safety properties of DaemonRecovery, for every number of  *)
(* connectors, daemons, servers without a lease, releases and faults.      *)
(***************************************************************************)
EXTENDS DaemonRecovery, TLAPS

\* The positions inside ensure_daemon.
EnsurePlaces == {"check", "spawn", "probe", "unlock", "read", "missing", "post",
                 "recheck", "kill", "await"}

Stopping == OnlyOlderStopped /\ LookalikeUntouched

USE RecoveryAssumption DEF daemonVars, leaseVars, lookVars, requestVars

-----------------------------------------------------------------------------
(* Initial states. *)

\* The invariant holds initially, with or without a resident daemon.
LEMMA InitInv == Init => IInv
<1> SUFFICES ASSUME Init PROVE IInv
  OBVIOUS
<1>0. PICK p \in Resident \cup {None} :
         /\ lock = p /\ meta = p /\ listener = p
         /\ phase = [d \in Daemons |-> IF d = p THEN "serving" ELSE "none"]
         /\ release \in [Daemons -> {0} \cup OldReleases]
  BY DEF Init
<1>1. TypeOK
  <2>1. release \in [Daemons -> Nat]
    <3>1. OldReleases \subseteq Nat
      OBVIOUS
    <3>2. ASSUME NEW d \in Daemons PROVE release[d] \in Nat
      <4>1. release[d] \in {0} \cup OldReleases
        BY <1>0
      <4>2. CASE release[d] = 0
        BY <4>2
      <4>3. CASE release[d] \in OldReleases
        BY <3>1, <4>3
      <4> QED
        BY <4>1, <4>2, <4>3
    <3> QED
      BY <1>0, <3>2
  <2>2. phase \in [Daemons -> Phases]
    BY <1>0 DEF Phases
  <2>3. lock \in Daemons \cup {None} /\ meta = lock /\ listener = lock
    BY <1>0
  <2>4. obs \in [Connectors -> Observations]
    BY DEF Init, Observations
  <2>5. pc \in [Connectors -> Places]
    BY DEF Init, Places
  <2> QED
    BY <2>1, <2>2, <2>3, <2>4, <2>5 DEF Init, TypeOK
<1>2. LeaseInv
  BY <1>0 DEF Init, LeaseInv, Leased
<1>3. IdentityInv
  BY <1>0 DEF Init, IdentityInv
<1>4. TargetInv
  BY DEF Init, TargetInv
<1>5. RequestInv
  BY DEF Init, RequestInv
<1>6. OnlyOlderStopped /\ LookalikeUntouched
  BY DEF Init, OnlyOlderStopped, LookalikeUntouched
<1> QED
  BY <1>1, <1>2, <1>3, <1>4, <1>5, <1>6 DEF IInv

-----------------------------------------------------------------------------
(* What a step leaves alone. *)

\* ensure_daemon returns to the place its caller chose.
LEMMA ReturnedPlace ==
    ASSUME TypeOK, NEW c \in Connectors, NEW ok \in BOOLEAN
    PROVE  /\ Returned(c, ok) \in {"ready", "failed", "resend", "done"}
           /\ goal[c] = "report" => Returned(c, ok) = "done"
           /\ Returned(c, ok) = "ready" => goal[c] = "connect"
           /\ Returned(c, ok) = "resend" => goal[c] = "replay"
BY DEF TypeOK, Returned

\* A connector inside ensure_daemon that moves on, or returns from it, keeps
\* RequestInv: if its request was accepted, its goal is to report the error.
LEMMA RequestKept ==
    ASSUME IInv, NEW c \in Connectors, NEW q,
           pc[c] \in EnsurePlaces, pc' = [pc EXCEPT ![c] = q],
           UNCHANGED requestVars,
           \/ q \in EnsurePlaces
           \/ \E ok \in BOOLEAN : q = Returned(c, ok)
    PROVE  RequestInv'
<1>1. exchange[c] # "idle" => goal[c] = "report"
  BY DEF IInv, TypeOK, RequestInv, EnsurePlaces
<1>2. exchange[c] # "idle" => q \notin {"ready", "resend"}
  BY <1>1, ReturnedPlace DEF IInv, EnsurePlaces
<1>3. (q = "ready" => goal[c] = "connect") /\ (q = "resend" => goal[c] = "replay")
  BY ReturnedPlace DEF IInv, EnsurePlaces
<1> QED
  BY <1>1, <1>2, <1>3 DEF IInv, TypeOK, RequestInv

\* The lease is not concerned by a step of a connector that neither takes nor
\* gives back the lock.
LEMMA LeaseKept ==
    ASSUME IInv, NEW c \in Connectors, NEW q, UNCHANGED <<phase, lock, listener>>,
           pc' = [pc EXCEPT ![c] = q], pc[c] # "unlock", q # "unlock"
    PROVE  LeaseInv'
BY DEF IInv, TypeOK, LeaseInv

\* Identities are not concerned by a step that starts no process.
LEMMA IdentityKept ==
    ASSUME IInv, UNCHANGED <<release, phase, meta, stoppedBy, owner, obs>>
    PROVE  IdentityInv'
BY DEF IInv, IdentityInv

\* Nor is what recovery has stopped.
LEMMA StoppingKept ==
    ASSUME IInv, UNCHANGED <<release, stoppedBy>>
    PROVE  Stopping'
BY DEF IInv, Stopping, OnlyOlderStopped, LookalikeUntouched

\* A connector that is not about to stop a daemon after its step needs to know
\* nothing.
LEMMA TargetKept ==
    ASSUME IInv, NEW c \in Connectors, NEW q, UNCHANGED release,
           pc' = [pc EXCEPT ![c] = q],
           \A e \in Connectors \ {c} :
              /\ obs'[e] = obs[e] /\ owner'[e] = owner[e]
              /\ inspecting'[e] = inspecting[e],
           q \notin {"probe", "unlock", "read", "post", "recheck", "kill"}
    PROVE  TargetInv'
BY DEF IInv, TypeOK, TargetInv

-----------------------------------------------------------------------------
(* The daemon. *)

\* A daemon's step does not concern what connectors know, sent and stopped.
LEMMA DaemonKept ==
    ASSUME IInv, DaemonFrame
    PROVE  TargetInv' /\ RequestInv' /\ Stopping'
BY DEF IInv, DaemonFrame, TargetInv, RequestInv, Stopping, OnlyOlderStopped,
       LookalikeUntouched

\* Identities stay valid while processes only move on.
LEMMA IdentityMoves ==
    ASSUME IInv, UNCHANGED <<release, stoppedBy, owner, obs>>,
           \A e \in Daemons : phase[e] # "none" => phase'[e] # "none",
           \/ meta' = meta
           \/ meta' = None
           \/ meta' \in Daemons \ Embedded /\ phase'[meta'] # "none"
    PROVE  IdentityInv'
<1>1. obs \in [Connectors -> Observations] /\ owner \in [Connectors -> Daemons \cup {None}]
      /\ meta \in Daemons \cup {None}
  BY DEF IInv, TypeOK
<1>2. \A c \in Connectors : obs[c].instance \in Daemons \cup {None}
  BY <1>1 DEF Observations
<1> QED
  BY <1>1, <1>2 DEF IInv, IdentityInv

\* Taking the lock, or losing the race for it, preserves the invariant.
LEMMA try_lock_Inv ==
    ASSUME IInv, NEW d \in Daemons, try_lock(d)
    PROVE  IInv'
<1> USE DEF IInv, try_lock, DaemonFrame
<1>1. TypeOK'
  BY DEF TypeOK, Phases
<1>2. LeaseInv'
  BY DEF TypeOK, LeaseInv, Leased, Phases
<1>3. \A e \in Daemons : phase[e] # "none" => phase'[e] # "none"
  BY DEF TypeOK
<1>4. IdentityInv'
  BY <1>3, IdentityMoves DEF TypeOK, LeaseInv
<1> QED
  BY <1>1, <1>2, <1>4, DaemonKept DEF Stopping

\* Truncating the metadata preserves it.
LEMMA set_file_length_Inv ==
    ASSUME IInv, NEW d \in Daemons, set_file_length(d)
    PROVE  IInv'
<1> USE DEF IInv, set_file_length, DaemonFrame
<1>1. TypeOK'
  BY DEF TypeOK, Phases
<1>2. LeaseInv'
  BY DEF TypeOK, LeaseInv, Leased, Phases
<1>3. \A e \in Daemons : phase[e] # "none" => phase'[e] # "none"
  BY DEF TypeOK
<1>4. IdentityInv'
  BY <1>3, IdentityMoves DEF TypeOK, LeaseInv
<1> QED
  BY <1>1, <1>2, <1>4, DaemonKept DEF Stopping

\* Recording the owner preserves it.
LEMMA write_file_Inv ==
    ASSUME IInv, NEW d \in Daemons, write_file(d)
    PROVE  IInv'
<1> USE DEF IInv, write_file, DaemonFrame
<1>1. TypeOK'
  BY DEF TypeOK, Phases
<1>2. LeaseInv'
  BY DEF TypeOK, LeaseInv, Leased, Phases
<1>3. \A e \in Daemons : phase[e] # "none" => phase'[e] # "none"
  BY DEF TypeOK
<1>4. IdentityInv'
  BY <1>3, IdentityMoves DEF TypeOK, LeaseInv
<1> QED
  BY <1>1, <1>2, <1>4, DaemonKept DEF Stopping

\* Taking the port, or giving the lease back when it is taken, preserves it.
LEMMA bind_Inv ==
    ASSUME IInv, NEW d \in Daemons, bind(d)
    PROVE  IInv'
<1> USE DEF IInv, bind, DaemonFrame
<1>1. TypeOK'
  BY DEF TypeOK, Phases
<1>2. LeaseInv'
  BY DEF TypeOK, LeaseInv, Leased, Phases
<1>3. \A e \in Daemons : phase[e] # "none" => phase'[e] # "none"
  BY DEF TypeOK
<1>4. IdentityInv'
  BY <1>3, IdentityMoves DEF TypeOK, LeaseInv
<1> QED
  BY <1>1, <1>2, <1>4, DaemonKept DEF Stopping

\* Leaving the accept loop preserves it.
LEMMA shutdown_Inv ==
    ASSUME IInv, NEW d \in Daemons, shutdown(d)
    PROVE  IInv'
<1> USE DEF IInv, shutdown, Fault, DaemonFrame
<1>1. TypeOK'
  BY DEF TypeOK, Phases
<1>2. LeaseInv'
  BY DEF TypeOK, LeaseInv, Leased, Phases
<1>3. \A e \in Daemons : phase[e] # "none" => phase'[e] # "none"
  BY DEF TypeOK
<1>4. IdentityInv'
  BY <1>3, IdentityMoves DEF TypeOK, LeaseInv
<1> QED
  BY <1>1, <1>2, <1>4, DaemonKept DEF Stopping

\* Giving the port back preserves it: the lease is still held.
LEMMA drop_listener_Inv ==
    ASSUME IInv, NEW d \in Daemons, drop_listener(d)
    PROVE  IInv'
<1> USE DEF IInv, drop_listener, DaemonFrame
<1>1. TypeOK'
  BY DEF TypeOK, Phases
<1>2. LeaseInv'
  BY DEF TypeOK, LeaseInv, Leased, Phases
<1>3. \A e \in Daemons : phase[e] # "none" => phase'[e] # "none"
  BY DEF TypeOK
<1>4. IdentityInv'
  BY <1>3, IdentityMoves DEF TypeOK, LeaseInv
<1> QED
  BY <1>1, <1>2, <1>4, DaemonKept DEF Stopping

\* Giving the lease back preserves it: the port is no longer held.
LEMMA drop_lease_Inv ==
    ASSUME IInv, NEW d \in Daemons, drop_lease(d)
    PROVE  IInv'
<1> USE DEF IInv, drop_lease, DaemonFrame
<1>1. TypeOK'
  BY DEF TypeOK, Phases
<1>2. LeaseInv'
  BY DEF TypeOK, LeaseInv, Leased, Phases
<1>3. \A e \in Daemons : phase[e] # "none" => phase'[e] # "none"
  BY DEF TypeOK
<1>4. IdentityInv'
  BY <1>3, IdentityMoves DEF TypeOK, LeaseInv
<1> QED
  BY <1>1, <1>2, <1>4, DaemonKept DEF Stopping

\* The end of a process at any point preserves it.
LEMMA crash_Inv ==
    ASSUME IInv, NEW d \in Daemons, crash(d)
    PROVE  IInv'
<1> USE DEF IInv, crash, Fault, DaemonFrame
<1>1. TypeOK'
  BY DEF TypeOK, Phases
<1>2. LeaseInv'
  BY DEF TypeOK, LeaseInv, Leased, Phases
<1>3. \A e \in Daemons : phase[e] # "none" => phase'[e] # "none"
  BY DEF TypeOK
<1>4. IdentityInv'
  BY <1>3, IdentityMoves DEF TypeOK, LeaseInv
<1> QED
  BY <1>1, <1>2, <1>4, DaemonKept DEF Stopping

\* A server without a lease preserves it.
LEMMA serve_listener_Inv ==
    ASSUME IInv, NEW d \in Daemons, serve_listener(d)
    PROVE  IInv'
<1> USE DEF IInv, serve_listener, DaemonFrame
<1>1. TypeOK'
  BY DEF TypeOK, Phases
<1>2. LeaseInv'
  BY DEF TypeOK, LeaseInv, Leased, Phases
<1>3. \A e \in Daemons : phase[e] # "none" => phase'[e] # "none"
  BY DEF TypeOK
<1>4. IdentityInv'
  BY <1>3, IdentityMoves DEF TypeOK, LeaseInv
<1> QED
  BY <1>1, <1>2, <1>4, DaemonKept DEF Stopping

-----------------------------------------------------------------------------
(* Connectors inside ensure_daemon. *)

\* The bound on elapsed limits is a number.
LEMMA BoundKept ==
    ASSUME TypeOK, Unavailable \/ Fault \/ UNCHANGED faults
    PROVE  faults' \in Nat
BY DEF TypeOK, Unavailable, Fault

\* Places that a connector enters without having verified anything new.
Unverified(c, q) ==
    /\ q \notin {"unlock", "read", "post", "recheck"}
    /\ q = "kill" => pc[c] = "recheck"
    /\ q = "probe" => inspecting'[c] # "recover"

\* A connector that only moves on preserves the invariant.
LEMMA MoveInv ==
    ASSUME IInv, NEW c \in Connectors, NEW q,
           pc[c] \in EnsurePlaces \ {"unlock"}, pc' = [pc EXCEPT ![c] = q],
           q \in EnsurePlaces \/ \E ok \in BOOLEAN : q = Returned(c, ok),
           Unverified(c, q),
           UNCHANGED <<daemonVars, leaseVars, requestVars, stoppedBy, obs, owner>>,
           inspecting' \in [Connectors -> {"recover", "gone", "same"}],
           \A e \in Connectors \ {c} : inspecting'[e] = inspecting[e],
           blocker' \in [Connectors -> Daemons \cup Connectors \cup {None}],
           spawned' \subseteq Connectors, faults' \in Nat
    PROVE  IInv'
<1>1. q \in Places
  BY ReturnedPlace DEF IInv, EnsurePlaces, Places
<1>2. TypeOK'
  BY <1>1 DEF IInv, TypeOK
<1>3. LeaseInv'
  BY LeaseKept, ReturnedPlace DEF IInv, EnsurePlaces, Unverified
<1>4. IdentityInv'
  BY IdentityKept
<1>5. TargetInv'
  BY DEF IInv, TypeOK, TargetInv, Unverified
<1>6. RequestInv'
  BY RequestKept
<1>7. Stopping'
  BY StoppingKept
<1> QED
  BY <1>2, <1>3, <1>4, <1>5, <1>6, <1>7 DEF IInv, Stopping

\* Finding a compatible daemon preserves the invariant.
LEMMA check_compatible_Inv ==
    ASSUME IInv, NEW c \in Connectors, check_compatible(c)
    PROVE  IInv'
<1> USE DEF IInv, check_compatible, ConnectorFrame, GoTo
<1>1. PICK q : /\ pc' = [pc EXCEPT ![c] = q]
               /\ q = Returned(c, TRUE)
  OBVIOUS
<1>2. q \in EnsurePlaces \/ \E ok \in BOOLEAN : q = Returned(c, ok)
  BY <1>1 DEF EnsurePlaces
<1>3. Unverified(c, q)
  BY <1>1, ReturnedPlace DEF Unverified
<1>4. faults' \in Nat
  BY BoundKept
<1> QED
  BY <1>1, <1>2, <1>3, <1>4, MoveInv DEF EnsurePlaces, TypeOK

\* Polling preserves it.
LEMMA check_unavailable_Inv ==
    ASSUME IInv, NEW c \in Connectors, check_unavailable(c)
    PROVE  IInv'
<1> USE DEF IInv, check_unavailable, ConnectorFrame, GoTo
<1>1. PICK q : /\ pc' = [pc EXCEPT ![c] = q]
               /\ q \in {"check", "spawn"}
  OBVIOUS
<1>2. q \in EnsurePlaces \/ \E ok \in BOOLEAN : q = Returned(c, ok)
  BY <1>1 DEF EnsurePlaces
<1>3. Unverified(c, q)
  BY <1>1, ReturnedPlace DEF Unverified
<1>4. faults' \in Nat
  BY BoundKept
<1> QED
  BY <1>1, <1>2, <1>3, <1>4, MoveInv DEF EnsurePlaces, TypeOK

\* Giving up preserves it.
LEMMA start_timeout_Inv ==
    ASSUME IInv, NEW c \in Connectors, start_timeout(c)
    PROVE  IInv'
<1> USE DEF IInv, start_timeout, ConnectorFrame, GoTo
<1>1. PICK q : /\ pc' = [pc EXCEPT ![c] = q]
               /\ q = Returned(c, FALSE)
  OBVIOUS
<1>2. q \in EnsurePlaces \/ \E ok \in BOOLEAN : q = Returned(c, ok)
  BY <1>1 DEF EnsurePlaces
<1>3. Unverified(c, q)
  BY <1>1, ReturnedPlace DEF Unverified
<1>4. faults' \in Nat
  BY BoundKept
<1> QED
  BY <1>1, <1>2, <1>3, <1>4, MoveInv DEF EnsurePlaces, TypeOK

\* A failed spawn preserves it.
LEMMA spawn_daemon_fails_Inv ==
    ASSUME IInv, NEW c \in Connectors, spawn_daemon_fails(c)
    PROVE  IInv'
<1> USE DEF IInv, spawn_daemon_fails, Fault, ConnectorFrame, GoTo
<1>1. PICK q : /\ pc' = [pc EXCEPT ![c] = q]
               /\ q = Returned(c, FALSE)
  OBVIOUS
<1>2. q \in EnsurePlaces \/ \E ok \in BOOLEAN : q = Returned(c, ok)
  BY <1>1 DEF EnsurePlaces
<1>3. Unverified(c, q)
  BY <1>1, ReturnedPlace DEF Unverified
<1>4. faults' \in Nat
  BY BoundKept
<1>5. faults' \in Nat
  BY DEF TypeOK
<1> QED
  BY <1>1, <1>2, <1>3, <1>4, <1>5, MoveInv DEF EnsurePlaces, TypeOK

\* Looking again after a free lease preserves it.
LEMMA state_after_missing_owner_Inv ==
    ASSUME IInv, NEW c \in Connectors, state_after_missing_owner(c)
    PROVE  IInv'
<1> USE DEF IInv, state_after_missing_owner, ConnectorFrame, GoTo
<1>1. PICK q : /\ pc' = [pc EXCEPT ![c] = q]
               /\ q \in {"spawn", Returned(c, TRUE), Returned(c, FALSE)}
  OBVIOUS
<1>2. q \in EnsurePlaces \/ \E ok \in BOOLEAN : q = Returned(c, ok)
  BY <1>1 DEF EnsurePlaces
<1>3. Unverified(c, q)
  BY <1>1, ReturnedPlace DEF Unverified
<1>4. faults' \in Nat
  BY BoundKept
<1> QED
  BY <1>1, <1>2, <1>3, <1>4, MoveInv DEF EnsurePlaces, TypeOK

\* Looking again before a signal preserves it.
LEMMA recheck_health_Inv ==
    ASSUME IInv, NEW c \in Connectors, recheck_health(c)
    PROVE  IInv'
<1> USE DEF IInv, recheck_health, ConnectorFrame, GoTo
<1>1. PICK q : /\ pc' = [pc EXCEPT ![c] = q]
               /\ q \in {"spawn", "kill", Returned(c, TRUE), Returned(c, FALSE)}
  OBVIOUS
<1>2. q \in EnsurePlaces \/ \E ok \in BOOLEAN : q = Returned(c, ok)
  BY <1>1 DEF EnsurePlaces
<1>3. Unverified(c, q)
  BY <1>1, ReturnedPlace DEF Unverified
<1>4. faults' \in Nat
  BY BoundKept
<1> QED
  BY <1>1, <1>2, <1>3, <1>4, MoveInv DEF EnsurePlaces, TypeOK

\* A round of waiting for the handoff preserves it.
LEMMA wait_for_daemon_handoff_Inv ==
    ASSUME IInv, NEW c \in Connectors, wait_for_daemon_handoff(c)
    PROVE  IInv'
<1> USE DEF IInv, wait_for_daemon_handoff, ConnectorFrame, GoTo
<1>1. PICK q : /\ pc' = [pc EXCEPT ![c] = q]
               /\ \/ q \in {Returned(c, TRUE), Returned(c, FALSE)}
                  \/ q = "probe" /\ \E w \in {"gone", "same"} :
                        inspecting' = [inspecting EXCEPT ![c] = w]
  OBVIOUS
<1>2. q \in EnsurePlaces \/ \E ok \in BOOLEAN : q = Returned(c, ok)
  BY <1>1 DEF EnsurePlaces
<1>3. \/ UNCHANGED inspecting
      \/ \E w \in {"gone", "same"} : inspecting' = [inspecting EXCEPT ![c] = w]
  OBVIOUS
<1>4. /\ inspecting' \in [Connectors -> {"recover", "gone", "same"}]
      /\ \A e \in Connectors \ {c} : inspecting'[e] = inspecting[e]
  BY <1>3 DEF TypeOK
<1>5. q = "probe" => inspecting'[c] # "recover"
  BY <1>1, ReturnedPlace DEF TypeOK
<1>6. Unverified(c, q)
  BY <1>1, <1>5, ReturnedPlace DEF Unverified
<1>7. faults' \in Nat
  BY BoundKept
<1> QED
  BY <1>1, <1>2, <1>4, <1>6, <1>7, MoveInv DEF EnsurePlaces, TypeOK

\* Observing another release preserves the invariant: the observation names a
\* process that runs, with its release.
LEMMA check_incompatible_Inv ==
    ASSUME IInv, NEW c \in Connectors, check_incompatible(c)
    PROVE  IInv'
<1> USE DEF IInv, ConnectorFrame, GoTo
<1>1. PICK d \in Answering :
         /\ obs' = [obs EXCEPT ![c] = Observation(d)]
         /\ pc' = [pc EXCEPT ![c] =
              IF Observation(d).release < Release[c] THEN "probe" ELSE Returned(c, FALSE)]
  BY DEF check_incompatible, Incompatible
<1> DEFINE q == IF Observation(d).release < Release[c] THEN "probe" ELSE Returned(c, FALSE)
<1>2. /\ d \in Daemons /\ phase[d] = "serving"
      /\ Observation(d).release = release[d]
      /\ Observation(d).instance \in {d, None}
      /\ Observation(d) \in Observations
  BY DEF Answering, Observation, InstanceId, TypeOK, Observations
<1>3. /\ pc[c] = "check"
      /\ UNCHANGED <<daemonVars, leaseVars, requestVars, stoppedBy,
                     spawned, owner, blocker, faults>>
      /\ inspecting' = [inspecting EXCEPT ![c] = "recover"]
  BY DEF check_incompatible
<1>4. q \in {"probe", "ready", "failed", "resend", "done"}
  BY ReturnedPlace
<1>5. TypeOK'
  BY <1>1, <1>2, <1>3, <1>4 DEF TypeOK, Places
<1>6. LeaseInv'
  BY <1>1, <1>3, <1>4, LeaseKept
<1>7. IdentityInv'
  BY <1>1, <1>2, <1>3 DEF TypeOK, IdentityInv
<1>8. TargetInv'
  <2>1. pc' = [pc EXCEPT ![c] = q]
    BY <1>1
  <2>2. q = "probe" => obs'[c].release < Release[c]
    <3>1. obs'[c] = Observation(d)
      BY <1>1 DEF TypeOK
    <3>2. q = "probe" => Observation(d).release < Release[c]
      BY ReturnedPlace
    <3> QED
      BY <3>1, <3>2
  <2>3. \A e \in Connectors \ {c} : obs'[e] = obs[e] /\ inspecting'[e] = inspecting[e]
    BY <1>1, <1>3 DEF TypeOK
  <2> HIDE DEF q
  <2> QED
    BY <1>3, <1>4, <2>1, <2>2, <2>3 DEF TypeOK, TargetInv
<1>9. RequestInv'
  <2>1. q \in EnsurePlaces \/ \E ok \in BOOLEAN : q = Returned(c, ok)
    BY DEF EnsurePlaces
  <2>2. pc' = [pc EXCEPT ![c] = q] /\ pc[c] \in EnsurePlaces
    BY <1>1, <1>3 DEF EnsurePlaces
  <2> HIDE DEF q
  <2> QED
    BY <1>3, <2>1, <2>2, RequestKept
<1>10. Stopping'
  BY <1>3, StoppingKept
<1> QED
  BY <1>5, <1>6, <1>7, <1>8, <1>9, <1>10 DEF Stopping

\* A spawn preserves it: the process is one nobody has referred to.
LEMMA spawn_daemon_Inv ==
    ASSUME IInv, NEW c \in Connectors, spawn_daemon(c)
    PROVE  IInv'
<1> USE DEF IInv, GoTo
<1>1. PICK d \in Daemons \ Embedded :
         /\ phase[d] = "none"
         /\ phase' = [phase EXCEPT ![d] = "starting"]
         /\ release' = [release EXCEPT ![d] = Release[c]]
  BY DEF spawn_daemon
<1>2. /\ pc[c] = "spawn"
      /\ pc' = [pc EXCEPT ![c] = "check"]
      /\ spawned' = spawned \cup {c}
      /\ UNCHANGED <<notified, listener, leaseVars, lookVars, requestVars,
                     stoppedBy, faults>>
  BY DEF spawn_daemon
<1>3. TypeOK'
  <2>1. Release[c] \in Nat
    BY RecoveryAssumption
  <2> QED
    BY <1>1, <1>2, <2>1 DEF TypeOK, Places, Phases
<1>4. LeaseInv'
  BY <1>1, <1>2 DEF TypeOK, LeaseInv, Leased, Phases
<1>5. \A e \in Daemons : phase[e] # "none" =>
         phase'[e] # "none" /\ release'[e] = release[e]
  BY <1>1 DEF TypeOK
<1>6. \A e \in Connectors : obs[e].instance \in Daemons \cup {None}
  BY DEF TypeOK, Observations
<1>7. IdentityInv'
  BY <1>2, <1>5, <1>6 DEF TypeOK, IdentityInv
<1>8. TargetInv'
  BY <1>2, <1>5 DEF TypeOK, TargetInv, IdentityInv
<1>9. RequestInv'
  BY <1>2, RequestKept DEF EnsurePlaces
<1>10. OnlyOlderStopped' /\ LookalikeUntouched'
  BY <1>2, <1>5 DEF TypeOK, OnlyOlderStopped, LookalikeUntouched, IdentityInv
<1> QED
  BY <1>3, <1>4, <1>7, <1>8, <1>9, <1>10

\* Inspecting the lease preserves it, also when the connector takes the lock.
LEMMA held_daemon_owner_Inv ==
    ASSUME IInv, NEW c \in Connectors, held_daemon_owner(c)
    PROVE  IInv'
<1> USE DEF IInv, held_daemon_owner, GoTo
<1>1. TypeOK'
  BY DEF TypeOK, Places
<1>2. LeaseInv'
  BY DEF TypeOK, LeaseInv
<1>3. IdentityInv'
  BY IdentityKept
<1>4. TargetInv'
  BY DEF TypeOK, TargetInv
<1>5. RequestInv'
  BY RequestKept DEF EnsurePlaces
<1>6. Stopping'
  BY StoppingKept
<1> QED
  BY <1>1, <1>2, <1>3, <1>4, <1>5, <1>6 DEF Stopping

\* Giving the inspected lock back preserves it.
LEMMA unlock_file_Inv ==
    ASSUME IInv, NEW c \in Connectors, unlock_file(c)
    PROVE  IInv'
<1> USE DEF IInv, GoTo
<1>1. PICK q \in {"missing", "spawn", "await"} : pc' = [pc EXCEPT ![c] = q]
  BY DEF unlock_file, TypeOK
<1>2. /\ pc[c] = "unlock"
      /\ lock' = None
      /\ UNCHANGED <<daemonVars, meta, spawned, lookVars, requestVars, stoppedBy,
                     faults>>
  BY DEF unlock_file
<1>3. TypeOK'
  BY <1>1, <1>2 DEF TypeOK, Places
<1>4. LeaseInv'
  <2>1. lock = c
    BY <1>2 DEF LeaseInv
  <2> QED
    BY <1>1, <1>2, <2>1 DEF TypeOK, LeaseInv
<1>5. IdentityInv'
  BY <1>2, IdentityKept
<1>6. TargetInv'
  BY <1>1, <1>2, TargetKept
<1>7. RequestInv'
  BY <1>1, <1>2, RequestKept DEF EnsurePlaces
<1>8. Stopping'
  BY <1>2, StoppingKept
<1> QED
  BY <1>3, <1>4, <1>5, <1>6, <1>7, <1>8 DEF Stopping

\* Reading the owner preserves it: a verified owner is the instance that was
\* observed, or runs a release without handoff.
LEMMA parse_daemon_owner_Inv ==
    ASSUME IInv, NEW c \in Connectors, parse_daemon_owner(c)
    PROVE  IInv'
<1> USE DEF IInv, ConnectorFrame, GoTo
<1>1. /\ pc[c] = "read"
      /\ blocker' = [blocker EXCEPT ![c] = None]
      /\ UNCHANGED <<daemonVars, leaseVars, requestVars, stoppedBy,
                     spawned, inspecting, obs, faults>>
  BY DEF parse_daemon_owner
<1>2. blocker' \in [Connectors -> Daemons \cup Connectors \cup {None}]
  BY <1>1 DEF TypeOK
<1>3. ASSUME NEW q \in {"await", Returned(c, FALSE)},
             pc' = [pc EXCEPT ![c] = q], UNCHANGED owner
      PROVE  IInv'
  <2>1. q \in EnsurePlaces \/ \E ok \in BOOLEAN : q = Returned(c, ok)
    BY DEF EnsurePlaces
  <2>2. Unverified(c, q)
    BY ReturnedPlace DEF Unverified
  <2> QED
    BY <1>1, <1>2, <1>3, <2>1, <2>2, MoveInv DEF EnsurePlaces, TypeOK
<1>4. ASSUME NEW q, q \in {"post", "recheck", Returned(c, FALSE)},
             pc' = [pc EXCEPT ![c] = q],
             inspecting[c] = "recover", meta # None,
             owner' = [owner EXCEPT ![c] = meta],
             q = "post" => ValidOwner(c, meta) /\ obs[c].instance # None,
             q = "recheck" => ValidOwner(c, meta) /\ obs[c].instance = None
      PROVE  IInv'
  <2>1. q \in EnsurePlaces \/ \E ok \in BOOLEAN : q = Returned(c, ok)
    BY <1>4 DEF EnsurePlaces
  <2>2. q \in {"post", "recheck", "ready", "failed", "resend", "done"}
    BY <1>4, ReturnedPlace
  <2>3. meta \in Daemons /\ meta \notin Embedded /\ phase[meta] # "none"
    BY <1>4 DEF TypeOK, IdentityInv
  <2>4. TypeOK'
    BY <1>1, <1>2, <1>4, <2>2, <2>3 DEF TypeOK, Places
  <2>5. LeaseInv'
    BY <1>1, <1>4, <2>2, LeaseKept
  <2>6. IdentityInv'
    BY <1>1, <1>4, <2>3 DEF TypeOK, IdentityInv
  <2>7. TargetInv'
    <3>1. q = "post" => obs[c].instance = meta
      BY <1>4 DEF ValidOwner, InstanceId
    <3>2. q = "recheck" => release[meta] < FirstHandoff
      <4>1. release[meta] \in Nat /\ FirstHandoff \in Nat /\ meta # None
        BY <2>3, RecoveryAssumption DEF TypeOK
      <4> QED
        BY <1>4, <4>1 DEF ValidOwner, InstanceId, HandoffSupported
    <3>3. obs[c].release < Release[c]
      BY <1>1, <1>4 DEF TargetInv
    <3>4. owner'[c] = meta /\ \A e \in Connectors \ {c} : owner'[e] = owner[e]
      BY <1>4 DEF TypeOK
    <3> QED
      BY <1>1, <1>4, <2>2, <3>1, <3>2, <3>3, <3>4 DEF TypeOK, TargetInv
  <2>8. RequestInv'
    <3>1. pc[c] \in EnsurePlaces
      BY <1>1 DEF EnsurePlaces
    <3> QED
      BY <1>1, <1>4, <2>1, <3>1, RequestKept
  <2>9. Stopping'
    BY <1>1, StoppingKept
  <2> QED
    BY <2>4, <2>5, <2>6, <2>7, <2>8, <2>9 DEF Stopping
<1>5. CASE meta = None
  BY <1>3, <1>5 DEF parse_daemon_owner
<1>6. CASE meta # None /\ inspecting[c] = "recover"
  <2>1. PICK q : /\ pc' = [pc EXCEPT ![c] = q]
                 /\ q = CASE ~ValidOwner(c, meta) -> Returned(c, FALSE)
                          [] ValidOwner(c, meta) /\ obs[c].instance # None -> "post"
                          [] OTHER -> "recheck"
    BY <1>6 DEF parse_daemon_owner
  <2>2. owner' = [owner EXCEPT ![c] = meta]
    BY <1>6 DEF parse_daemon_owner
  <2>3. /\ q \in {"post", "recheck", Returned(c, FALSE)}
        /\ q = "post" => ValidOwner(c, meta) /\ obs[c].instance # None
        /\ q = "recheck" => ValidOwner(c, meta) /\ obs[c].instance = None
    BY <2>1, ReturnedPlace
  <2> QED
    BY <1>4, <1>6, <2>1, <2>2, <2>3
<1>7. CASE meta # None /\ inspecting[c] # "recover"
  BY <1>3, <1>7 DEF parse_daemon_owner
<1> QED
  BY <1>5, <1>6, <1>7

\* Stopping the verified owner preserves it.
LEMMA StopInv ==
    ASSUME IInv, NEW c \in Connectors, NEW d \in Daemons \ Embedded,
           pc[c] \in {"post", "kill"}, phase[d] # "none", release[d] < Release[c],
           notified' = notified \cup {d},
           stoppedBy' = [stoppedBy EXCEPT ![d] = @ \cup {c}],
           pc' = [pc EXCEPT ![c] = "await"],
           UNCHANGED <<phase, release, listener, leaseVars, spawned, lookVars,
                       requestVars, faults>>
    PROVE  IInv'
<1>1. TypeOK'
  BY DEF IInv, TypeOK, Places
<1>2. LeaseInv'
  BY LeaseKept
<1>3. IdentityInv'
  BY DEF IInv, TypeOK, IdentityInv
<1>4. TargetInv'
  BY TargetKept
<1>5. RequestInv'
  BY RequestKept DEF EnsurePlaces
<1>6. OnlyOlderStopped' /\ LookalikeUntouched'
  BY DEF IInv, TypeOK, OnlyOlderStopped, LookalikeUntouched
<1> QED
  BY <1>1, <1>2, <1>3, <1>4, <1>5, <1>6 DEF IInv

\* The handoff request preserves it: the token is that of the observed, older
\* instance, and another daemon rejects it.
LEMMA post_handoff_Inv ==
    ASSUME IInv, NEW c \in Connectors, post_handoff(c)
    PROVE  IInv'
<1> USE DEF GoTo
<1>1. /\ pc[c] = "post"
      /\ UNCHANGED <<phase, release, listener, leaseVars, spawned, lookVars,
                     requestVars>>
  BY DEF post_handoff
<1>2. ASSUME NEW d \in Answering, TokenAccepted(c, d),
             notified' = notified \cup {d},
             stoppedBy' = [stoppedBy EXCEPT ![d] = @ \cup {c}],
             pc' = [pc EXCEPT ![c] = "await"], UNCHANGED faults
      PROVE  IInv'
  <2>1. d \in Daemons /\ phase[d] = "serving" /\ d = owner[c]
    BY <1>2 DEF Answering, TokenAccepted
  <2>2. d \notin Embedded /\ release[d] < Release[c]
    <3>1. owner[c] # None /\ obs[c].instance = d /\ obs[c].release < Release[c]
      BY <1>1, <2>1 DEF IInv, TargetInv
    <3> QED
      BY <2>1, <3>1 DEF IInv, IdentityInv
  <2> QED
    BY <1>1, <1>2, <2>1, <2>2, StopInv
<1>3. ASSUME NEW q \in {"await", Returned(c, FALSE)},
             pc' = [pc EXCEPT ![c] = q], UNCHANGED <<notified, stoppedBy>>,
             faults' \in Nat
      PROVE  IInv'
  <2>1. q \in EnsurePlaces \/ \E ok \in BOOLEAN : q = Returned(c, ok)
    BY DEF EnsurePlaces
  <2>2. Unverified(c, q)
    BY ReturnedPlace DEF Unverified, IInv
  <2> QED
    BY <1>1, <1>3, <2>1, <2>2, MoveInv DEF IInv, EnsurePlaces, TypeOK
<1>4. CASE \E d \in Answering :
              /\ TokenAccepted(c, d)
              /\ notified' = notified \cup {d}
              /\ stoppedBy' = [stoppedBy EXCEPT ![d] = @ \cup {c}]
              /\ pc' = [pc EXCEPT ![c] = "await"]
              /\ UNCHANGED faults
  BY <1>2, <1>4
<1>5. CASE /\ pc' = [pc EXCEPT ![c] = Returned(c, FALSE)]
           /\ UNCHANGED <<notified, stoppedBy, faults>>
  BY <1>3, <1>5 DEF IInv, TypeOK
<1>6. CASE /\ Unavailable
           /\ pc' = [pc EXCEPT ![c] = "await"]
           /\ UNCHANGED <<notified, stoppedBy>>
  BY <1>3, <1>6, BoundKept DEF IInv
<1> QED
  BY <1>4, <1>5, <1>6 DEF post_handoff

\* A signal to a daemon without handoff preserves it: its release is older than
\* every connector's.
LEMMA terminate_Inv ==
    ASSUME IInv, NEW c \in Connectors, terminate_pre_handoff_daemon(c)
    PROVE  IInv'
<1> USE DEF GoTo
<1>1. /\ pc[c] = "kill"
      /\ UNCHANGED <<phase, release, listener, leaseVars, spawned, lookVars,
                     requestVars, faults>>
  BY DEF terminate_pre_handoff_daemon
<1>2. /\ owner[c] \in Daemons \ Embedded
      /\ phase[owner[c]] # "none"
      /\ release[owner[c]] < FirstHandoff
  BY <1>1 DEF IInv, TypeOK, TargetInv, IdentityInv
<1>3. release[owner[c]] < Release[c]
  <2>1. /\ release[owner[c]] \in Nat /\ FirstHandoff \in Nat
        /\ Release[c] \in Nat /\ Release[c] >= FirstHandoff
    BY <1>2, RecoveryAssumption DEF IInv, TypeOK
  <2> QED
    BY <1>2, <2>1
<1>4. CASE /\ notified' = notified \cup {owner[c]}
           /\ stoppedBy' = [stoppedBy EXCEPT ![owner[c]] = @ \cup {c}]
           /\ pc' = [pc EXCEPT ![c] = "await"]
  BY <1>1, <1>2, <1>3, <1>4, StopInv
<1>5. CASE /\ pc' = [pc EXCEPT ![c] = Returned(c, FALSE)]
           /\ UNCHANGED <<notified, stoppedBy>>
  <2>1. Unverified(c, Returned(c, FALSE))
    BY ReturnedPlace DEF Unverified, IInv
  <2> QED
    BY <1>1, <1>5, <2>1, MoveInv DEF IInv, EnsurePlaces, TypeOK
<1> QED
  BY <1>4, <1>5 DEF terminate_pre_handoff_daemon

-----------------------------------------------------------------------------
(* Requests. *)

\* A step of a request concerns neither the lease nor recovery.
LEMMA RequestStepKept ==
    ASSUME IInv, RequestFrame, NEW c \in Connectors, NEW q,
           pc' = [pc EXCEPT ![c] = q],
           pc[c] \in {"ready", "sent", "resend", "resent"},
           q \in {"check", "sent", "resent", "done"}
    PROVE  LeaseInv' /\ IdentityInv' /\ TargetInv' /\ Stopping'
<1> USE DEF RequestFrame
<1>1. LeaseInv'
  BY LeaseKept
<1>2. IdentityInv'
  BY IdentityKept
<1>3. TargetInv'
  BY TargetKept
<1>4. Stopping'
  BY StoppingKept
<1> QED
  BY <1>1, <1>2, <1>3, <1>4

\* Sending a request preserves the invariant.
LEMMA send_request_Inv ==
    ASSUME IInv, NEW c \in Connectors, send_request(c)
    PROVE  IInv'
<1> USE DEF send_request, Connect, GoTo
<1>1. PICK q \in {"sent", "check"} : pc' = [pc EXCEPT ![c] = q]
  OBVIOUS
<1>2. TypeOK'
  BY DEF IInv, TypeOK, Places, RequestFrame
<1>3. RequestInv'
  <2>1. exchange[c] = "idle" /\ goal[c] = "connect" /\ executed[c] = 0
    BY DEF IInv, TypeOK, RequestInv
  <2>2. CASE listener = None
    BY <2>1, <2>2 DEF IInv, TypeOK, RequestInv
  <2>3. CASE listener # None /\ phase[listener] = "serving"
    BY <2>1, <2>3 DEF IInv, TypeOK, RequestInv
  <2>4. CASE listener # None /\ phase[listener] # "serving"
    BY <2>1, <2>4 DEF IInv, TypeOK, RequestInv
  <2> QED
    BY <2>2, <2>3, <2>4
<1> QED
  BY <1>1, <1>2, <1>3, RequestStepKept DEF IInv, Stopping

\* Replaying one preserves it: the refused request was not accepted.
LEMMA replay_request_Inv ==
    ASSUME IInv, NEW c \in Connectors, replay_request(c)
    PROVE  IInv'
<1> USE DEF replay_request, Connect, GoTo
<1>1. PICK q \in {"resent", "done"} : pc' = [pc EXCEPT ![c] = q]
  OBVIOUS
<1>2. TypeOK'
  BY DEF IInv, TypeOK, Places, RequestFrame
<1>3. RequestInv'
  <2>1. exchange[c] = "idle" /\ goal[c] = "replay" /\ executed[c] = 0
    BY DEF IInv, TypeOK, RequestInv
  <2>2. CASE listener = None
    BY <2>1, <2>2 DEF IInv, TypeOK, RequestInv
  <2>3. CASE listener # None /\ phase[listener] = "serving"
    BY <2>1, <2>3 DEF IInv, TypeOK, RequestInv
  <2>4. CASE listener # None /\ phase[listener] # "serving"
    BY <2>1, <2>4 DEF IInv, TypeOK, RequestInv
  <2> QED
    BY <2>2, <2>3, <2>4
<1> QED
  BY <1>1, <1>2, <1>3, RequestStepKept DEF IInv, Stopping

\* Executing and answering one preserves it.
LEMMA handle_Inv ==
    ASSUME IInv, NEW c \in Connectors, handle(c)
    PROVE  IInv'
<1> USE DEF handle, RequestFrame
<1>1. TypeOK'
  BY DEF IInv, TypeOK
<1>2. LeaseInv' /\ TargetInv'
  BY DEF IInv, LeaseInv, TargetInv
<1>3. IdentityInv' /\ Stopping'
  BY IdentityKept, StoppingKept
<1>4. RequestInv'
  BY DEF IInv, TypeOK, RequestInv
<1> QED
  BY <1>1, <1>2, <1>3, <1>4 DEF IInv, Stopping

\* Receiving the response preserves it.
LEMMA receive_response_Inv ==
    ASSUME IInv, NEW c \in Connectors, receive_response(c)
    PROVE  IInv'
<1> USE DEF receive_response, GoTo
<1>1. TypeOK'
  BY DEF IInv, TypeOK, Places, RequestFrame
<1>2. RequestInv'
  BY DEF IInv, TypeOK, RequestInv
<1> QED
  BY <1>1, <1>2, RequestStepKept DEF IInv, Stopping

\* A lost connection preserves it: the request is reported, not replayed.
LEMMA transport_interruption_Inv ==
    ASSUME IInv, NEW c \in Connectors, transport_interruption(c)
    PROVE  IInv'
<1> USE DEF transport_interruption, GoTo
<1>1. PICK q \in {"check", "done"} : pc' = [pc EXCEPT ![c] = q]
  OBVIOUS
<1>2. faults' \in Nat
  BY BoundKept DEF IInv
<1>3. TypeOK'
  BY <1>1, <1>2 DEF IInv, TypeOK, Places, RequestFrame
<1>4. RequestInv'
  BY DEF IInv, TypeOK, RequestInv
<1> QED
  BY <1>1, <1>3, <1>4, RequestStepKept DEF IInv, Stopping

-----------------------------------------------------------------------------
(* Theorems. *)

\* Every step preserves the invariant.
LEMMA NextInv == IInv /\ [Next]_vars => IInv'
<1> SUFFICES ASSUME IInv, [Next]_vars PROVE IInv'
  OBVIOUS
<1>1. ASSUME NEW d \in Daemons, DaemonStep(d) \/ crash(d) \/ serve_listener(d)
      PROVE  IInv'
  BY <1>1, try_lock_Inv, set_file_length_Inv, write_file_Inv, bind_Inv, shutdown_Inv,
     drop_listener_Inv, drop_lease_Inv, crash_Inv, serve_listener_Inv DEF DaemonStep
<1>2. ASSUME NEW c \in Connectors, Ensure(c) PROVE IInv'
  BY <1>2, check_compatible_Inv, check_incompatible_Inv, check_unavailable_Inv,
     spawn_daemon_Inv, held_daemon_owner_Inv, unlock_file_Inv, parse_daemon_owner_Inv,
     state_after_missing_owner_Inv, post_handoff_Inv, recheck_health_Inv,
     terminate_Inv, wait_for_daemon_handoff_Inv DEF Ensure
<1>3. ASSUME NEW c \in Connectors, Request(c) PROVE IInv'
  BY <1>3, send_request_Inv, replay_request_Inv, handle_Inv, receive_response_Inv,
     transport_interruption_Inv DEF Request
<1>4. ASSUME NEW c \in Connectors, start_timeout(c) \/ spawn_daemon_fails(c) PROVE IInv'
  BY <1>4, start_timeout_Inv, spawn_daemon_fails_Inv
<1>5. CASE UNCHANGED vars
  BY <1>5 DEF vars, IInv, TypeOK, LeaseInv, IdentityInv, TargetInv, RequestInv,
     OnlyOlderStopped, LookalikeUntouched
<1> QED
  BY <1>1, <1>2, <1>3, <1>4, <1>5 DEF Next

\* The inductive invariant holds in every reachable state of the daemon and its
\* connectors.
THEOREM Invariance == Spec => []IInv
BY InitInv, NextInv, PTL DEF Spec

\* Every variable has its type.
THEOREM TypeCorrect == Spec => []TypeOK
<1>1. IInv => TypeOK
  BY DEF IInv
<1> QED
  BY <1>1, Invariance, PTL

\* A daemon that listens holds the lease, so there is one owner at a time.
THEOREM SingleOwner == Spec => []ListenerHoldsLease
<1>1. IInv => ListenerHoldsLease
  BY DEF IInv, LeaseInv, ListenerHoldsLease, Leased
<1> QED
  BY <1>1, Invariance, PTL

\* Recovery stops only daemons older than the connector.
THEOREM NoDowngrade == Spec => []OnlyOlderStopped
<1>1. IInv => OnlyOlderStopped
  BY DEF IInv
<1> QED
  BY <1>1, Invariance, PTL

\* Recovery never stops a server that does not own the lease.
THEOREM LookalikesSurvive == Spec => []LookalikeUntouched
<1>1. IInv => LookalikeUntouched
  BY DEF IInv
<1> QED
  BY <1>1, Invariance, PTL

\* No request is executed twice.
THEOREM ReplayIsSafe == Spec => []ExecutedAtMostOnce
<1>1. IInv => ExecutedAtMostOnce
  <2>1. ASSUME IInv, NEW c \in Connectors PROVE executed[c] <= 1
    <3>1. executed[c] = 0 \/ executed[c] = 1
      BY <2>1 DEF IInv, RequestInv
    <3> QED
      BY <3>1
  <2> QED
    BY <2>1 DEF ExecutedAtMostOnce
<1> QED
  BY <1>1, Invariance, PTL

=============================================================================
