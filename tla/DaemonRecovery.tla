--------------------------- MODULE DaemonRecovery ---------------------------
(***************************************************************************)
(* The shared daemon of one common database and port: its process lease    *)
(* (src/lock.rs), start and shutdown (src/http.rs), and the connectors     *)
(* that find, start, replace and call it (src/main.rs).                    *)
(*                                                                         *)
(* An action is one system call on the lock file, one HTTP exchange as the *)
(* connector sees it, or one step of a daemon's start or shutdown.  A      *)
(* daemon process is identified with its instance id, its handoff token    *)
(* and its pid; pids are not reused.  All daemons run the same executable  *)
(* path and the lock file exists, possibly empty.                          *)
(***************************************************************************)
EXTENDS Naturals

CONSTANTS
    Connectors,    \* connector processes
    Daemons,       \* daemon processes, and servers without a lease
    Embedded,      \* those that were given a bound listener (serve_listener)
    Resident,      \* the daemons of which one may serve initially
    Release,       \* the release of each connector
    OldReleases,   \* what a resident or an embedded server may report
    FirstHandoff,  \* the first release with an instance id and a token
    None,          \* no process, no instance id
    MaxFaults      \* bound: crashes, signals, failed spawns, elapsed limits

ASSUME RecoveryAssumption ==
    /\ Connectors \cap Daemons = {}
    /\ None \notin Connectors \cup Daemons
    /\ Embedded \subseteq Daemons
    /\ Resident \subseteq Daemons \ Embedded
    /\ FirstHandoff \in Nat
    /\ Release \in [Connectors -> Nat]
    /\ \A c \in Connectors : Release[c] >= FirstHandoff
    /\ OldReleases \subseteq Nat \ {0}
    /\ MaxFaults \in Nat

VARIABLES
    phase,      \* where each daemon is between its spawn and its end
    release,    \* the release it runs, 0 before its spawn
    notified,   \* the daemons whose shutdown has been requested
    lock,       \* the process that holds the lock on daemon.lock
    meta,       \* the daemon whose metadata the file holds, None: empty
    listener,   \* the process bound to the port
    pc,         \* where each connector is
    inspecting, \* why it inspects the lease
    spawned,    \* it has called spawn_daemon in this ensure_daemon
    obs,        \* observation
    owner,      \* the lease owner it verified
    blocker,    \* who held the lock when its try_lock failed
    goal,       \* what it does after ensure_daemon
    inflight,   \* the daemon that accepted its request
    exchange,   \* how far that request is
    executed,   \* how often its request was executed
    stoppedBy,  \* the connectors that made a daemon stop
    faults

daemonVars == <<phase, release, notified, listener>>
leaseVars == <<lock, meta>>
lookVars == <<inspecting, obs, owner, blocker>>
requestVars == <<goal, inflight, exchange, executed>>
vars == <<daemonVars, leaseVars, pc, spawned, lookVars, requestVars,
          stoppedBy, faults>>

-----------------------------------------------------------------------------
(* Vocabulary. *)

Phases == {"none", "starting", "locked", "truncated", "recorded", "serving",
           "closing", "closed", "gone"}

\* The phases in which a daemon's FileLease exists.
Leased == {"locked", "truncated", "recorded", "serving", "closing", "closed"}

Places == {"check", "spawn", "probe", "unlock", "read", "missing", "post",
           "recheck", "kill", "await", "ready", "sent", "resend", "resent",
           "done", "failed"}

\* handoff_supported, and an instance id in health and lease metadata.
HandoffSupported(d) == release[d] >= FirstHandoff

\* The part of a health response or of lease metadata that identifies d.
InstanceId(d) == IF HandoffSupported(d) THEN d ELSE None

\* DaemonObservation.
Observation(d) == [release |-> release[d], instance |-> InstanceId(d)]

Observations == [release : Nat, instance : Daemons \cup {None}]

\* The process that answers HTTP requests: a daemon that is closing its stores
\* still has the listener, but no longer accepts.
Answering == {d \in Daemons : listener = d /\ phase[d] = "serving"}

Init ==
    /\ \E p \in Resident \cup {None} :
          /\ lock = p /\ meta = p /\ listener = p
          /\ phase = [d \in Daemons |-> IF d = p THEN "serving" ELSE "none"]
          /\ release \in [Daemons -> {0} \cup OldReleases]
          /\ \A d \in Daemons : release[d] # 0 <=> d \in Embedded \cup {p}
    /\ notified = {}
    /\ pc = [c \in Connectors |-> "check"]
    /\ inspecting = [c \in Connectors |-> "recover"]
    /\ spawned = {}
    /\ obs = [c \in Connectors |-> [release |-> 0, instance |-> None]]
    /\ owner = [c \in Connectors |-> None]
    /\ blocker = [c \in Connectors |-> None]
    /\ goal = [c \in Connectors |-> "connect"]
    /\ inflight = [c \in Connectors |-> None]
    /\ exchange = [c \in Connectors |-> "idle"]
    /\ executed = [c \in Connectors |-> 0]
    /\ stoppedBy = [d \in Daemons |-> {}]
    /\ faults = 0

-----------------------------------------------------------------------------
(* The daemon. *)

Fault == faults < MaxFaults /\ faults' = faults + 1

DaemonFrame ==
    UNCHANGED <<release, pc, spawned, lookVars, requestVars, stoppedBy>>

\* FileLease::acquire_daemon: try_lock either succeeds, or fails with Busy and
\* the process ends.
try_lock(d) ==
    /\ phase[d] = "starting"
    /\ \/ /\ lock = None
          /\ lock' = d
          /\ phase' = [phase EXCEPT ![d] = "locked"]
       \/ /\ lock # None
          /\ phase' = [phase EXCEPT ![d] = "gone"]
          /\ UNCHANGED lock
    /\ UNCHANGED <<meta, notified, listener, faults>>
    /\ DaemonFrame

\* write_metadata: set_len(0) makes the file empty while it is locked.
set_file_length(d) ==
    /\ phase[d] = "locked"
    /\ phase' = [phase EXCEPT ![d] = "truncated"]
    /\ meta' = None
    /\ UNCHANGED <<lock, notified, listener, faults>>
    /\ DaemonFrame

\* write_metadata: the identity of the new owner.
write_file(d) ==
    /\ phase[d] = "truncated"
    /\ phase' = [phase EXCEPT ![d] = "recorded"]
    /\ meta' = d
    /\ UNCHANGED <<lock, notified, listener, faults>>
    /\ DaemonFrame

\* TcpListener::bind: with the port taken, run() returns and drops the lease.
bind(d) ==
    /\ phase[d] = "recorded"
    /\ \/ /\ listener = None
          /\ listener' = d
          /\ phase' = [phase EXCEPT ![d] = "serving"]
          /\ UNCHANGED lock
       \/ /\ listener # None
          /\ phase' = [phase EXCEPT ![d] = "gone"]
          /\ lock' = None
          /\ UNCHANGED listener
    /\ UNCHANGED <<meta, notified, faults>>
    /\ DaemonFrame

\* Mutant: the lease is released before the stores and the listener are closed.
shutdown_releases_lease(d) ==
    /\ phase[d] = "serving"
    /\ \/ d \in notified /\ UNCHANGED faults
       \/ d \notin notified /\ Fault
    /\ phase' = [phase EXCEPT ![d] = "closing"]
    /\ lock' = None
    /\ UNCHANGED <<meta, notified, listener>>
    /\ DaemonFrame

\* serve_until_shutdown: the accept loop ends after a handoff, or because of a
\* signal or a failing accept.
shutdown(d) ==
    /\ phase[d] = "serving"
    /\ \/ d \in notified /\ UNCHANGED faults
       \/ d \notin notified /\ Fault
    /\ phase' = [phase EXCEPT ![d] = "closing"]
    /\ UNCHANGED <<leaseVars, notified, listener>>
    /\ DaemonFrame

\* serve_until_shutdown_with returns after close_stores and drops the listener.
drop_listener(d) ==
    /\ phase[d] = "closing"
    /\ phase' = [phase EXCEPT ![d] = IF d \in Embedded THEN "gone" ELSE "closed"]
    /\ listener' = None
    /\ UNCHANGED <<leaseVars, notified, faults>>
    /\ DaemonFrame

\* run() returns and drops the lease.
drop_lease(d) ==
    /\ phase[d] = "closed"
    /\ phase' = [phase EXCEPT ![d] = "gone"]
    /\ lock' = None
    /\ UNCHANGED <<meta, notified, listener, faults>>
    /\ DaemonFrame

\* The process dies: the system closes its sockets and releases its lock.
crash(d) ==
    /\ phase[d] \notin {"none", "gone"}
    /\ Fault
    /\ phase' = [phase EXCEPT ![d] = "gone"]
    /\ lock' = IF lock = d THEN None ELSE lock
    /\ listener' = IF listener = d THEN None ELSE listener
    /\ UNCHANGED <<meta, notified>>
    /\ DaemonFrame

\* serve_listener: a server that binds the port itself and takes no lease.
serve_listener(d) ==
    /\ d \in Embedded
    /\ phase[d] = "none"
    /\ listener = None
    /\ listener' = d
    /\ phase' = [phase EXCEPT ![d] = "serving"]
    /\ UNCHANGED <<leaseVars, notified, faults>>
    /\ DaemonFrame

-----------------------------------------------------------------------------
(* What a connector learns from one GET /health. *)

Compatible(c) == \E d \in Answering : release[d] = Release[c]

Incompatible(c) ==
    {Observation(d) : d \in {a \in Answering : release[a] # Release[c]}}

\* No answer: nobody accepts, or the request timed out.
Unavailable ==
    \/ Answering = {} /\ UNCHANGED faults
    \/ Answering # {} /\ Fault

\* Where the caller of ensure_daemon goes when it returns: the connector's main
\* loop or its exit, the replay of a refused request, or the report of the
\* transport error.
Returned(c, ok) ==
    CASE goal[c] = "connect" -> IF ok THEN "ready" ELSE "failed"
      [] goal[c] = "replay" -> IF ok THEN "resend" ELSE "done"
      [] goal[c] = "report" -> "done"

GoTo(c, place) == pc' = [pc EXCEPT ![c] = place]

ConnectorFrame == UNCHANGED <<daemonVars, leaseVars, requestVars, stoppedBy>>

(* ensure_daemon. *)

\* daemon_health in ensure_daemon found this release: done.
check_compatible(c) ==
    /\ pc[c] = "check"
    /\ Compatible(c)
    /\ GoTo(c, Returned(c, TRUE))
    /\ UNCHANGED <<spawned, lookVars, faults>>
    /\ ConnectorFrame

\* daemon_health found another release: validate_recoverable_daemon refuses
\* one that is not older; recovery begins with the lease.
check_incompatible(c) ==
    /\ pc[c] = "check"
    /\ \E o \in Incompatible(c) :
          /\ obs' = [obs EXCEPT ![c] = o]
          /\ GoTo(c, IF o.release < Release[c] THEN "probe" ELSE Returned(c, FALSE))
    /\ inspecting' = [inspecting EXCEPT ![c] = "recover"]
    /\ UNCHANGED <<spawned, owner, blocker, faults>>
    /\ ConnectorFrame

\* Mutant: the first poll after the spawn decides.
check_unavailable_once(c) ==
    /\ pc[c] = "check"
    /\ Unavailable
    /\ GoTo(c, IF c \in spawned THEN Returned(c, FALSE) ELSE "spawn")
    /\ UNCHANGED <<spawned, lookVars>>
    /\ ConnectorFrame

\* Nobody answers: start a daemon once, then poll.
check_unavailable(c) ==
    /\ pc[c] = "check"
    /\ Unavailable
    /\ GoTo(c, IF c \in spawned THEN "check" ELSE "spawn")
    /\ UNCHANGED <<spawned, lookVars>>
    /\ ConnectorFrame

\* DAEMON_START_TIMEOUT.
start_timeout(c) ==
    /\ pc[c] = "check"
    /\ c \in spawned
    /\ Fault
    /\ GoTo(c, Returned(c, FALSE))
    /\ UNCHANGED <<spawned, lookVars>>
    /\ ConnectorFrame

\* spawn_daemon: a process of the connector's own release.
spawn_daemon(c) ==
    /\ pc[c] = "spawn"
    /\ \E d \in Daemons \ Embedded :
          /\ phase[d] = "none"
          /\ phase' = [phase EXCEPT ![d] = "starting"]
          /\ release' = [release EXCEPT ![d] = Release[c]]
    /\ spawned' = spawned \cup {c}
    /\ GoTo(c, "check")
    /\ UNCHANGED <<notified, listener, leaseVars, lookVars, requestVars,
                   stoppedBy, faults>>

\* spawn_daemon returns an error.
spawn_daemon_fails(c) ==
    /\ pc[c] = "spawn"
    /\ Fault
    /\ GoTo(c, Returned(c, FALSE))
    /\ UNCHANGED <<daemonVars, leaseVars, spawned, lookVars, requestVars,
                   stoppedBy>>

-----------------------------------------------------------------------------
(* held_daemon_owner, called from three places. *)

\* try_lock: a free lock is held until unlock; otherwise the file is read.
held_daemon_owner(c) ==
    /\ pc[c] = "probe"
    /\ \/ /\ lock = None
          /\ lock' = c
          /\ GoTo(c, "unlock")
          /\ UNCHANGED blocker
       \/ /\ lock # None
          /\ blocker' = [blocker EXCEPT ![c] = lock]
          /\ GoTo(c, "read")
          /\ UNCHANGED lock
    /\ UNCHANGED <<daemonVars, meta, spawned, inspecting, obs, owner,
                   requestVars, stoppedBy, faults>>

\* Mutant: the inspected lock is not released.
unlock_file_forgotten(c) ==
    /\ pc[c] = "unlock"
    /\ GoTo(c, CASE inspecting[c] = "recover" -> "missing"
                 [] inspecting[c] = "gone" -> "spawn"
                 [] inspecting[c] = "same" -> "await")
    /\ UNCHANGED <<daemonVars, leaseVars, spawned, lookVars, requestVars,
                   stoppedBy, faults>>

\* The lease was free: None.  recover_incompatible_daemon looks at the state
\* again; wait_for_daemon_handoff returns false when health was unavailable
\* and polls on when it was not.
unlock_file(c) ==
    /\ pc[c] = "unlock"
    /\ lock' = None
    /\ GoTo(c, CASE inspecting[c] = "recover" -> "missing"
                 [] inspecting[c] = "gone" -> "spawn"
                 [] inspecting[c] = "same" -> "await")
    /\ UNCHANGED <<daemonVars, meta, spawned, lookVars, requestVars, stoppedBy,
                   faults>>

\* Mutant: the instance ids of health and lease are not compared.
AnyOwnerValid(c, d) == TRUE

\* validate_daemon_owner, and the agreement on handoff support: health and
\* lease name the same instance, or neither names one.
ValidOwner(c, d) == obs[c].instance = InstanceId(d)

\* read_metadata_text and parse_daemon_owner: an error for an empty file, and
\* then what the caller does with the owner.
parse_daemon_owner(c) ==
    /\ pc[c] = "read"
    /\ \/ /\ meta = None
          /\ GoTo(c, Returned(c, FALSE))
          /\ UNCHANGED owner
       \/ /\ meta # None
          /\ inspecting[c] = "recover"
          /\ owner' = [owner EXCEPT ![c] = meta]
          /\ GoTo(c, CASE ~ValidOwner(c, meta) -> Returned(c, FALSE)
                       [] ValidOwner(c, meta) /\ obs[c].instance # None -> "post"
                       [] OTHER -> "recheck")
       \/ /\ meta # None
          /\ inspecting[c] # "recover"
          /\ GoTo(c, IF inspecting[c] = "same" /\ meta # owner[c]
                     THEN Returned(c, FALSE) ELSE "await")
          /\ UNCHANGED owner
    /\ blocker' = [blocker EXCEPT ![c] = None]
    /\ UNCHANGED <<spawned, inspecting, obs, faults>>
    /\ ConnectorFrame

-----------------------------------------------------------------------------
(* recover_incompatible_daemon. *)

\* state_after_missing_owner.
state_after_missing_owner(c) ==
    /\ pc[c] = "missing"
    /\ \/ Compatible(c) /\ GoTo(c, Returned(c, TRUE)) /\ UNCHANGED faults
       \/ Unavailable /\ GoTo(c, "spawn")
       \/ /\ Incompatible(c) # {}
          /\ GoTo(c, Returned(c, FALSE))
          /\ UNCHANGED faults
    /\ UNCHANGED <<spawned, lookVars>>
    /\ ConnectorFrame

\* Mutant: the token is not compared.
AnyTokenAccepted(c, d) == TRUE

\* dispatch_daemon_handoff accepts the token of its own instance only.
TokenAccepted(c, d) == owner[c] = d

\* POST /daemon/handoff with the owner's token: accepted, rejected, or lost.
post_handoff(c) ==
    /\ pc[c] = "post"
    /\ \/ \E d \in Answering :
             /\ TokenAccepted(c, d)
             /\ notified' = notified \cup {d}
             /\ stoppedBy' = [stoppedBy EXCEPT ![d] = @ \cup {c}]
             /\ GoTo(c, "await")
             /\ UNCHANGED faults
       \/ /\ \E d \in Answering : ~TokenAccepted(c, d)
          /\ GoTo(c, Returned(c, FALSE))
          /\ UNCHANGED <<notified, stoppedBy, faults>>
       \/ /\ Unavailable
          /\ GoTo(c, "await")
          /\ UNCHANGED <<notified, stoppedBy>>
    /\ UNCHANGED <<phase, release, listener, leaseVars, spawned, lookVars,
                   requestVars>>

\* Before a daemon without handoff is signalled, health must be unchanged.
recheck_health(c) ==
    /\ pc[c] = "recheck"
    /\ \/ Compatible(c) /\ GoTo(c, Returned(c, TRUE)) /\ UNCHANGED faults
       \/ Unavailable /\ GoTo(c, "spawn")
       \/ \E o \in Incompatible(c) :
             /\ GoTo(c, IF o = obs[c] THEN "kill" ELSE Returned(c, FALSE))
             /\ UNCHANGED faults
    /\ UNCHANGED <<spawned, lookVars>>
    /\ ConnectorFrame

\* kill -TERM: fails when the process is gone.
terminate_pre_handoff_daemon(c) ==
    /\ pc[c] = "kill"
    /\ \/ /\ phase[owner[c]] # "gone"
          /\ notified' = notified \cup {owner[c]}
          /\ stoppedBy' = [stoppedBy EXCEPT ![owner[c]] = @ \cup {c}]
          /\ GoTo(c, "await")
       \/ /\ phase[owner[c]] = "gone"
          /\ GoTo(c, Returned(c, FALSE))
          /\ UNCHANGED <<notified, stoppedBy>>
    /\ UNCHANGED <<phase, release, listener, leaseVars, spawned, lookVars,
                   requestVars, faults>>

\* One round of wait_for_daemon_handoff, or its time limit.
wait_for_daemon_handoff(c) ==
    /\ pc[c] = "await"
    /\ \/ /\ Compatible(c)
          /\ GoTo(c, Returned(c, TRUE))
          /\ UNCHANGED <<inspecting, faults>>
       \/ /\ Unavailable
          /\ GoTo(c, "probe")
          /\ inspecting' = [inspecting EXCEPT ![c] = "gone"]
       \/ \E o \in Incompatible(c) :
             /\ GoTo(c, IF o = obs[c] THEN "probe" ELSE Returned(c, FALSE))
             /\ inspecting' = [inspecting EXCEPT ![c] = "same"]
             /\ UNCHANGED faults
       \/ /\ Fault
          /\ GoTo(c, Returned(c, FALSE))
          /\ UNCHANGED inspecting
    /\ UNCHANGED <<spawned, obs, owner, blocker>>
    /\ ConnectorFrame

-----------------------------------------------------------------------------
(* daemon_request_with_recovery. *)

RequestFrame ==
    UNCHANGED <<daemonVars, leaseVars, lookVars, stoppedBy>>

\* TcpStream::connect succeeds while the port is bound; the request is served
\* if the accept loop still runs.
Connect(c) ==
    /\ listener # None
    /\ IF phase[listener] = "serving"
       THEN /\ inflight' = [inflight EXCEPT ![c] = listener]
            /\ exchange' = [exchange EXCEPT ![c] = "accepted"]
       ELSE UNCHANGED <<inflight, exchange>>

\* daemon_request: sent, or refused and to be replayed.
send_request(c) ==
    /\ pc[c] = "ready"
    /\ \/ /\ Connect(c)
          /\ GoTo(c, "sent")
          /\ UNCHANGED <<goal, spawned>>
       \/ /\ listener = None
          /\ goal' = [goal EXCEPT ![c] = "replay"]
          /\ spawned' = spawned \ {c}
          /\ GoTo(c, "check")
          /\ UNCHANGED <<inflight, exchange>>
    /\ UNCHANGED <<executed, faults>>
    /\ RequestFrame

\* The replay after a refused connection; it is not replayed again.
replay_request(c) ==
    /\ pc[c] = "resend"
    /\ \/ /\ Connect(c)
          /\ GoTo(c, "resent")
       \/ /\ listener = None
          /\ GoTo(c, "done")
          /\ UNCHANGED <<inflight, exchange>>
    /\ UNCHANGED <<goal, executed, spawned, faults>>
    /\ RequestFrame

\* The daemon executes an accepted request, whether or not the connector still
\* waits, and then writes the response.
handle(c) ==
    /\ exchange[c] \in {"accepted", "executed"}
    /\ phase[inflight[c]] # "gone"
    /\ \/ /\ exchange[c] = "accepted"
          /\ executed' = [executed EXCEPT ![c] = @ + 1]
          /\ exchange' = [exchange EXCEPT ![c] = "executed"]
       \/ /\ exchange[c] = "executed"
          /\ exchange' = [exchange EXCEPT ![c] = "answered"]
          /\ UNCHANGED executed
    /\ UNCHANGED <<goal, inflight, pc, spawned, faults>>
    /\ RequestFrame

receive_response(c) ==
    /\ pc[c] \in {"sent", "resent"}
    /\ exchange[c] = "answered"
    /\ GoTo(c, "done")
    /\ UNCHANGED <<requestVars, spawned, faults>>
    /\ RequestFrame

\* Mutant: every interrupted request is replayed.
transport_interruption_replays(c) ==
    /\ pc[c] = "sent"
    /\ exchange[c] # "answered"
    /\ \/ /\ exchange[c] # "idle" => phase[inflight[c]] = "gone"
          /\ UNCHANGED faults
       \/ Fault
    /\ goal' = [goal EXCEPT ![c] = "replay"]
    /\ spawned' = spawned \ {c}
    /\ GoTo(c, "check")
    /\ UNCHANGED <<inflight, exchange, executed>>
    /\ RequestFrame

\* The connection is reset, because it was never accepted or the process ended
\* before it answered, or the request times out.  The first request is then
\* reported as failed, after ensure_daemon.
transport_interruption(c) ==
    /\ pc[c] \in {"sent", "resent"}
    /\ exchange[c] # "answered"
    /\ \/ /\ exchange[c] # "idle" => phase[inflight[c]] = "gone"
          /\ UNCHANGED faults
       \/ Fault
    /\ \/ /\ pc[c] = "sent"
          /\ goal' = [goal EXCEPT ![c] = "report"]
          /\ spawned' = spawned \ {c}
          /\ GoTo(c, "check")
       \/ /\ pc[c] = "resent"
          /\ GoTo(c, "done")
          /\ UNCHANGED <<goal, spawned>>
    /\ UNCHANGED <<inflight, exchange, executed>>
    /\ RequestFrame

-----------------------------------------------------------------------------
DaemonStep(d) ==
    \/ try_lock(d) \/ set_file_length(d) \/ write_file(d) \/ bind(d)
    \/ shutdown(d) \/ drop_listener(d) \/ drop_lease(d)

Ensure(c) ==
    \/ check_compatible(c) \/ check_incompatible(c) \/ check_unavailable(c)
    \/ spawn_daemon(c) \/ held_daemon_owner(c) \/ unlock_file(c)
    \/ parse_daemon_owner(c) \/ state_after_missing_owner(c) \/ post_handoff(c)
    \/ recheck_health(c) \/ terminate_pre_handoff_daemon(c)
    \/ wait_for_daemon_handoff(c)

Request(c) ==
    \/ send_request(c) \/ replay_request(c) \/ handle(c) \/ receive_response(c)
    \/ transport_interruption(c)

Next ==
    \/ \E d \in Daemons : DaemonStep(d) \/ crash(d) \/ serve_listener(d)
    \/ \E c \in Connectors :
          Ensure(c) \/ Request(c) \/ start_timeout(c) \/ spawn_daemon_fails(c)

Spec == Init /\ [][Next]_vars

\* Processes that run are scheduled, and a poll sees what answers.  Nothing
\* makes a process crash, a limit elapse or a request be sent.
FairSpec ==
    /\ Spec
    /\ \A d \in Daemons : WF_vars(DaemonStep(d))
    /\ \A c \in Connectors : WF_vars(Ensure(c))

-----------------------------------------------------------------------------
(* Properties. *)

\* Type correctness: every table, file, position and counter stays in its set.
TypeOK ==
    /\ phase \in [Daemons -> Phases]
    /\ release \in [Daemons -> Nat]
    /\ notified \subseteq Daemons
    /\ lock \in Daemons \cup Connectors \cup {None}
    /\ meta \in Daemons \cup {None}
    /\ listener \in Daemons \cup {None}
    /\ pc \in [Connectors -> Places]
    /\ inspecting \in [Connectors -> {"recover", "gone", "same"}]
    /\ spawned \subseteq Connectors
    /\ obs \in [Connectors -> Observations]
    /\ owner \in [Connectors -> Daemons \cup {None}]
    /\ blocker \in [Connectors -> Daemons \cup Connectors \cup {None}]
    /\ goal \in [Connectors -> {"connect", "replay", "report"}]
    /\ inflight \in [Connectors -> Daemons \cup {None}]
    /\ exchange \in [Connectors -> {"idle", "accepted", "executed", "answered"}]
    /\ executed \in [Connectors -> Nat]
    /\ stoppedBy \in [Daemons -> SUBSET Connectors]
    /\ faults \in Nat

\* Single owner: a daemon started by run() that has the port also holds the
\* lease, through start, shutdown and the inspection of the lease by
\* connectors, so a free lease means that the port is free for a successor.
ListenerHoldsLease ==
    \A d \in Daemons \ Embedded : listener = d => lock = d

\* "An older connector must not downgrade": recovery only ever stops daemons
\* that are older than the connector that does it, although health, lease and
\* the stop are separate steps between which the daemon can be replaced.
OnlyOlderStopped ==
    \A d \in Daemons, c \in Connectors :
        c \in stoppedBy[d] => release[d] < Release[c]

\* A server without the lease is never stopped by recovery.
LookalikeUntouched == \A d \in Embedded : stoppedBy[d] = {}

\* A request is executed at most once, although it is sent again after a
\* refused connection and although a timed-out request may still be executed.
ExecutedAtMostOnce == \A c \in Connectors : executed[c] <= 1

\* "Returns the daemon identity only while the daemon lease is actively held"
\* (held_daemon_owner): the owner read had the lock when try_lock failed or has
\* it when the file is read.
OwnerHoldsLease ==
    [][\A c \in Connectors :
          parse_daemon_owner(c) /\ meta # None => meta \in {blocker[c], lock}]_vars

Serves(r) == \E d \in Answering : release[d] = r

\* Starting, and replacing an older release, succeed: with connectors of one
\* release, whoever stops, inspects or starts a daemon, in the end a daemon of
\* that release serves.
UpgradeCompletes == \A c \in Connectors : <>[]Serves(Release[c])

\* With nothing to replace, every connector gets through, however many start a
\* daemon at the same time.
EveryoneConnects ==
    listener = None => \A c \in Connectors : <>(pc[c] = "ready")

-----------------------------------------------------------------------------
(* The inductive invariant. *)

\* The lock belongs to the daemon between its acquisition and its release, or
\* to the connector between try_lock and unlock; the port to who listens.
LeaseInv ==
    /\ \A d \in Daemons \ Embedded : lock = d <=> phase[d] \in Leased
    /\ \A d \in Embedded :
          lock # d /\ phase[d] \in {"none", "serving", "closing", "gone"}
    /\ \A c \in Connectors : lock = c <=> pc[c] = "unlock"
    /\ \A d \in Daemons : listener = d <=> phase[d] \in {"serving", "closing"}

\* Identities refer to processes that were started, and keep their release.
IdentityInv ==
    /\ meta # None => meta \notin Embedded /\ phase[meta] # "none"
    /\ \A d \in Daemons : stoppedBy[d] # {} => phase[d] # "none"
    /\ \A c \in Connectors :
          /\ owner[c] # None => owner[c] \notin Embedded /\ phase[owner[c]] # "none"
          /\ obs[c].instance # None =>
                /\ phase[obs[c].instance] # "none"
                /\ release[obs[c].instance] = obs[c].release

\* What a connector knows when it is about to stop a daemon.
TargetInv ==
    \A c \in Connectors :
        /\ \/ pc[c] \in {"probe", "unlock", "read"} /\ inspecting[c] = "recover"
           \/ pc[c] \in {"post", "recheck", "kill"}
           => obs[c].release < Release[c]
        /\ pc[c] = "post" => owner[c] # None /\ obs[c].instance = owner[c]
        /\ pc[c] \in {"recheck", "kill"} =>
              owner[c] # None /\ release[owner[c]] < FirstHandoff

\* A request that was accepted is never sent again.
RequestInv ==
    \A c \in Connectors :
        /\ pc[c] = "ready" => goal[c] = "connect"
        /\ pc[c] = "resend" => goal[c] = "replay"
        /\ executed[c] = IF exchange[c] \in {"executed", "answered"} THEN 1 ELSE 0
        /\ exchange[c] # "idle" =>
              /\ inflight[c] # None
              /\ pc[c] \notin {"ready", "resend"}
              /\ goal[c] = "connect" => pc[c] \in {"sent", "done"}
              /\ goal[c] = "replay" => pc[c] \in {"resent", "done"}

IInv ==
    /\ TypeOK
    /\ LeaseInv
    /\ IdentityInv
    /\ TargetInv
    /\ RequestInv
    /\ OnlyOlderStopped
    /\ LookalikeUntouched

=============================================================================
