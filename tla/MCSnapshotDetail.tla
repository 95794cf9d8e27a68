--------------------------- MODULE MCSnapshotDetail ---------------------------
(* Small instances of SnapshotDetail. *)
EXTENDS SnapshotDetail

CONSTANTS s1, s2, row, worker, handler, query

\* One report with named tests; the others have none, as most formats do.
MCReport ==
    [s \in Snapshots |-> [t \in Tables |->
        IF s = s1 \/ t \in {"files", "lines"} THEN {row} ELSE {}]]
==============================================================================
