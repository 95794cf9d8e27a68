---------------------------- MODULE SnapshotStore ----------------------------
(***************************************************************************)
(* What the store promises about ordinary coverage snapshots: a report is  *)
(* ingested once and its detail never changes afterwards.  Where the       *)
(* detail is kept, and that a compactor moves it, is not visible.          *)
(***************************************************************************)
CONSTANTS Snapshots,   \* the snapshot ids that may be ingested
          Report,      \* the parsed report each snapshot id is given
          NoDetail     \* the detail of an id that was never ingested

VARIABLE detail

Init == detail = [s \in Snapshots |-> NoDetail]

Ingest(s) ==
    /\ detail[s] = NoDetail
    /\ detail' = [detail EXCEPT ![s] = Report[s]]

Next == \E s \in Snapshots : Ingest(s)

Spec == Init /\ [][Next]_detail
==============================================================================
