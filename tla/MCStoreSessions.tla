-------------------------- MODULE MCStoreSessions --------------------------
(* Instances of StoreSessions for TLC. *)
EXTENDS StoreSessions, TLC

CONSTANTS q1, q2, s1, s2, s3, s4, ra, rb

OneOpened == [r \in Repos |-> IF r = ra THEN s1 ELSE None]

\* Requests are interchangeable, and so are the stores nobody has opened.
Interchangeable == Permutations(Requests) \cup Permutations({s3, s4} \cap Stores)

\* Bound: the rounds of two maintenance workers do not overlap.
OneWorkerRound == Cardinality({s \in Stores : pc[s] \notin {"idle", "exited"}}) <= 1
=============================================================================
