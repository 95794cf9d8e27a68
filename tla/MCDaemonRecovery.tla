-------------------------- MODULE MCDaemonRecovery --------------------------
(* Instances of DaemonRecovery for TLC. *)
EXTENDS DaemonRecovery, TLC

CONSTANTS c1, c2, old, emb, d1, d2, d3

TwoConnectors == {c1, c2}

SameRelease == [c \in Connectors |-> 3]
TwoReleases == [c \in Connectors |-> IF c = c1 THEN 3 ELSE 2]

ResidentAndTwo == {old, d1, d2}
ResidentAndThree == {old, d1, d2, d3}
EmbeddedAndTwo == {old, emb, d1, d2}

\* Daemons that connectors start are interchangeable.
Interchangeable == Permutations({d1, d2})
=============================================================================
