--------------------------- MODULE MCRunLifecycle ---------------------------
(* Instances of RunLifecycle for TLC. *)
EXTENDS RunLifecycle, TLC

CONSTANTS r1, r2, r3, c1, c2, k1

TwoRuns == {r1, r2}
OneRun == {r1}
NoRuns == {}
OneClient == {c1}
OneKey == {k1}
NoKeys == {}
\* Run ids are interchangeable.
Interchangeable == Permutations(TwoRuns)

=============================================================================
