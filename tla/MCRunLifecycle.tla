--------------------------- MODULE MCRunLifecycle ---------------------------
(* Instances of RunLifecycle for TLC.                                       *)
EXTENDS RunLifecycle, TLC

CONSTANTS r1, r2, s1

\* All runs are for one Space, the case in which they contend.
OneSpace == {s1}
OneRun == {r1}
TwoRuns == {r1, r2}
AllSame == [r \in Run |-> s1]

\* The runs are interchangeable.
Symmetry == Permutations(Run)
=============================================================================
