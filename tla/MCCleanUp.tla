------------------------------ MODULE MCCleanUp ------------------------------
(* Instances of CleanUpSafety for TLC: p1, which cleans up, runs on h1, and *)
(* p2 on h2.                                                                *)
EXTENDS CleanUpSafety, TLC

CONSTANTS v1, v2, v3, h1, h2, p1, p2

MCHostOf == [p \in Procs |-> IF p = p1 THEN h1 ELSE h2]

\* The volumes of the cluster are interchangeable.
OwnVolumes == Permutations({v1, v2})

=============================================================================
